-------------------------------- MODULE Shell --------------------------------
(***************************************************************************)
(* The shell (user/sh.c): the parser, from a line to a command, and        *)
(* runcmd(), from a command to the system calls it makes.  A parsing       *)
(* function takes the rest of the line and returns the command and what is *)
(* left; bad says that it has called panic(), which ends the process.      *)
(***************************************************************************)
EXTENDS Utilities

MAXARGS == 10
symbols == {"<", "|", ">", ">>", "&", ";", "(", ")"}

\* A line is the sequence of its words and symbols.  tok is the kind of the next
\* one: "a" for a word, "+" for >>, "" at the end of the line.
Kind(text) == IF text = ">>" THEN "+" ELSE IF text \in symbols THEN text ELSE "a"
gettoken(line) ==
    IF line = <<>> THEN [tok |-> "", text |-> "", rest |-> <<>>]
    ELSE [tok |-> Kind(Head(line)), text |-> Head(line), rest |-> Tail(line)]

\* A look at the first character of what comes next.
peek(line, toks) == gettoken(line).tok \in toks \/ (gettoken(line).tok = "+" /\ ">" \in toks)

execcmd(argv) == [type |-> "EXEC", argv |-> argv]
redircmd(cmd, file, mode, fd) ==
    [type |-> "REDIR", cmd |-> cmd, file |-> file, mode |-> mode, fd |-> fd]
pipecmd(left, right) == [type |-> "PIPE", left |-> left, right |-> right]
listcmd(left, right) == [type |-> "LIST", left |-> left, right |-> right]
backcmd(cmd) == [type |-> "BACK", cmd |-> cmd]

Parsed(cmd, rest) == [bad |-> FALSE, cmd |-> cmd, rest |-> rest]
syntax == [bad |-> TRUE, cmd |-> execcmd(<<>>), rest |-> <<>>]

RECURSIVE parseredirs(_, _)
Redirect(cmd, tok, file) ==
    CASE file.tok # "a" -> syntax
      [] file.tok = "a" /\ tok = "<" -> parseredirs(redircmd(cmd, file.text, {}, "stdin"), file.rest)
      [] file.tok = "a" /\ tok = ">" ->
            parseredirs(redircmd(cmd, file.text, {"W", "C", "T"}, "stdout"), file.rest)
      [] OTHER -> parseredirs(redircmd(cmd, file.text, {"W", "C"}, "stdout"), file.rest)
parseredirs(cmd, line) ==
    IF ~peek(line, {"<", ">"}) THEN Parsed(cmd, line)
    ELSE Redirect(cmd, gettoken(line).tok, gettoken(gettoken(line).rest))

\* The redirections are found among the words, and the list of words is
\* complete only at the end: it is filled in below them.
RECURSIVE WithArgs(_, _)
WithArgs(cmd, argv) ==
    IF cmd.type = "EXEC" THEN execcmd(argv) ELSE [cmd EXCEPT !.cmd = WithArgs(@, argv)]

RECURSIVE ParseWords(_, _)
AddWord(r, argv, t) ==
    IF t.tok = "" THEN Parsed(WithArgs(r.cmd, argv), r.rest)
    ELSE IF t.tok # "a" \/ Len(argv) + 1 >= MAXARGS THEN syntax
    ELSE ParseWords(parseredirs(r.cmd, t.rest), Append(argv, t.text))
ParseWords(r, argv) ==
    IF r.bad THEN syntax
    ELSE IF peek(r.rest, {"|", ")", "&", ";"}) THEN Parsed(WithArgs(r.cmd, argv), r.rest)
    ELSE AddWord(r, argv, gettoken(r.rest))

RECURSIVE parseline(_)
Block(l) ==
    IF l.bad \/ ~peek(l.rest, {")"}) THEN syntax ELSE parseredirs(l.cmd, gettoken(l.rest).rest)
parseblock(line) == Block(parseline(gettoken(line).rest))

parseexec(line) ==
    IF peek(line, {"("}) THEN parseblock(line) ELSE ParseWords(parseredirs(execcmd(<<>>), line), <<>>)

RECURSIVE parsepipe(_)
Piped(l, r) == IF r.bad THEN syntax ELSE Parsed(pipecmd(l.cmd, r.cmd), r.rest)
PipeAfter(l) ==
    IF l.bad \/ ~peek(l.rest, {"|"}) THEN l ELSE Piped(l, parsepipe(gettoken(l.rest).rest))
parsepipe(line) == PipeAfter(parseexec(line))

RECURSIVE Backgrounds(_)
Backgrounds(c) ==
    IF c.bad \/ ~peek(c.rest, {"&"}) THEN c
    ELSE Backgrounds(Parsed(backcmd(c.cmd), gettoken(c.rest).rest))

Listed(l, r) == IF r.bad THEN syntax ELSE Parsed(listcmd(l.cmd, r.cmd), r.rest)
ListAfter(l) ==
    IF l.bad \/ ~peek(l.rest, {";"}) THEN l ELSE Listed(l, parseline(gettoken(l.rest).rest))
parseline(line) == ListAfter(Backgrounds(parsepipe(line)))

Whole(c) == IF c.bad \/ c.rest # <<>> THEN syntax ELSE c
parsecmd(line) == Whole(parseline(line))

-----------------------------------------------------------------------------
(* Running a command *)

\* The programs of the image, by the name in argv[0].
Main(argv) ==
    LET args == Tail(argv)
    IN  CASE argv[1] = "echo" -> echo(args)
          [] argv[1] = "cat" -> cat(args)
          [] argv[1] = "rm" -> rm(args)
          [] argv[1] = "mkdir" -> mkdirs(args)
          [] argv[1] = "ln" -> ln(args)
          [] argv[1] = "wc" -> wc(args)
          [] OTHER -> <<>>

fork1(child) == <<Fork("pid", child), OrExit>>

RECURSIVE runcmd(_)
runcmd(cmd) ==
    CASE cmd.type = "EXEC" ->
           IF cmd.argv = <<>> THEN <<Exit(1)>>
           ELSE <<Exec(cmd.argv[1], Main(cmd.argv)), Exit(0)>>
      [] cmd.type = "REDIR" ->
           <<Close(cmd.fd), Open("", cmd.file, cmd.mode), OrExit>> \o runcmd(cmd.cmd)
      [] cmd.type = "LIST" -> fork1(runcmd(cmd.left)) \o <<Wait("", "st")>> \o runcmd(cmd.right)
      [] cmd.type = "PIPE" ->
           LET end(std, p) == <<Close(std), Dup("", p), Close("p0"), Close("p1")>>
           IN  <<Pipe("p0", "p1"), OrExit>>
               \o fork1(end("stdout", "p1") \o runcmd(cmd.left))
               \o fork1(end("stdin", "p0") \o runcmd(cmd.right))
               \o <<Close("p0"), Close("p1"), Wait("", "st"), Wait("", "st"), Exit(0)>>
      [] cmd.type = "BACK" -> fork1(runcmd(cmd.cmd)) \o <<Exit(0)>>

\* One turn of main()'s loop.
Child(c) == fork1(IF c.bad THEN <<Exit(1)>> ELSE runcmd(c.cmd)) \o <<Wait("", "st")>>
Line(line) ==
    IF Head(line) = "cd" THEN <<Chdir(line[2])>> ELSE Child(parsecmd(line))

\* main() on the given lines, which getcmd() reads from the console.
sh(lines) ==
    <<Loop(<<Open("fd", "console", {"RW"}),
             IfOk(<<IfIs("fd", 3, <<Close("fd"), Break>>, <<>>)>>, <<Break>>)>>)>>
    \o For(Len(lines), LAMBDA i : Line(lines[i]))
=============================================================================
