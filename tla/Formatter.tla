------------------------------ MODULE Formatter ------------------------------
(* `causm fmt` (causm-cli, main.rs): each file given is parsed, printed, and *)
(* parsed again; it is overwritten only if the second tree equals the first, *)
(* by an equality that leaves parts of a tree out, and if the text that was  *)
(* accepted by the analysis before still is.                                 *)
EXTENDS Naturals

CONSTANTS
  Commands,                     \* the files a command may be given, a sequence of texts
  MaxRuns,                      \* how many times the same command is run
  Parse(_),                     \* what the parser makes of a text: a tree, or how it failed, err
  Layout(_),                    \* the text the printer gives to a tree
  SameTree(_, _)                \* whether the gate takes two trees for equal

ASSUME RunsAssumption == MaxRuns \in Nat \ {0}
ASSUME CommandsAssumption == \A c \in Commands : 1 \in DOMAIN c

VARIABLES
  disk,                         \* the text of each file
  run, file,                    \* the run, and the file it is at
  phase,                        \* what comes next, or how the run ended
  program, text, back,          \* the tree of the file, its new text, the tree of that
  sound,                        \* whether the analysis accepts the file as it is
  original                      \* the text and the tree of each file before the first run

vars == <<disk, run, file, phase, program, text, back, sound, original>>

-----------------------------------------------------------------------------
(* A run of the command                                                     *)

Init ==
  /\ disk \in Commands
  /\ run = 1 /\ file = 1 /\ phase = "read"
  /\ program = <<>> /\ text = <<>> /\ back = <<>> /\ sound = FALSE
  /\ original = [f \in {} |-> <<>>]

(* A file that cannot be parsed ends the command; where the parser loops    *)
(* for ever or panics, so does the command, here and in Reparse             *)
Read ==
  LET a == Parse(disk[file])
  IN  /\ phase = "read"
      /\ phase' = CASE a.err = "" -> "print" [] a.err = "error" -> "failed" [] OTHER -> "stuck"
      /\ program' = a.tree
      /\ original' = [f \in DOMAIN original \cup {file} |->
                        IF f \in DOMAIN original THEN original[f] ELSE [text |-> disk[f], tree |-> a.tree]]
      /\ UNCHANGED <<disk, run, file, text, back, sound>>

Format ==
  /\ phase = "print" /\ phase' = "reparse"
  /\ text' = Layout(program)
  /\ sound' \in BOOLEAN
  /\ UNCHANGED <<disk, run, file, program, back, original>>

Reparse ==
  LET a == Parse(text)
  IN  /\ phase = "reparse"
      /\ phase' = CASE a.err = "" -> "compare" [] a.err = "error" -> "refused" [] OTHER -> "stuck"
      /\ back' = a.tree
      /\ UNCHANGED <<disk, run, file, program, text, sound, original>>

Compare ==
  /\ phase = "compare"
  /\ phase' = IF SameTree(program, back) THEN "validate" ELSE "refused"
  /\ UNCHANGED <<disk, run, file, program, text, back, sound, original>>

(* The analysis is a function of the tree; an import that fails counts as   *)
(* accepted                                                                 *)
Validate ==
  /\ phase = "validate"
  /\ \E accepted \in BOOLEAN :
       /\ back = program => accepted = sound
       /\ phase' = CASE sound /\ ~accepted -> "regressed"
                     [] (~sound \/ accepted) /\ text = disk[file] -> "unchanged"
                     [] OTHER -> "write"
  /\ UNCHANGED <<disk, run, file, program, text, back, sound, original>>

(* a write that succeeds; one that fails midway is left out                 *)
Write ==
  /\ phase = "write" /\ phase' = "written"
  /\ disk' = [disk EXCEPT ![file] = text]
  /\ UNCHANGED <<run, file, program, text, back, sound, original>>

(* A file that is refused is kept, and the command goes on                  *)
NextFile ==
  /\ phase \in {"refused", "regressed", "unchanged", "written"} /\ file + 1 \in DOMAIN disk
  /\ file' = file + 1 /\ phase' = "read"
  /\ program' = <<>> /\ text' = <<>> /\ back' = <<>> /\ sound' = FALSE
  /\ UNCHANGED <<disk, run, original>>

(* The command is run once more, also after it failed or was stopped        *)
Again ==
  /\ \/ phase \in {"refused", "regressed", "unchanged", "written"} /\ file + 1 \notin DOMAIN disk
     \/ phase \in {"failed", "stuck"}
  /\ run < MaxRuns /\ run' = run + 1
  /\ file' = 1 /\ phase' = "read"
  /\ program' = <<>> /\ text' = <<>> /\ back' = <<>> /\ sound' = FALSE
  /\ UNCHANGED <<disk, original>>

Next == Read \/ Format \/ Reparse \/ Compare \/ Validate \/ Write \/ NextFile \/ Again

Spec == Init /\ [][Next]_vars

-----------------------------------------------------------------------------
(* Properties, whatever the parser and the printer do                       *)

(* A file is only overwritten by a text that parses, to a tree that the     *)
(* gate takes for equal to that of the file.                                *)
OverwritesOnlyEquals ==
  [][\A f \in DOMAIN disk :
       disk'[f] # disk[f] => /\ Parse(disk'[f]).err = ""
                             /\ SameTree(Parse(disk[f]).tree, Parse(disk'[f]).tree)]_vars

(* However often the command is run, a file holds what it held before, or a *)
(* text with a tree equal to that of what it held before.                   *)
NoDrift ==
  \A f \in DOMAIN original :
    \/ disk[f] = original[f].text
    \/ Parse(disk[f]).err = "" /\ SameTree(Parse(original[f].text).tree, Parse(disk[f]).tree)
=============================================================================
