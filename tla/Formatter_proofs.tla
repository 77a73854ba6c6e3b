-------------------------- MODULE Formatter_proofs --------------------------
(* What the gate of `causm fmt` guarantees by itself, for any parser, any   *)
(* printer and any equality: the invariant of one file, and what follows of *)
(* it for the files of a command that is run again and again.               *)
EXTENDS Formatter, TLAPS

(* How far the command has come with the file: program is the tree of what  *)
(* is on the disk, back that of the new text, and they are equal once the   *)
(* gate has said so                                                         *)
Opened == phase \in {"print", "reparse", "compare", "validate", "write"}
            => file \in DOMAIN original /\ program = Parse(disk[file]).tree
Reparsed == phase \in {"compare", "validate", "write"}
              => Parse(text).err = "" /\ back = Parse(text).tree
Approved == phase \in {"validate", "write"} => SameTree(program, back)
GateInv == /\ 1 \in DOMAIN disk /\ file \in DOMAIN disk
           /\ DOMAIN original \subseteq DOMAIN disk
           /\ Opened /\ Reparsed /\ Approved

Transitive == \A a, b, c : SameTree(a, b) /\ SameTree(b, c) => SameTree(a, c)

-----------------------------------------------------------------------------

(* The gate's invariant holds at the start of the command.                  *)
LEMMA GateInit == Init => GateInv
  BY CommandsAssumption DEF Init, GateInv, Opened, Reparsed, Approved

(* Every step of the command keeps the gate's invariant.                    *)
LEMMA GateStep == GateInv /\ [Next]_vars => GateInv'
<1> SUFFICES ASSUME GateInv, [Next]_vars PROVE GateInv'
  OBVIOUS
<1> USE DEF GateInv, Opened, Reparsed, Approved
<1>1. CASE Read
  BY <1>1 DEF Read
<1>2. CASE Format
  BY <1>2 DEF Format
<1>3. CASE Reparse
  BY <1>3 DEF Reparse
<1>4. CASE Compare
  BY <1>4 DEF Compare
<1>5. CASE Validate
  <2>1. phase = "validate" /\ phase' \in {"regressed", "unchanged", "write"}
    BY <1>5 DEF Validate
  <2>2. UNCHANGED <<disk, run, file, program, text, back, sound, original>>
    BY <1>5 DEF Validate
  <2>. QED BY <2>1, <2>2
<1>6. CASE Write
  BY <1>6 DEF Write
<1>7. CASE NextFile
  BY <1>7 DEF NextFile
<1>8. CASE Again
  BY <1>8 DEF Again
<1>9. CASE UNCHANGED vars
  BY <1>9 DEF vars
<1>. QED BY <1>1, <1>2, <1>3, <1>4, <1>5, <1>6, <1>7, <1>8, <1>9 DEF Next

(* The invariant holds in every state.                                      *)
LEMMA GateHolds == Spec => []GateInv
<1>. QED BY GateInit, GateStep, PTL DEF Spec

(* A write leaves every other file as it is, and puts the text in its own.  *)
LEMMA Written == ASSUME GateInv, Write
                 PROVE  /\ disk'[file] = text
                        /\ \A f \in DOMAIN disk : f # file => disk'[f] = disk[f]
  BY DEF GateInv, Write

(* Only a write changes a file.                                             *)
LEMMA OnlyWritten == ASSUME [Next]_vars, ~Write PROVE disk' = disk
  BY DEF Next, Read, Format, Reparse, Compare, Validate, NextFile, Again, vars

(* `causm fmt` overwrites a file only by a text that parses to a tree the   *)
(* gate takes for equal (main.rs:503).                                      *)
THEOREM OnlyEquals == Spec => OverwritesOnlyEquals
<1>1. ASSUME GateInv, [Next]_vars
      PROVE  \A f \in DOMAIN disk :
               disk'[f] # disk[f] => /\ Parse(disk'[f]).err = ""
                                     /\ SameTree(Parse(disk[f]).tree, Parse(disk'[f]).tree)
  <2>1. CASE Write
    <3>1. /\ program = Parse(disk[file]).tree
          /\ Parse(text).err = "" /\ back = Parse(text).tree /\ SameTree(program, back)
      BY <1>1, <2>1 DEF GateInv, Opened, Reparsed, Approved, Write
    <3>. QED BY <1>1, <2>1, <3>1, Written
  <2>2. CASE ~Write
    BY <1>1, <2>2, OnlyWritten
  <2>. QED BY <2>1, <2>2
<1>. QED BY <1>1, GateHolds, PTL DEF Spec, OverwritesOnlyEquals

-----------------------------------------------------------------------------

(* A command that starts has read no file.                                  *)
LEMMA DriftInit == Init => NoDrift
  BY DEF Init, NoDrift

(* A file keeps its original, once it has been read.                        *)
LEMMA Remembered == ASSUME [Next]_vars
                    PROVE  \A f \in DOMAIN original : original'[f] = original[f]
  BY DEF Next, Read, Format, Reparse, Compare, Validate, Write, NextFile, Again, vars

(* A file that is read the first time holds its original.                   *)
LEMMA DriftRead == ASSUME GateInv, NoDrift, Read PROVE NoDrift'
  BY DEF GateInv, NoDrift, Read

(* A written tree equals the one before it, and so the original.            *)
LEMMA DriftWrite == ASSUME Transitive, GateInv, NoDrift, Write PROVE NoDrift'
<1>1. /\ file \in DOMAIN disk /\ file \in DOMAIN original /\ program = Parse(disk[file]).tree
      /\ Parse(text).err = "" /\ SameTree(program, Parse(text).tree)
  BY DEF GateInv, Opened, Reparsed, Approved, Write
<1>2. SameTree(Parse(original[file].text).tree, Parse(text).tree)
  <2>1. CASE disk[file] = original[file].text
    BY <1>1, <2>1
  <2>2. CASE SameTree(Parse(original[file].text).tree, Parse(disk[file]).tree)
    BY <1>1, <2>2 DEF Transitive
  <2>. QED BY <1>1, <2>1, <2>2 DEF NoDrift
<1>3. original' = original
  BY DEF Write
<1>4. ASSUME NEW f \in DOMAIN original
      PROVE  \/ disk'[f] = original[f].text
             \/ Parse(disk'[f]).err = "" /\ SameTree(Parse(original[f].text).tree, Parse(disk'[f]).tree)
  <2>1. CASE f = file
    BY <1>1, <1>2, <2>1, Written
  <2>2. CASE f # file
    <3>1. disk'[f] = disk[f]
      BY <2>2, <1>4, Written DEF GateInv
    <3>. QED BY <1>4, <3>1 DEF NoDrift
  <2>. QED BY <2>1, <2>2
<1>. QED BY <1>3, <1>4 DEF NoDrift

(* However often the command is run, and whatever it refuses, a file holds  *)
(* what it held before the first run, or a text whose tree is equal to the  *)
(* tree of that, if the equality is transitive.                             *)
THEOREM NothingDrifts == ASSUME Transitive PROVE Spec => []NoDrift
<1>1. ASSUME GateInv, NoDrift, [Next]_vars PROVE NoDrift'
  <2>1. CASE Read
    BY <1>1, <2>1, DriftRead
  <2>2. CASE Write
    BY <1>1, <2>2, DriftWrite
  <2>3. CASE ~Read /\ ~Write
    <3>1. UNCHANGED <<disk, original>>
      BY <1>1, <2>3 DEF Next, Format, Reparse, Compare, Validate, NextFile, Again, vars
    <3>. QED BY <1>1, <3>1 DEF NoDrift
  <2>. QED BY <2>1, <2>2, <2>3
<1>. QED BY <1>1, DriftInit, GateHolds, PTL DEF Spec

=============================================================================
