------------------------------- MODULE TextFile -------------------------------
(***************************************************************************)
(* A file as the processes of a machine share it when they read it whole   *)
(* and replace it with fs.writeFile: policy.json and identity.json of      *)
(* apps/cli.  writeFile opens the file, which empties it, and puts the     *)
(* text at its start in a later step; nothing locks the file.              *)
(*                                                                         *)
(* A file is torn when it holds no JSON document: it is empty, or the rest *)
(* of a longer text follows the last one.  blank stands for no text.       *)
(***************************************************************************)
EXTENDS Naturals

CONSTANTS Process,      \* processes of the operating system, each one command
          None          \* undefined

File(Text, sizes) == [state : {"absent", "torn", "whole"}, text : Text, size : sizes]

Absent(blank) == [state |-> "absent", text |-> blank, size |-> 0]

Torn(blank, size) == [state |-> "torn", text |-> blank, size |-> size]

Whole(text, size) == [state |-> "whole", text |-> text, size |-> size]

Emptied(blank) == Torn(blank, 0)

(* The text is written over what another writer has put there. *)
Overwritten(file, text, size, blank) ==
    IF file.size > size THEN Torn(blank, file.size) ELSE Whole(text, size)

=============================================================================
