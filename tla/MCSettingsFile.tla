--------------------------- MODULE MCSettingsFile ---------------------------
(* Small instances of SettingsFile for TLC. *)
EXTENDS SettingsFile, TLC

CONSTANTS p1, p2, file, shortcut, group, leaf

MCProcess == {p1, p2}

\* One key is a group that holds the other.
MCUnder == group :> {group, leaf} @@ leaf :> {leaf}

\* The file has every key.
MCAtFirst == [Key -> Value]

\* One file with one name.
MCPathOf == [p \in Process |-> file]
MCLinkOf == [f \in Path |-> f]

\* One file that the second process knows by a symbolic link.
MCTwoNames == [p \in Process |-> IF p = p1 THEN file ELSE shortcut]
MCShortcut == [f \in Path |-> file]
=============================================================================
