----------------------------- MODULE SidebarFile -----------------------------
(***************************************************************************)
(* How the sidebar is kept across restarts: mux/src/sidebar_persist.rs.    *)
(*                                                                         *)
(* A process loads the file when it starts, and after every change writes  *)
(* the whole of what it has in memory to a temporary file, which it then   *)
(* renames over the old one.  Every process that has a mux does so, the    *)
(* GUI and the mux server alike, and all use the same two names.           *)
(*                                                                         *)
(* A name stands for a node, which outlives it for as long as a process    *)
(* has it open.  What is kept is abstracted to the set of changes made.    *)
(***************************************************************************)
EXTENDS Naturals, FiniteSets

CONSTANTS
    Processes,
    Changes,        \* what users change in the sidebar, once each
    Nodes,          \* nodes of the file system, enough to never run out
    NoNode,         \* for a name without a node
    Torn            \* in what does not parse

ASSUME NodesAssumption == IsFiniteSet(Processes) /\ Cardinality(Nodes) > Cardinality(Processes) + 1

ASSUME NoneAssumption == NoNode \notin Nodes /\ Torn \notin Changes

Garbage == {Torn}

VARIABLES
    replaces,   \* FALSE: on this platform rename may fail when the target exists
    file,       \* the node of sidebar-workspaces.json
    tmp,        \* the node of sidebar-workspaces.json.tmp
    content,    \* of each node
    memory,     \* the changes each process knows of
    open,       \* the node each process is writing
    pc,         \* how far it is in atomic_write
    acknowledged    \* the changes whose save returned Ok

fileVars == <<replaces, file, tmp, content, memory, open, pc, acknowledged>>

FileInit ==
    /\ replaces \in BOOLEAN
    /\ file = NoNode /\ tmp = NoNode
    /\ content = [n \in Nodes |-> {}]
    /\ memory = [p \in Processes |-> {}]
    /\ open = [p \in Processes |-> NoNode]
    /\ pc = [p \in Processes |-> "down"]
    /\ acknowledged = {}

Readable == file # NoNode /\ content[file] # Garbage

----------------------------------------------------------------------------

\* load_default: no file, or one that cannot be read, is an empty state.
Start(p) ==
    /\ pc[p] = "down"
    /\ memory' = [memory EXCEPT ![p] = IF Readable THEN content[file] ELSE {}]
    /\ pc' = [pc EXCEPT ![p] = "idle"]
    /\ UNCHANGED <<replaces, file, tmp, content, open, acknowledged>>

\* The process ends or is killed, wherever it is.
Crash(p) ==
    /\ pc[p] # "down"
    /\ pc' = [pc EXCEPT ![p] = "down"]
    /\ open' = [open EXCEPT ![p] = NoNode]
    /\ UNCHANGED <<replaces, file, tmp, content, memory, acknowledged>>

\* The state changes and is to be saved.
Change(p, c) ==
    /\ pc[p] = "idle"
    /\ c \notin (UNION {memory[q] : q \in Processes}) \cup acknowledged
    /\ memory' = [memory EXCEPT ![p] = @ \cup {c}]
    /\ pc' = [pc EXCEPT ![p] = "save"]
    /\ UNCHANGED <<replaces, file, tmp, content, open, acknowledged>>

\* Mutant: the file is written in place.
WriteInPlace(p) ==
    /\ pc[p] = "save"
    /\ \E n \in Nodes :
        /\ IF file # NoNode THEN n = file
           ELSE n \notin {file, tmp} \cup {open[q] : q \in Processes}
        /\ file' = n
        /\ content' = [content EXCEPT ![n] = Garbage]
        /\ open' = [open EXCEPT ![p] = n]
    /\ pc' = [pc EXCEPT ![p] = "write"]
    /\ UNCHANGED <<replaces, tmp, memory, acknowledged>>

\* fs::write opens and truncates the temporary file...
OpenTmp(p) ==
    /\ pc[p] = "save"
    /\ \E n \in Nodes :
        /\ IF tmp # NoNode THEN n = tmp
           ELSE n \notin {file, tmp} \cup {open[q] : q \in Processes}
        /\ tmp' = n
        /\ content' = [content EXCEPT ![n] = Garbage]
        /\ open' = [open EXCEPT ![p] = n]
    /\ pc' = [pc EXCEPT ![p] = "write"]
    /\ UNCHANGED <<replaces, file, memory, acknowledged>>

\* ... and writes it.  Over what another process wrote meanwhile, the end of a
\* longer text stays.
WriteTmp(p) ==
    /\ pc[p] = "write"
    /\ \E text \in {memory[p]} \cup
                   (IF content[open[p]] \in {Garbage, memory[p]} THEN {} ELSE {Garbage}) :
        content' = [content EXCEPT ![open[p]] = text]
    /\ open' = [open EXCEPT ![p] = NoNode]
    /\ pc' = [pc EXCEPT ![p] = "rename"]
    /\ UNCHANGED <<replaces, file, tmp, memory, acknowledged>>

\* The temporary file takes the place of the old one.
TakesPlace(p) ==
    /\ tmp # NoNode
    /\ file' = tmp /\ tmp' = NoNode
    /\ acknowledged' = acknowledged \cup memory[p]
    /\ pc' = [pc EXCEPT ![p] = "idle"]
    /\ UNCHANGED <<replaces, content, memory, open>>

\* Mutant: the old file is removed first, as if it were always in the way.
RemoveBeforeRename(p) ==
    /\ pc[p] = "rename"
    /\ file' = NoNode
    /\ pc' = [pc EXCEPT ![p] = "retry"]
    /\ UNCHANGED <<replaces, tmp, content, memory, open, acknowledged>>

RenameTmp(p) == pc[p] = "rename" /\ TakesPlace(p)

\* It may fail for the old file, and does when the temporary file has gone.
RenameFails(p) ==
    /\ pc[p] = "rename"
    /\ tmp = NoNode \/ (~replaces /\ file # NoNode)
    /\ pc' = [pc EXCEPT ![p] = "remove"]
    /\ UNCHANGED <<replaces, file, tmp, content, memory, open, acknowledged>>

\* Whether the old file could be removed is not looked at.
RemoveFile(p) ==
    /\ pc[p] = "remove"
    /\ file' \in {file, NoNode}
    /\ pc' = [pc EXCEPT ![p] = "retry"]
    /\ UNCHANGED <<replaces, tmp, content, memory, open, acknowledged>>

RenameAgain(p) == pc[p] = "retry" /\ TakesPlace(p)

\* The error is logged; the temporary file is removed if it is there.
GiveUp(p) ==
    /\ pc[p] = "retry"
    /\ tmp = NoNode \/ (~replaces /\ file # NoNode)
    /\ tmp' = NoNode
    /\ pc' = [pc EXCEPT ![p] = "idle"]
    /\ UNCHANGED <<replaces, file, content, memory, open, acknowledged>>

FileNext == \E p \in Processes :
    \/ Start(p)
    \/ Crash(p)
    \/ \E c \in Changes : Change(p, c)
    \/ OpenTmp(p)
    \/ WriteTmp(p)
    \/ RenameTmp(p)
    \/ RenameFails(p)
    \/ RemoveFile(p)
    \/ RenameAgain(p)
    \/ GiveUp(p)

FileSpec == FileInit /\ [][FileNext]_fileVars

----------------------------------------------------------------------------
(* Properties.                                                             *)

\* A process has the temporary file open exactly while it writes it.
FileTypeOK ==
    /\ replaces \in BOOLEAN
    /\ file \in Nodes \cup {NoNode} /\ tmp \in Nodes \cup {NoNode}
    /\ content \in [Nodes -> (SUBSET Changes) \cup {Garbage}]
    /\ memory \in [Processes -> SUBSET Changes]
    /\ open \in [Processes -> Nodes \cup {NoNode}]
    /\ \A p \in Processes : open[p] # NoNode <=> pc[p] = "write"
    /\ pc \in [Processes -> {"down", "idle", "save", "write", "rename", "remove", "retry"}]
    /\ acknowledged \subseteq Changes

\* "atomic_write": whoever reads the file at any moment, and after any crash,
\* finds a whole one.  With two processes it is not so: one may rename the
\* temporary file while the other is writing it.
FileWhole == file = NoNode \/ Readable

\* "Changes made through the menu [...] are persisted" (README.md): a change
\* whose save went well is in the file, whatever crashes later, where rename
\* replaces its target.  With two processes one may save what it loaded before.
SavedStaysSaved == replaces /\ acknowledged # {} => Readable /\ acknowledged \subseteq content[file]

=============================================================================
