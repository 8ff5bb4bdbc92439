------------------------------ MODULE Sidebar ------------------------------
(***************************************************************************)
(* The workspace sidebar: mux/src/sidebar.rs and the functions of          *)
(* mux/src/lib.rs that change what it lists.                               *)
(*                                                                         *)
(* The list merges the workspaces of the configuration, those that have    *)
(* windows and those that are remembered, in the order given by the user   *)
(* and without the names that were hidden.  A rename may make two of these *)
(* names one.  Every change is saved; a restart loads what was saved, and  *)
(* starts without windows.  All of this runs in the main thread, and       *)
(* module SidebarFile says when saving and loading do what is said here.   *)
(***************************************************************************)
EXTENDS Naturals, Sequences, FiniteSets, SequencesExt

CONSTANTS
    Names,          \* names of workspaces, a sequence in alphabetical order
    Default,        \* the one that a start opens
    Configs,        \* what the user may write in the configuration
    MaxLength,      \* bound on the lengths of order and remembered
    MaxMetadata     \* bound on the workspaces that have metadata at a time

Workspaces == ToSet(Names)

ASSUME NamesAssumption ==
    /\ Names \in Seq(Workspaces) /\ IsInjective(Names)
    /\ Default \in Workspaces /\ Configs \subseteq Seq(Workspaces)
ASSUME BoundAssumption == MaxLength \in Nat /\ MaxMetadata \in Nat

VARIABLES
    configured, \* names of config.workspaces, in the order of the file
    live,       \* names of workspaces that have windows
    overrides,  \* sidebar_overrides
    metadata,   \* what workspace_metadata has for a name: nothing, unset or set
    saved       \* what the file holds

vars == <<configured, live, overrides, metadata, saved>>

NoOverrides == [order |-> <<>>, hidden |-> {}, remembered |-> <<>>]
NoMetadata == [w \in Workspaces |-> "none"]

Init ==
    /\ configured \in Configs
    /\ live = {Default}
    /\ overrides = NoOverrides
    /\ metadata = NoMetadata
    /\ saved = [overrides |-> NoOverrides, metadata |-> NoMetadata]

----------------------------------------------------------------------------
(* compute_sidebar_entries.                                                *)

\* Mutant: names are added without a look at those that are there.
AppendName(names, w) == Append(names, w)

AddName(names, w) == IF w \in ToSet(names) THEN names ELSE Append(names, w)

\* The names of s, each where it is first.
Distinct(s) ==
    LET names[n \in 0..Len(s)] == IF n = 0 THEN <<>> ELSE AddName(names[n - 1], s[n])
    IN  names[Len(s)]

\* The names of s that are in S.
Only(s, S) ==
    LET names[n \in 0..Len(s)] ==
          IF n = 0 THEN <<>>
          ELSE IF s[n] \in S THEN Append(names[n - 1], s[n]) ELSE names[n - 1]
    IN  names[Len(s)]

Live(ws) == Only(Names, ws)

\* Mutant: the order introduces names.
OrderIntroduces(names, order) ==
    Distinct(order) \o Only(names, Workspaces \ ToSet(order))

\* Names of the order come first, each once, and no name is introduced.
Ordered(names, order) ==
    Distinct(Only(order, ToSet(names)))
        \o Only(names, Workspaces \ ToSet(order))

Listed(ws, o) ==
    Only(Ordered(Distinct(configured \o Live(ws) \o o.remembered), o.order),
         Workspaces \ o.hidden)

Entries == Listed(live, overrides)

----------------------------------------------------------------------------
(* The operations.                                                         *)

\* Mutant: what is hidden is not written.
PersistAllButHidden ==
    saved' = [overrides |-> [overrides' EXCEPT !.hidden = {}],
              metadata |-> [w \in Workspaces |->
                              IF metadata'[w] = "set" THEN "set" ELSE "none"]]

\* persist_sidebar_state, of the new values; unset metadata is not written.
Persist ==
    saved' = [overrides |-> overrides',
              metadata |-> [w \in Workspaces |->
                              IF metadata'[w] = "set" THEN "set" ELSE "none"]]

\* ensure_workspace_remembered.
Remember(w) ==
    IF w \in ToSet(configured) THEN overrides.remembered
    ELSE AddName(overrides.remembered, w)

\* SwitchToWorkspace: remember_workspace; a window is opened later if it has none.
Switch(w) ==
    /\ Len(Remember(w)) <= MaxLength
    /\ overrides' = [overrides EXCEPT !.remembered = Remember(w)]
    /\ UNCHANGED <<configured, live, metadata>>
    /\ IF overrides' # overrides THEN Persist ELSE UNCHANGED saved

\* A workspace gets its first window, or loses its last one.
WindowOpens(w) == live' = live \cup {w} /\ UNCHANGED <<configured, overrides, metadata, saved>>
WindowsClose(w) == live' = live \ {w} /\ UNCHANGED <<configured, overrides, metadata, saved>>

\* Mutant: the old name is taken out and the new one added at the end.
RenamedLast(names, old, new) ==
    IF old \in ToSet(names) THEN Append(Only(names, Workspaces \ {old}), new) ELSE names

Renamed(names, old, new) == [i \in DOMAIN names |-> IF names[i] = old THEN new ELSE names[i]]

\* SidebarOverrides::rename.
OverridesAfter(old, new) ==
    [order |-> Renamed(overrides.order, old, new),
     hidden |-> IF old \in overrides.hidden THEN (overrides.hidden \ {old}) \cup {new}
                ELSE overrides.hidden,
     remembered |-> Renamed(overrides.remembered, old, new)]

LiveAfter(old, new) == IF old \in live THEN (live \ {old}) \cup {new} ELSE live

\* rename_workspace; the command line and Lua may name any workspace.
Rename(old, new) ==
    /\ old # new
    /\ live' = LiveAfter(old, new)
    /\ metadata' = IF metadata[old] = "none" THEN metadata
                   ELSE [metadata EXCEPT ![old] = "none", ![new] = metadata[old]]
    /\ overrides' = OverridesAfter(old, new)
    /\ UNCHANGED configured
    /\ Persist

\* The menu of an entry sets its metadata, hides it or moves it.  The name it was
\* opened for may no longer be listed.
SetMetadata(w) ==
    /\ Len(Remember(w)) <= MaxLength
    /\ \E m \in {"unset", "set"} : metadata' = [metadata EXCEPT ![w] = m]
    /\ Cardinality({v \in Workspaces : metadata'[v] # "none"}) <= MaxMetadata
    /\ overrides' = [overrides EXCEPT !.remembered = Remember(w)]
    /\ UNCHANGED <<configured, live>>
    /\ Persist

Hide(w) ==
    /\ overrides' = [overrides EXCEPT !.hidden = @ \cup {w}]
    /\ UNCHANGED <<configured, live, metadata>>
    /\ Persist

\* Mutant: the names that the order lacks go to its front.
MissingFirst(order) ==
    Only(Entries, Workspaces \ ToSet(order)) \o order

\* move_in_order starts from the order that is displayed.
Materialized(order) ==
    order \o Only(Entries, Workspaces \ ToSet(order))

\* Mutant: going up, the place is not corrected for the one that was taken out.
ShiftedUncorrected(order, w, up) ==
    IF w \notin ToSet(order) THEN order
    ELSE LET i == CHOOSE i \in DOMAIN order :
                    order[i] = w /\ \A j \in 1..(i - 1) : order[j] # w
             rest == RemoveAt(order, i)
         IN  InsertAt(rest, IF up \/ i > Len(rest) THEN i ELSE i + 1, w)

\* The first occurrence of a name is taken out and put back next to its place.
Shifted(order, w, up) ==
    IF w \notin ToSet(order) THEN order
    ELSE LET i == CHOOSE i \in DOMAIN order :
                    order[i] = w /\ \A j \in 1..(i - 1) : order[j] # w
             rest == RemoveAt(order, i)
             k == IF up THEN (IF i > 1 THEN i - 1 ELSE 1)
                  ELSE (IF i > Len(rest) THEN i ELSE i + 1)
         IN  InsertAt(rest, k, w)

\* move_workspace_in_sidebar.
Moved(w, up) ==
    [overrides EXCEPT !.order = Shifted(Materialized(overrides.order), w, up)]

Move(w, up) ==
    /\ overrides' = Moved(w, up)
    /\ Len(overrides'.order) <= MaxLength
    /\ UNCHANGED <<configured, live, metadata>>
    /\ Persist

\* The configuration is edited and reloaded.
Reload ==
    /\ configured' \in Configs
    /\ UNCHANGED <<live, overrides, metadata, saved>>

\* The process ends; the next one loads the file and opens its first window.
Restart ==
    /\ overrides' = saved.overrides
    /\ metadata' = saved.metadata
    /\ live' = {Default}
    /\ UNCHANGED <<configured, saved>>

Next ==
    \/ \E w \in Workspaces : Switch(w)
    \/ \E w \in Workspaces : WindowOpens(w)
    \/ \E w \in Workspaces : WindowsClose(w)
    \/ \E old, new \in Workspaces : Rename(old, new)
    \/ \E w \in Workspaces : SetMetadata(w)
    \/ \E w \in Workspaces : Hide(w)
    \/ \E w \in Workspaces, up \in BOOLEAN : Move(w, up)
    \/ Reload
    \/ Restart

Spec == Init /\ [][Next]_vars

----------------------------------------------------------------------------
(* Properties.                                                             *)

NamesSeq == UNION {[1..n -> Workspaces] : n \in 0..MaxLength}
OverridesType == [order : NamesSeq, hidden : SUBSET Workspaces, remembered : NamesSeq]

\* Lists are of names and within their bound, and no unset metadata is in the file.
TypeOK ==
    /\ configured \in Configs
    /\ live \subseteq Workspaces
    /\ overrides \in OverridesType
    /\ metadata \in [Workspaces -> {"none", "unset", "set"}]
    /\ saved \in [overrides : OverridesType, metadata : [Workspaces -> {"none", "set"}]]

\* No workspace is listed twice, although renames make the order and the list of
\* remembered names repeat themselves, and three lists are merged.  Checked together with TypeOK.
ListedOnce == TypeOK /\ IsInjective(Entries)

\* What a restart would take off the list is there only because it has windows,
\* what is hidden would not come back, and the defaults that are set would still
\* be: "so they survive restart" (sidebar_persist.rs).
RestartKeepsList ==
    /\ ToSet(Listed({Default}, saved.overrides)) =
         {w \in ToSet(Entries) : w \in ToSet(configured) \cup ToSet(overrides.remembered)}
           \cup ({Default} \ overrides.hidden)
    /\ \A w \in Workspaces : saved.metadata[w] = "set" <=> metadata[w] = "set"

\* A move changes the place of one entry: the others keep their order, also the
\* first time, when the order is taken from the display, and when the order has
\* names that are not displayed, or has one twice.
MoveKeepsOthers ==
    LET before == Entries IN
    \A w \in Workspaces, up \in BOOLEAN :
        LET after == Listed(live, Moved(w, up))
            others(list) == Only(list, Workspaces \ {w})
        IN  others(after) = others(before) /\ ToSet(after) = ToSet(before)

\* "Move up / Move down (reorders the sidebar list)" (README.md): an entry that is
\* moved up changes places with the one above it.  This takes an order that has
\* only names that are displayed, each once; else the entry may change places with
\* a name that is not displayed, or with its own repetition, and stay where it is.
MoveGoesUp ==
    LET list == Entries IN
    IsInjective(overrides.order) /\ ToSet(overrides.order) \subseteq ToSet(list) =>
        \A i \in 2..Len(list) :
            Listed(live, Moved(list[i], TRUE))
              = [list EXCEPT ![i - 1] = list[i], ![i] = list[i - 1]]

\* Names that nothing knows of.
Unknown == Workspaces \ (ToSet(configured) \cup live \cup overrides.hidden
                             \cup ToSet(overrides.order) \cup ToSet(overrides.remembered))

\* "Keep order / hidden / remembered in sync when a workspace is renamed": a
\* workspace that has a place in the order keeps it under a name that is new.  It is
\* not so for an entry of the configuration, which stays under the old name, nor for
\* a name that was hidden before, which stays hidden.
RenameKeepsPlace ==
    \A old \in ToSet(overrides.order) \ ToSet(configured), new \in Unknown :
        Listed(LiveAfter(old, new), OverridesAfter(old, new)) = Renamed(Entries, old, new)

=============================================================================
