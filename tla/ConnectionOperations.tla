------------------------- MODULE ConnectionOperations -------------------------
(***************************************************************************)
(* The registry of connection operations                                   *)
(* (services/connection_operations.rs).  A client outside the window (the  *)
(* command line, an agent) opens a saved connection through an operation:  *)
(* it gets an operation id at once and waits for the operation to become   *)
(* Connected or Failed.  Concurrent requests for one profile join one      *)
(* operation.                                                              *)
(*                                                                         *)
(* The registry is a value changed under one write lock, so every method   *)
(* is an operator from registry to registry; SessionTabs applies them at   *)
(* the points of the session code that call them.  Ids are uuids, drawn    *)
(* here from the unused members of Ops.                                    *)
(***************************************************************************)
EXTENDS Naturals, FiniteSets

CONSTANTS
    Ops,            \* operation ids
    Profiles,       \* saved connections
    Tabs,           \* tab ids
    None

OpStates == {"unused", "pending", "connecting", "connected", "failed", "pruned"}

InFlight == {"pending", "connecting"}
IsTerminal(s) == s \in {"connected", "failed"}

(***************************************************************************)
(* RegistryState: records, tab_to_operation and profile_to_operation.  A   *)
(* record is in the map unless it is "unused" or "pruned"; old holds the   *)
(* finished records whose last change is OPERATION_RETENTION ago.          *)
(***************************************************************************)
RegistryType ==
    [state : [Ops -> OpStates], profile : [Ops -> Profiles \cup {None}],
     tab : [Ops -> Tabs \cup {None}], old : SUBSET Ops,
     tabOp : [Tabs -> Ops \cup {None}], profOp : [Profiles -> Ops \cup {None}]]

EmptyRegistry ==
    [state |-> [o \in Ops |-> "unused"], profile |-> [o \in Ops |-> None],
     tab |-> [o \in Ops |-> None], old |-> {},
     tabOp |-> [t \in Tabs |-> None], profOp |-> [p \in Profiles |-> None]]

Recorded(r, o) == o # None /\ r.state[o] \notin {"unused", "pruned"}

\* profile_to_operation loses the entry only if it still names o.
DropProfile(r, o) ==
    [r EXCEPT !.profOp = [p \in Profiles |-> IF @[p] = o THEN None ELSE @[p]]]

\* prune_expired, the first thing every method does under the lock.
PruneExpired(r) ==
    [r EXCEPT
        !.state  = [o \in Ops |-> IF o \in r.old THEN "pruned" ELSE @[o]],
        !.old    = {},
        !.profOp = [p \in Profiles |-> IF @[p] \in r.old THEN None ELSE @[p]],
        !.tabOp  = [t \in Tabs |-> IF @[t] \in r.old /\ r.tab[@[t]] = t
                                   THEN None ELSE @[t]]]

\* Time passes: a finished record reaches its retention.
Age(r, o) == [r EXCEPT !.old = @ \cup {o}]

CanReuse(r, o) == Recorded(r, o) /\ r.state[o] # "failed"

InsertNewOperation(r, p, o) ==
    [r EXCEPT !.state[o] = "pending", !.profile[o] = p]

\* Mistaken variant: a request joins only a connection that is up.
JoinedConnected(r, p) ==
    LET o == PruneExpired(r).profOp[p]
    IN  IF o # None /\ PruneExpired(r).state[o] = "connected" THEN o ELSE None

\* begin_or_join: the operation a request for p gets.
Joined(r, p) ==
    LET o == PruneExpired(r).profOp[p]
    IN  IF o # None /\ CanReuse(PruneExpired(r), o) THEN o ELSE None

BeginOrJoin(r, p, fresh) ==
    IF Joined(r, p) # None THEN PruneExpired(r)
    ELSE [InsertNewOperation(PruneExpired(r), p, fresh) EXCEPT !.profOp[p] = fresh]

\* attach_tab: the request's tab exists and its worker is about to start.
CanAttach(r, o) == Recorded(PruneExpired(r), o)
AttachTab(r, o, t) ==
    [PruneExpired(r) EXCEPT !.tab[o] = t, !.state[o] = "connecting",
                            !.old = @ \ {o}, !.tabOp[t] = o]

\* A record that has not finished takes the next state; Failed frees the
\* profile for a new operation.
Settle(r, o, next) ==
    LET s == [r EXCEPT !.state[o] = next]
    IN  IF next = "failed" THEN DropProfile(s, o) ELSE s

\* publish_for_tab: a finished operation keeps its result.
PublishForTab(r, t, next) ==
    LET s == PruneExpired(r)
        o == s.tabOp[t]
    IN  IF o = None THEN s
        ELSE IF ~Recorded(s, o) THEN [s EXCEPT !.tabOp[t] = None]
        ELSE IF IsTerminal(s.state[o]) THEN s
        ELSE Settle(s, o, next)

\* fail_for_operation: opening failed before there was a tab.
FailForOperation(r, o) ==
    LET s == PruneExpired(r)
    IN  IF ~Recorded(s, o) \/ IsTerminal(s.state[o]) THEN s
        ELSE Settle(s, o, "failed")

\* Mistaken variant: the stop only removes the mapping.
ForgetTabOnly(r, t) == [PruneExpired(r) EXCEPT !.tabOp[t] = None]

\* forget_tab: the user's stop of a tab ends its operation's hold on it.
ForgetTab(r, t) ==
    LET s == PruneExpired(r)
        o == s.tabOp[t]
        u == [s EXCEPT !.tabOp[t] = None]
    IN  IF o = None \/ ~Recorded(s, o) THEN u
        ELSE DropProfile(IF IsTerminal(s.state[o]) THEN u
                         ELSE [u EXCEPT !.state[o] = "failed"], o)

===============================================================================
