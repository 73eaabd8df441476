--------------------------- MODULE SessionTabsProofs ---------------------------
(***************************************************************************)
(* Proofs about the registry of connection operations and the commands     *)
(* that use it, and about the reconnections a tab sets out for by itself.  *)
(***************************************************************************)
EXTENDS SessionTabs, TLAPS

\* The one thing asked of the constants: "none" is no operation and no profile.
NoneIsNone == None \notin Ops /\ None \notin Profiles

(***************************************************************************)
(* The registry, whatever calls it.  Each method is given the facts it     *)
(* needs of the registry and the operation, and returns a sound registry.  *)
(***************************************************************************)

\* What is in flight is the operation of its profile.
FlightsOwned(r) ==
    \A o \in Ops : r.state[o] \in InFlight =>
        r.profile[o] \in Profiles /\ r.profOp[r.profile[o]] = o

\* What a profile names is in flight or connected, and is of this profile.
OwnersServe(r) ==
    \A p \in Profiles : r.profOp[p] # None =>
        r.state[r.profOp[p]] \in InFlight \cup {"connected"} /\ r.profile[r.profOp[p]] = p

\* Only finished records grow old, and only begun ones have a tab.
OldFinished(r) == \A o \in r.old : IsTerminal(r.state[o])
TabsBegun(r) == \A t \in Tabs : r.tabOp[t] # None => r.state[r.tabOp[t]] # "unused"

Sound(r) ==
    r \in RegistryType /\ FlightsOwned(r) /\ OwnersServe(r) /\ OldFinished(r) /\ TabsBegun(r)

\* Operations that r has not given to a tab stay with their caller.
Untouched(r, s, o) ==
    /\ r.state[o] = "pending" => s.state[o] = "pending"
    /\ (\A t \in Tabs : r.tabOp[t] # o) => \A t \in Tabs : s.tabOp[t] # o

LEMMA EmptySound == NoneIsNone => Sound(EmptyRegistry)
BY DEF NoneIsNone, Sound, RegistryType, EmptyRegistry, FlightsOwned, OwnersServe, OldFinished,
       TabsBegun, OpStates, InFlight

LEMMA PruneSound ==
    ASSUME NoneIsNone, NEW r, Sound(r)
    PROVE  /\ Sound(PruneExpired(r)) /\ PruneExpired(r).old = {}
           /\ \A o \in Ops : Untouched(r, PruneExpired(r), o)
           /\ \A o \in Ops : r.state[o] \in InFlight \cup {"unused"} => PruneExpired(r).state[o] = r.state[o]
<1> DEFINE s == PruneExpired(r)
<1> USE DEF NoneIsNone
<1>1. r \in RegistryType
  BY DEF Sound
<1>2. /\ s.state = [o \in Ops |-> IF o \in r.old THEN "pruned" ELSE r.state[o]]
      /\ s.old = {} /\ s.profile = r.profile /\ s.tab = r.tab
      /\ s.profOp = [p \in Profiles |-> IF r.profOp[p] \in r.old THEN None ELSE r.profOp[p]]
      /\ s.tabOp = [t \in Tabs |-> IF r.tabOp[t] \in r.old /\ r.tab[r.tabOp[t]] = t
                                   THEN None ELSE r.tabOp[t]]
  BY <1>1 DEF PruneExpired, RegistryType
<1>3. s = [r EXCEPT !.state = s.state, !.old = s.old, !.profOp = s.profOp, !.tabOp = s.tabOp]
  BY <1>1, <1>2 DEF PruneExpired, RegistryType
<1>4. s \in RegistryType
  <2>1. s.state \in [Ops -> OpStates] /\ s.old \in SUBSET Ops
        /\ s.profOp \in [Profiles -> Ops \cup {None}] /\ s.tabOp \in [Tabs -> Ops \cup {None}]
    BY <1>1, <1>2 DEF RegistryType, OpStates
  <2> QED
    BY <1>1, <1>3, <2>1 DEF RegistryType
<1> HIDE DEF s
<1>5. \A o \in r.old : r.state[o] \notin InFlight /\ r.state[o] # "unused"
  BY DEF Sound, OldFinished, IsTerminal, InFlight
<1>6. FlightsOwned(s)
  BY <1>1, <1>2, <1>5 DEF Sound, FlightsOwned, InFlight, RegistryType
<1>7. OwnersServe(s)
  BY <1>1, <1>2 DEF Sound, OwnersServe, RegistryType
<1>8. OldFinished(s) /\ TabsBegun(s)
  BY <1>1, <1>2 DEF Sound, OldFinished, TabsBegun, RegistryType
<1>9. \A o \in Ops : Untouched(r, s, o)
  BY <1>1, <1>2, <1>5 DEF Untouched, InFlight
<1>10. \A o \in Ops : r.state[o] \in InFlight \cup {"unused"} => s.state[o] = r.state[o]
  BY <1>2, <1>5
<1> QED
  BY <1>2, <1>4, <1>6, <1>7, <1>8, <1>9, <1>10 DEF Sound, s

\* A request begins its operation only when its profile has none that serves.
LEMMA BeginSound ==
    ASSUME NoneIsNone, NEW r, Sound(r), NEW p \in Profiles, NEW o \in Ops, r.state[o] = "unused"
    PROVE  /\ Sound(BeginOrJoin(r, p, o))
           /\ \A q \in Ops : Untouched(r, BeginOrJoin(r, p, o), q)
           /\ Joined(r, p) = None => /\ BeginOrJoin(r, p, o).state[o] = "pending"
                                     /\ \A t \in Tabs : BeginOrJoin(r, p, o).tabOp[t] # o
<1> DEFINE s == PruneExpired(r)
<1> DEFINE u == [InsertNewOperation(s, p, o) EXCEPT !.profOp[p] = o]
<1> USE DEF NoneIsNone
<1>1. Sound(s) /\ s.old = {} /\ s.state[o] = "unused" /\ \A q \in Ops : Untouched(r, s, q)
  BY PruneSound
<1>2. CASE Joined(r, p) # None
  BY <1>1, <1>2 DEF BeginOrJoin
<1>3. CASE Joined(r, p) = None
  <2>1. BeginOrJoin(r, p, o) = u
    BY <1>3 DEF BeginOrJoin
  <2> HIDE DEF s
  <2>2. s \in RegistryType
    BY <1>1 DEF Sound
  <2>3. s.profOp[p] = None
    <3>1. s.profOp[p] # None => CanReuse(s, s.profOp[p])
      BY <1>1, <2>2 DEF Sound, OwnersServe, CanReuse, Recorded, InFlight
    <3> QED
      BY <1>3, <3>1 DEF Joined, s
  <2>4. /\ u.state = [s.state EXCEPT ![o] = "pending"] /\ u.profile = [s.profile EXCEPT ![o] = p]
        /\ u.profOp = [s.profOp EXCEPT ![p] = o]
        /\ u.tab = s.tab /\ u.old = s.old /\ u.tabOp = s.tabOp
    BY <2>2 DEF InsertNewOperation, RegistryType
  <2>5. u \in RegistryType
    BY <2>2 DEF InsertNewOperation, RegistryType, OpStates
  <2> HIDE DEF u
  <2>6. FlightsOwned(u)
    BY <1>1, <2>2, <2>3, <2>4 DEF Sound, FlightsOwned, InFlight, RegistryType
  <2>7. OwnersServe(u)
    BY <1>1, <2>2, <2>4 DEF Sound, OwnersServe, InFlight, RegistryType
  <2>8. OldFinished(u) /\ TabsBegun(u)
    BY <1>1, <2>2, <2>4 DEF Sound, OldFinished, TabsBegun, RegistryType
  <2>9. u.state[o] = "pending" /\ \A t \in Tabs : u.tabOp[t] # o
    BY <1>1, <2>2, <2>4 DEF Sound, TabsBegun, RegistryType
  <2>10. \A q \in Ops : Untouched(r, u, q)
    BY <1>1, <2>2, <2>4 DEF Untouched, RegistryType
  <2> QED
    BY <2>1, <2>5, <2>6, <2>7, <2>8, <2>9, <2>10 DEF Sound
<1> QED
  BY <1>2, <1>3

LEMMA AttachSound ==
    ASSUME NoneIsNone, NEW r, Sound(r), NEW o \in Ops, NEW t \in Tabs, r.state[o] = "pending"
    PROVE  /\ Sound(AttachTab(r, o, t)) /\ CanAttach(r, o)
           /\ \A q \in Ops : q # o => Untouched(r, AttachTab(r, o, t), q)
<1> DEFINE s == PruneExpired(r)
<1> DEFINE u == AttachTab(r, o, t)
<1> USE DEF NoneIsNone
<1>1. Sound(s) /\ s.old = {} /\ s.state[o] = "pending" /\ \A q \in Ops : Untouched(r, s, q)
  BY PruneSound DEF InFlight
<1>2. s \in RegistryType
  BY <1>1 DEF Sound
<1>3. /\ u.state = [s.state EXCEPT ![o] = "connecting"] /\ u.profile = s.profile
      /\ u.profOp = s.profOp /\ u.old = s.old \ {o} /\ u.tabOp = [s.tabOp EXCEPT ![t] = o]
  BY <1>2 DEF AttachTab, RegistryType
<1>4. u \in RegistryType
  BY <1>2 DEF AttachTab, RegistryType, OpStates
<1>5. CanAttach(r, o)
  BY <1>1 DEF CanAttach, Recorded
<1> HIDE DEF s, u
<1>6. FlightsOwned(u)
  BY <1>1, <1>2, <1>3 DEF Sound, FlightsOwned, InFlight, RegistryType
<1>7. OwnersServe(u)
  BY <1>1, <1>2, <1>3 DEF Sound, OwnersServe, InFlight, RegistryType
<1>8. OldFinished(u) /\ TabsBegun(u)
  BY <1>1, <1>2, <1>3 DEF Sound, OldFinished, TabsBegun, RegistryType
<1>9. \A q \in Ops : q # o => Untouched(r, u, q)
  BY <1>1, <1>2, <1>3 DEF Untouched, RegistryType
<1> QED
  BY <1>4, <1>5, <1>6, <1>7, <1>8, <1>9 DEF Sound, u

\* An operation that ends: connected keeps its profile, failed frees it.
LEMMA SettleSound ==
    ASSUME NoneIsNone, NEW s, Sound(s), s.old = {}, NEW o \in Ops, s.state[o] \in InFlight,
           NEW next \in {"connected", "failed"}
    PROVE  /\ Sound(Settle(s, o, next)) /\ Settle(s, o, next).tabOp = s.tabOp
           /\ \A q \in Ops : q # o => Settle(s, o, next).state[q] = s.state[q]
<1> DEFINE u == Settle(s, o, next)
<1> USE DEF NoneIsNone
<1>1. s \in RegistryType
  BY DEF Sound
<1>2. /\ u.state = [s.state EXCEPT ![o] = next] /\ u.profile = s.profile
      /\ u.old = s.old /\ u.tabOp = s.tabOp /\ u.tab = s.tab
      /\ u.profOp = IF next = "failed"
                    THEN [p \in Profiles |-> IF s.profOp[p] = o THEN None ELSE s.profOp[p]]
                    ELSE s.profOp
  BY <1>1 DEF Settle, DropProfile, RegistryType
<1>3. u \in RegistryType
  <2>1. [s EXCEPT !.state[o] = next] \in RegistryType
    BY <1>1 DEF RegistryType, OpStates
  <2>2. u.profOp \in [Profiles -> Ops \cup {None}]
    BY <1>1, <1>2 DEF RegistryType
  <2> QED
    BY <1>1, <2>1, <2>2 DEF Settle, DropProfile, RegistryType
<1> HIDE DEF u
<1>4. FlightsOwned(u)
  BY <1>1, <1>2 DEF Sound, FlightsOwned, InFlight, RegistryType
<1>5. OwnersServe(u)
  BY <1>1, <1>2 DEF Sound, OwnersServe, InFlight, RegistryType
<1>6. OldFinished(u) /\ TabsBegun(u)
  BY <1>1, <1>2 DEF Sound, OldFinished, TabsBegun, RegistryType
<1> QED
  BY <1>1, <1>2, <1>3, <1>4, <1>5, <1>6 DEF Sound, u, RegistryType

\* A status told for a tab ends the operation of this tab, at most.
LEMMA PublishSound ==
    ASSUME NoneIsNone, NEW r, Sound(r), NEW t \in Tabs, NEW next \in {"connected", "failed"}
    PROVE  /\ Sound(PublishForTab(r, t, next))
           /\ \A q \in Ops : r.tabOp[t] # q => Untouched(r, PublishForTab(r, t, next), q)
<1> DEFINE s == PruneExpired(r)
<1> DEFINE o == s.tabOp[t]
<1> DEFINE v == PublishForTab(r, t, next)
<1> USE DEF NoneIsNone
<1>1. Sound(s) /\ s.old = {} /\ \A q \in Ops : Untouched(r, s, q)
  BY PruneSound
<1>2. s \in RegistryType
  BY <1>1 DEF Sound
<1>3. o = None \/ o = r.tabOp[t]
  <2>1. r \in RegistryType
    BY DEF Sound
  <2> QED
    BY <2>1 DEF PruneExpired, RegistryType
<1>4. CASE o = None
  BY <1>1, <1>4 DEF PublishForTab
<1>5. CASE o # None /\ ~Recorded(s, o)
  <2> DEFINE u == [s EXCEPT !.tabOp[t] = None]
  <2>1. v = u
    BY <1>5 DEF PublishForTab
  <2>2. /\ u.state = s.state /\ u.profile = s.profile /\ u.old = s.old
        /\ u.tabOp = [s.tabOp EXCEPT ![t] = None] /\ u.profOp = s.profOp
    BY <1>2 DEF RegistryType
  <2>3. u \in RegistryType
    BY <1>2 DEF RegistryType
  <2> HIDE DEF u, v, s
  <2>4. FlightsOwned(u) /\ OwnersServe(u) /\ OldFinished(u)
    BY <1>1, <2>2 DEF Sound, FlightsOwned, OwnersServe, OldFinished
  <2>5. TabsBegun(u)
    BY <1>1, <1>2, <2>2 DEF Sound, TabsBegun, RegistryType
  <2>6. \A q \in Ops : Untouched(r, u, q)
    BY <1>1, <1>2, <2>2 DEF Untouched, RegistryType
  <2> QED
    BY <2>1, <2>3, <2>4, <2>5, <2>6 DEF Sound, v
<1>6. CASE o # None /\ Recorded(s, o) /\ IsTerminal(s.state[o])
  BY <1>1, <1>6 DEF PublishForTab
<1>7. CASE o # None /\ Recorded(s, o) /\ ~IsTerminal(s.state[o])
  <2>1. v = Settle(s, o, next)
    BY <1>7 DEF PublishForTab
  <2>2. o \in Ops /\ s.state[o] \in InFlight
    BY <1>2, <1>7 DEF RegistryType, Recorded, IsTerminal, InFlight, OpStates
  <2> HIDE DEF s, o, v
  <2>3. /\ Sound(Settle(s, o, next)) /\ Settle(s, o, next).tabOp = s.tabOp
        /\ \A q \in Ops : q # o => Settle(s, o, next).state[q] = s.state[q]
    BY <1>1, <2>2, SettleSound
  <2> QED
    BY <1>1, <1>3, <2>1, <2>2, <2>3 DEF Untouched, v
<1> QED
  BY <1>4, <1>5, <1>6, <1>7

LEMMA FailSound ==
    ASSUME NoneIsNone, NEW r, Sound(r), NEW o \in Ops
    PROVE  /\ Sound(FailForOperation(r, o))
           /\ \A q \in Ops : q # o => Untouched(r, FailForOperation(r, o), q)
<1> DEFINE s == PruneExpired(r)
<1>1. Sound(s) /\ s.old = {} /\ \A q \in Ops : Untouched(r, s, q)
  BY PruneSound
<1>2. CASE ~Recorded(s, o) \/ IsTerminal(s.state[o])
  BY <1>1, <1>2 DEF FailForOperation
<1>3. CASE Recorded(s, o) /\ ~IsTerminal(s.state[o])
  <2>1. s.state[o] \in InFlight
    BY <1>1, <1>3 DEF Sound, RegistryType, Recorded, IsTerminal, InFlight, OpStates
  <2>2. FailForOperation(r, o) = Settle(s, o, "failed")
    BY <1>3 DEF FailForOperation
  <2> HIDE DEF s
  <2>3. /\ Sound(Settle(s, o, "failed")) /\ Settle(s, o, "failed").tabOp = s.tabOp
        /\ \A q \in Ops : q # o => Settle(s, o, "failed").state[q] = s.state[q]
    BY <1>1, <2>1, SettleSound
  <2> QED
    BY <1>1, <2>2, <2>3 DEF Untouched
<1> QED
  BY <1>2, <1>3

\* A stop of a tab ends and unmaps the operation of this tab, at most.
LEMMA ForgetSound ==
    ASSUME NoneIsNone, NEW r, Sound(r), NEW t \in Tabs
    PROVE  /\ Sound(ForgetTab(r, t))
           /\ \A q \in Ops : r.tabOp[t] # q => Untouched(r, ForgetTab(r, t), q)
<1> DEFINE s == PruneExpired(r)
<1> DEFINE o == s.tabOp[t]
<1> DEFINE u == [s EXCEPT !.tabOp[t] = None]
<1> DEFINE v == ForgetTab(r, t)
<1> USE DEF NoneIsNone
<1>1. Sound(s) /\ s.old = {} /\ \A q \in Ops : Untouched(r, s, q)
  BY PruneSound
<1>2. s \in RegistryType /\ r \in RegistryType
  BY <1>1 DEF Sound
<1>3. o = None \/ o = r.tabOp[t]
  BY <1>2 DEF PruneExpired, RegistryType
<1>4. /\ u.state = s.state /\ u.profile = s.profile /\ u.old = s.old
      /\ u.tabOp = [s.tabOp EXCEPT ![t] = None] /\ u.profOp = s.profOp
  BY <1>2 DEF RegistryType
<1>5. u \in RegistryType
  BY <1>2 DEF RegistryType
<1>6. Sound(u) /\ \A q \in Ops : Untouched(r, u, q)
  <2> HIDE DEF s, u
  <2>1. FlightsOwned(u) /\ OwnersServe(u) /\ OldFinished(u)
    BY <1>1, <1>4 DEF Sound, FlightsOwned, OwnersServe, OldFinished
  <2>2. TabsBegun(u)
    BY <1>1, <1>2, <1>4 DEF Sound, TabsBegun, RegistryType
  <2>3. \A q \in Ops : Untouched(r, u, q)
    BY <1>1, <1>2, <1>4 DEF Untouched, RegistryType
  <2> QED
    BY <1>5, <2>1, <2>2, <2>3 DEF Sound
<1>7. CASE o = None \/ ~Recorded(s, o)
  BY <1>6, <1>7 DEF ForgetTab
<1>8. CASE o # None /\ Recorded(s, o) /\ ~IsTerminal(s.state[o])
  <2>1. o \in Ops /\ s.state[o] \in InFlight
    BY <1>2, <1>8 DEF RegistryType, Recorded, IsTerminal, InFlight, OpStates
  <2>2. v = DropProfile([u EXCEPT !.state[o] = "failed"], o)
    BY <1>8 DEF ForgetTab
  <2>3. v = Settle(u, o, "failed")
    BY <2>2 DEF Settle
  <2> HIDE DEF s, o, u, v
  <2>4. /\ Sound(Settle(u, o, "failed")) /\ Settle(u, o, "failed").tabOp = u.tabOp
        /\ \A q \in Ops : q # o => Settle(u, o, "failed").state[q] = u.state[q]
    BY <1>1, <1>4, <1>6, <2>1, SettleSound
  <2> QED
    BY <1>3, <1>6, <2>1, <2>3, <2>4 DEF Untouched, v
<1>9. CASE o # None /\ Recorded(s, o) /\ IsTerminal(s.state[o])
  <2>1. v = DropProfile(u, o)
    BY <1>9 DEF ForgetTab
  <2> HIDE DEF s, o, u
  <2> DEFINE d == DropProfile(u, o)
  <2>2. /\ d.state = u.state /\ d.profile = u.profile /\ d.old = u.old /\ d.tabOp = u.tabOp
        /\ d.profOp = [p \in Profiles |-> IF u.profOp[p] = o THEN None ELSE u.profOp[p]]
    BY <1>5 DEF DropProfile, RegistryType
  <2>3. d \in RegistryType
    BY <1>5 DEF DropProfile, RegistryType
  <2> HIDE DEF d, v
  <2>4. u.state[o] \notin InFlight
    BY <1>4, <1>9 DEF IsTerminal, InFlight
  <2>5. FlightsOwned(d)
    BY <1>5, <1>6, <2>2, <2>4 DEF Sound, FlightsOwned, RegistryType
  <2>6. OwnersServe(d)
    BY <1>5, <1>6, <2>2 DEF Sound, OwnersServe, RegistryType
  <2>7. OldFinished(d) /\ TabsBegun(d)
    BY <1>6, <2>2 DEF Sound, OldFinished, TabsBegun
  <2>8. \A q \in Ops : Untouched(r, d, q)
    BY <1>6, <2>2 DEF Untouched
  <2> QED
    BY <2>1, <2>3, <2>5, <2>6, <2>7, <2>8 DEF Sound, v, d
<1> QED
  BY <1>7, <1>8, <1>9

LEMMA AgeSound ==
    ASSUME NoneIsNone, NEW r, Sound(r), NEW o \in Ops, IsTerminal(r.state[o])
    PROVE  Sound(Age(r, o)) /\ \A q \in Ops : Untouched(r, Age(r, o), q)
<1> DEFINE u == Age(r, o)
<1>1. r \in RegistryType
  BY DEF Sound
<1>2. /\ u.state = r.state /\ u.profile = r.profile /\ u.old = r.old \cup {o}
      /\ u.tabOp = r.tabOp /\ u.profOp = r.profOp
  BY <1>1 DEF Age, RegistryType
<1>3. u \in RegistryType
  BY <1>1 DEF Age, RegistryType
<1> HIDE DEF u
<1>4. FlightsOwned(u) /\ OwnersServe(u) /\ OldFinished(u) /\ TabsBegun(u)
  BY <1>2 DEF Sound, FlightsOwned, OwnersServe, OldFinished, TabsBegun
<1> QED
  BY <1>2, <1>3, <1>4 DEF Sound, Untouched, u

-------------------------------------------------------------------------------
(***************************************************************************)
(* The commands.                                                           *)
(***************************************************************************)

\* A request that has not attached its operation is the only one that will,
\* and no tab has the operation.
Opening == {"attach", "failOp"}
Holders ==
    \A c \in Cmds : pc[c] \in Opening =>
        /\ op[c] \in Ops /\ reg.state[op[c]] = "pending"
        /\ \A t \in Tabs : reg.tabOp[t] # op[c]
        /\ \A d \in Cmds : pc[d] \in Opening /\ op[d] = op[c] => d = c

\* Whoever works on a tab has one, and whoever launches a worker has that.
Placed ==
    /\ \A c \in Cmds : pc[c] \notin {"idle", "done"} => at[c] \in Tabs
    /\ \A w \in Workers : pc[w] # "unused" => at[w] \in Tabs
    /\ \A a \in Actors : pc[a] = "launch" => child[a] \in Workers /\ pc[child[a]] # "unused"

Shapes ==
    /\ pc = [a \in Actors |-> pc[a]] /\ op = [c \in Cmds |-> op[c]]
    /\ at = [a \in Actors |-> at[a]] /\ child = [a \in Actors |-> child[a]]

IInv == Sound(reg) /\ Shapes /\ Placed /\ Holders

Constants == NoneIsNone /\ Cmds \cap Workers = {}

LEMMA InitInv == Constants => (Init => IInv)
<1> SUFFICES ASSUME Constants, Init PROVE IInv
  OBVIOUS
<1>1. Sound(reg)
  BY EmptySound DEF Init, Constants
<1>2. Shapes /\ Placed /\ Holders
  BY DEF Init, Constants, Shapes, Placed, Holders, Actors, Opening
<1> QED
  BY <1>1, <1>2 DEF IInv

\* A tab that somebody works on.
LEMMA OnATab ==
    ASSUME Constants, IInv, NEW a \in Actors, pc[a] \notin {"idle", "unused", "done"}
    PROVE  at[a] \in Tabs
BY DEF IInv, Placed, Actors

\* A step of one command or worker on its tab that keeps every operation
\* which somebody else is still to attach.
LEMMA MovesOn ==
    ASSUME Constants, IInv, NEW a \in Actors, NEW l, Goto(a, l),
           l \notin Opening \cup {"launch", "unused"}, pc[a] \notin {"idle", "unused", "done"},
           UNCHANGED <<at, op, child>>, Sound(reg'),
           \A c \in Cmds : c # a /\ pc[c] \in Opening => Untouched(reg, reg', op[c])
    PROVE  IInv'
<1>1. /\ pc' = [b \in Actors |-> pc'[b]] /\ pc'[a] = l
      /\ \A b \in Actors : b # a => pc'[b] = pc[b]
  BY DEF IInv, Shapes, Goto
<1>2. Shapes'
  BY <1>1 DEF IInv, Shapes
<1>3. at[a] \in Tabs
  BY OnATab
<1>4. Placed'
  BY <1>1, <1>3 DEF IInv, Placed, Actors
<1>5. Holders'
  <2> SUFFICES ASSUME NEW c \in Cmds, pc'[c] \in Opening
               PROVE  /\ op[c] \in Ops /\ reg'.state[op[c]] = "pending"
                      /\ \A t \in Tabs : reg'.tabOp[t] # op[c]
                      /\ \A d \in Cmds : pc'[d] \in Opening /\ op[d] = op[c] => d = c
    BY DEF Holders
  <2>1. c # a /\ pc[c] \in Opening /\ Untouched(reg, reg', op[c])
    BY <1>1 DEF Actors
  <2> QED
    BY <1>1, <2>1 DEF IInv, Holders, Untouched, Actors
<1> QED
  BY <1>2, <1>4, <1>5 DEF IInv

\* One that leaves the registry alone.
LEMMA MovesQuietly ==
    ASSUME Constants, IInv, NEW a \in Actors, NEW l, Goto(a, l),
           l \notin Opening \cup {"launch", "unused"}, pc[a] \notin {"idle", "unused", "done"},
           UNCHANGED <<reg, at, op, child>>
    PROVE  IInv'
<1>1. Sound(reg') /\ \A c \in Cmds : Untouched(reg, reg', op[c])
  BY DEF IInv, Untouched
<1> QED
  BY <1>1, MovesOn

\* Publishing for a tab, or stopping it, does not reach an unattached operation.
LEMMA PublishUntouched ==
    ASSUME Constants, IInv, NEW t \in Tabs, NEW next \in {"connected", "failed"}
    PROVE  /\ Sound(PublishForTab(reg, t, next))
           /\ \A c \in Cmds : pc[c] \in Opening => Untouched(reg, PublishForTab(reg, t, next), op[c])
BY PublishSound DEF IInv, Holders, Constants

LEMMA ForgetUntouched ==
    ASSUME Constants, IInv, NEW t \in Tabs
    PROVE  /\ Sound(ForgetTab(reg, t))
           /\ \A c \in Cmds : pc[c] \in Opening => Untouched(reg, ForgetTab(reg, t), op[c])
BY ForgetSound DEF IInv, Holders, Constants

\* A command starts on a tab.
LEMMA BeginsOn ==
    ASSUME Constants, IInv, NEW c \in Cmds, NEW t \in Tabs, NEW l, Goto(c, l),
           l \notin Opening \cup {"launch", "unused"}, pc[c] = "idle",
           at' = [at EXCEPT ![c] = t], UNCHANGED <<reg, op, child>>
    PROVE  IInv'
<1>1. /\ pc' = [b \in Actors |-> pc'[b]] /\ pc'[c] = l
      /\ \A b \in Actors : b # c => pc'[b] = pc[b]
  BY DEF IInv, Shapes, Goto, Actors
<1>2. /\ at' = [b \in Actors |-> at'[b]] /\ at'[c] = t
      /\ \A b \in Actors : b # c => at'[b] = at[b]
  BY DEF IInv, Shapes, Actors
<1>3. Shapes' /\ Sound(reg)'
  BY <1>1, <1>2 DEF IInv, Shapes
<1>4. Placed'
  BY <1>1, <1>2 DEF IInv, Placed, Actors, Constants
<1>5. Holders'
  BY <1>1 DEF IInv, Holders, Actors
<1> QED
  BY <1>3, <1>4, <1>5 DEF IInv

LEMMA BeginRequestInv ==
    ASSUME Constants, IInv, NEW c \in Cmds, BeginRequest(c)
    PROVE  IInv'
<1>1. PICK p \in Profiles, o \in Ops, t \in Tabs :
        /\ pc[c] = "idle" /\ reg.state[o] = "unused" /\ reg' = BeginOrJoin(reg, p, o)
        /\ \/ /\ Joined(reg, p) # None
              /\ op' = [op EXCEPT ![c] = Joined(reg, p)] /\ Goto(c, "done") /\ UNCHANGED at
           \/ /\ Joined(reg, p) = None
              /\ op' = [op EXCEPT ![c] = o] /\ at' = [at EXCEPT ![c] = t]
              /\ \E l \in {"attach", "failOp"} : Goto(c, l)
        /\ UNCHANGED child
  BY DEF BeginRequest
<1>2. /\ Sound(reg') /\ \A q \in Ops : Untouched(reg, reg', q)
      /\ Joined(reg, p) = None => reg'.state[o] = "pending" /\ \A u \in Tabs : reg'.tabOp[u] # o
  BY <1>1, BeginSound DEF IInv, Constants
<1>3. /\ op' = [d \in Cmds |-> op'[d]] /\ \A d \in Cmds : d # c => op'[d] = op[d]
  BY <1>1 DEF IInv, Shapes
<1>4. \A d \in Cmds : pc[d] \in Opening => op[d] \in Ops /\ op[d] # o /\ d # c
  BY <1>1 DEF IInv, Holders, Opening
<1>5. CASE Joined(reg, p) # None
  <2>1. /\ pc' = [b \in Actors |-> pc'[b]] /\ pc'[c] = "done"
        /\ \A b \in Actors : b # c => pc'[b] = pc[b]
    BY <1>1, <1>5 DEF IInv, Shapes, Goto, Actors
  <2>2. Shapes'
    BY <1>1, <1>3, <1>5, <2>1 DEF IInv, Shapes
  <2>3. Placed'
    BY <1>1, <1>5, <2>1 DEF IInv, Placed, Actors, Constants
  <2>4. Holders'
    BY <1>2, <1>3, <1>4, <2>1 DEF IInv, Holders, Untouched, Actors, Opening
  <2> QED
    BY <1>2, <2>2, <2>3, <2>4 DEF IInv
<1>6. CASE Joined(reg, p) = None
  <2>1. /\ pc' = [b \in Actors |-> pc'[b]] /\ pc'[c] \in {"attach", "failOp"}
        /\ \A b \in Actors : b # c => pc'[b] = pc[b]
    BY <1>1, <1>6 DEF IInv, Shapes, Goto, Actors
  <2>2. /\ at' = [b \in Actors |-> at'[b]] /\ at'[c] = t /\ op'[c] = o
        /\ \A b \in Actors : b # c => at'[b] = at[b]
    BY <1>1, <1>6 DEF IInv, Shapes, Actors
  <2>3. Shapes'
    BY <1>1, <1>3, <2>1, <2>2 DEF IInv, Shapes
  <2>4. Placed'
    BY <1>1, <2>1, <2>2 DEF IInv, Placed, Actors, Constants
  <2>5. Holders'
    BY <1>2, <1>3, <1>4, <1>6, <2>1, <2>2 DEF IInv, Holders, Untouched, Actors, Opening
  <2> QED
    BY <1>2, <2>3, <2>4, <2>5 DEF IInv
<1> QED
  BY <1>5, <1>6

LEMMA FailOperationInv ==
    ASSUME Constants, IInv, NEW c \in Cmds, FailOperation(c)
    PROVE  IInv'
<1>1. pc[c] = "failOp" /\ reg' = FailForOperation(reg, op[c]) /\ Goto(c, "done")
      /\ UNCHANGED <<at, op, child>> /\ c \in Actors
  BY DEF FailOperation, cmdVars, Actors
<1>2. op[c] \in Ops /\ \A d \in Cmds : d # c /\ pc[d] \in Opening => op[d] \in Ops /\ op[d] # op[c]
  BY <1>1 DEF IInv, Holders, Opening
<1>3. Sound(reg') /\ \A d \in Cmds : d # c /\ pc[d] \in Opening => Untouched(reg, reg', op[d])
  BY <1>1, <1>2, FailSound DEF IInv, Constants
<1> QED
  BY <1>1, <1>3, MovesOn DEF Opening

\* The record is still there: only its own request can have ended it.
LEMMA AttachOperationInv ==
    ASSUME Constants, IInv, NEW c \in Cmds, AttachOperation(c)
    PROVE  IInv'
<1>1. pc[c] = "attach" /\ UNCHANGED <<at, op, child>> /\ c \in Actors
  BY DEF AttachOperation, cmdVars, Actors
<1>2. op[c] \in Ops /\ reg.state[op[c]] = "pending"
      /\ \A d \in Cmds : d # c /\ pc[d] \in Opening => op[d] \in Ops /\ op[d] # op[c]
  BY <1>1 DEF IInv, Holders, Opening
<1>3. at[c] \in Tabs
  BY <1>1, OnATab
<1>4. CanAttach(reg, op[c])
  BY <1>2, <1>3, AttachSound DEF IInv, Constants
<1>5. reg' = AttachTab(reg, op[c], at[c]) /\ Goto(c, "push")
  BY <1>4 DEF AttachOperation
<1>6. Sound(reg') /\ \A d \in Cmds : d # c /\ pc[d] \in Opening => Untouched(reg, reg', op[d])
  BY <1>2, <1>3, <1>5, AttachSound DEF IInv, Constants
<1> QED
  BY <1>1, <1>5, <1>6, MovesOn DEF Opening

LEMMA InsertSenderInv ==
    ASSUME Constants, IInv, NEW a \in Actors, InsertSender(a)
    PROVE  IInv'
<1>1. PICK w \in Workers :
        /\ pc[a] = "insert" /\ pc[w] = "unused"
        /\ child' = [child EXCEPT ![a] = w] /\ at' = [at EXCEPT ![w] = at[a]]
        /\ pc' = [pc EXCEPT ![a] = "launch", ![w] = "built"] /\ UNCHANGED <<reg, op>>
  BY DEF InsertSender
<1>2. w # a /\ w \in Actors /\ at[a] \in Tabs
  BY <1>1, OnATab DEF Actors
<1>3. /\ pc' = [b \in Actors |-> pc'[b]] /\ pc'[a] = "launch" /\ pc'[w] = "built"
      /\ \A b \in Actors : b # a /\ b # w => pc'[b] = pc[b]
  BY <1>1, <1>2 DEF IInv, Shapes
<1>4. /\ at' = [b \in Actors |-> at'[b]] /\ at'[w] \in Tabs
      /\ \A b \in Actors : b # w => at'[b] = at[b]
  BY <1>1, <1>2 DEF IInv, Shapes
<1>5. /\ child' = [b \in Actors |-> child'[b]] /\ child'[a] = w
      /\ \A b \in Actors : b # a => child'[b] = child[b]
  BY <1>1, <1>2 DEF IInv, Shapes
<1>6. Shapes' /\ Sound(reg)'
  BY <1>1, <1>3, <1>4, <1>5 DEF IInv, Shapes
<1>7. Placed'
  <2>1. \A c \in Cmds : c # w
    BY DEF Constants
  <2>2. ASSUME NEW c \in Cmds, pc'[c] \notin {"idle", "done"} PROVE at'[c] \in Tabs
    <3>1. c = a \/ pc'[c] = pc[c]
      BY <1>3, <2>1, <2>2 DEF Actors
    <3> QED
      BY <1>1, <1>4, <2>1, <2>2, <3>1, OnATab DEF IInv, Placed, Actors
  <2>3. ASSUME NEW v \in Workers, pc'[v] # "unused" PROVE at'[v] \in Tabs
    <3>1. v = w \/ pc[v] # "unused"
      BY <1>1, <1>3, <2>3 DEF Actors
    <3> QED
      BY <1>4, <3>1 DEF IInv, Placed, Actors
  <2>4. ASSUME NEW b \in Actors, pc'[b] = "launch"
        PROVE  child'[b] \in Workers /\ pc'[child'[b]] # "unused"
    <3>1. CASE b = a
      BY <1>2, <1>3, <1>5, <3>1
    <3>2. CASE b # a
      <4>1. pc[b] = "launch" /\ child'[b] = child[b]
        BY <1>3, <1>5, <2>4, <3>2
      <4>2. child[b] \in Workers /\ pc[child[b]] # "unused" /\ child[b] \in Actors
        BY <4>1 DEF IInv, Placed, Actors
      <4>3. pc'[child[b]] # "unused"
        BY <1>3, <4>2
      <4> QED
        BY <4>1, <4>2, <4>3
    <3> QED
      BY <3>1, <3>2
  <2> QED
    BY <2>2, <2>3, <2>4 DEF Placed
<1>8. Holders'
  <2>1. \A c \in Cmds : pc'[c] \in Opening => pc'[c] = pc[c]
    BY <1>3 DEF Opening, Actors
  <2> QED
    BY <1>1, <2>1 DEF IInv, Holders
<1> QED
  BY <1>6, <1>7, <1>8 DEF IInv

LEMMA LaunchInv ==
    ASSUME Constants, IInv, NEW a \in Actors, Launch(a)
    PROVE  IInv'
<1> DEFINE w == child[a]
<1>1. /\ pc[a] = "launch" /\ pc' = [pc EXCEPT ![a] = "done", ![w] = "starting"]
      /\ child' = [child EXCEPT ![a] = None] /\ UNCHANGED <<reg, at, op>>
  BY DEF Launch
<1>2. w \in Workers /\ w \in Actors /\ pc[w] # "unused" /\ at[w] \in Tabs
  BY <1>1 DEF IInv, Placed, Actors
<1> HIDE DEF w
<1>3. /\ pc' = [b \in Actors |-> pc'[b]] /\ pc'[w] = "starting" /\ pc'[a] \in {"done", "starting"}
      /\ \A b \in Actors : b # a /\ b # w => pc'[b] = pc[b]
  BY <1>1, <1>2 DEF IInv, Shapes
<1>4. /\ child' = [b \in Actors |-> child'[b]]
      /\ \A b \in Actors : b # a => child'[b] = child[b]
  BY <1>1 DEF IInv, Shapes
<1>5. Shapes' /\ Sound(reg)'
  BY <1>1, <1>3, <1>4 DEF IInv, Shapes
<1>6. Placed'
  <2>1. \A v \in Workers : pc'[v] # "unused" => at[v] \in Tabs
    BY <1>2, <1>3, <1>1, OnATab DEF IInv, Placed, Actors
  <2>2. \A c \in Cmds : pc'[c] \notin {"idle", "done"} => at[c] \in Tabs
    BY <1>1, <1>2, <1>3 DEF IInv, Placed, Actors
  <2>3. ASSUME NEW b \in Actors, pc'[b] = "launch"
        PROVE  child'[b] \in Workers /\ pc'[child'[b]] # "unused"
    <3>1. pc[b] = "launch" /\ child'[b] = child[b]
      BY <1>3, <1>4, <2>3
    <3>2. child[b] \in Workers /\ pc[child[b]] # "unused" /\ child[b] \in Actors
      BY <3>1 DEF IInv, Placed, Actors
    <3>3. pc'[child[b]] # "unused"
      BY <1>3, <3>2
    <3> QED
      BY <3>1, <3>2, <3>3
  <2> QED
    BY <1>1, <2>1, <2>2, <2>3 DEF Placed
<1>7. Holders'
  <2>1. \A c \in Cmds : pc'[c] \in Opening => pc'[c] = pc[c]
    BY <1>3 DEF Opening, Actors
  <2> QED
    BY <1>1, <2>1 DEF IInv, Holders
<1> QED
  BY <1>5, <1>6, <1>7 DEF IInv

LEMMA CommandInv ==
    ASSUME Constants, IInv, NEW c \in Cmds,
           BeginOpen(c) \/ BeginRequest(c) \/ BeginOnTab(c) \/ CommandStep(c)
    PROVE  IInv'
<1> USE DEF Opening
<1>0. c \in Actors
  BY DEF Actors
<1>1. CASE BeginOpen(c)
  BY <1>1, BeginsOn DEF BeginOpen, maps
<1>2. CASE BeginRequest(c)
  BY <1>2, BeginRequestInv
<1>3. CASE BeginOnTab(c)
  BY <1>3, BeginsOn DEF BeginOnTab, maps
<1>4. CASE FailOperation(c)
  BY <1>4, FailOperationInv
<1>5. CASE AttachOperation(c)
  BY <1>5, AttachOperationInv
<1>6. CASE PushTab(c)
  BY <1>0, <1>6, MovesQuietly DEF PushTab, cmdVars
<1>7. CASE PauseTransfers(c)
  BY <1>0, <1>7, MovesQuietly DEF PauseTransfers, cmdVars, maps
<1>8. CASE ForgetAttempts(c)
  BY <1>0, <1>8, MovesQuietly DEF ForgetAttempts, cmdVars
<1>9. CASE RemoveTab(c)
  BY <1>0, <1>9, MovesQuietly DEF RemoveTab, cmdVars
<1>10. CASE MarkClosed(c)
  BY <1>0, <1>10, MovesQuietly DEF MarkClosed, cmdVars
<1>11. CASE NoticeTab(c)
  BY <1>0, <1>11, MovesQuietly DEF NoticeTab, cmdVars
<1>12. CASE NoticeSession(c)
  BY <1>0, <1>12, MovesQuietly DEF NoticeSession, cmdVars
<1>13. CASE NoticePublish(c)
  <2>1. at[c] \in Tabs
    BY <1>0, <1>13, OnATab DEF NoticePublish
  <2> QED
    BY <1>0, <1>13, <2>1, PublishUntouched, MovesOn DEF NoticePublish, cmdVars
<1> QED
  BY <1>1, <1>2, <1>3, <1>4, <1>5, <1>6, <1>7, <1>8, <1>9, <1>10, <1>11, <1>12, <1>13
     DEF CommandStep

LEMMA ReconnectInv ==
    ASSUME Constants, IInv, NEW a \in Actors, ReconnectStep(a)
    PROVE  IInv'
<1> USE DEF Opening
<1>1. CASE ReadTab(a)
  BY <1>1, MovesQuietly DEF ReadTab, cmdVars, maps
<1>2. CASE ClaimReconnect(a)
  BY <1>2, MovesQuietly DEF ClaimReconnect, cmdVars
<1>3. CASE StopForget(a)
  <2>1. at[a] \in Tabs
    BY <1>3, OnATab DEF StopForget
  <2> QED
    BY <1>3, <2>1, ForgetUntouched, MovesOn DEF StopForget, cmdVars
<1>4. CASE StopControl(a)
  BY <1>4, MovesQuietly DEF StopControl, cmdVars
<1>5. CASE StopSender(a)
  BY <1>5, MovesQuietly DEF StopSender, cmdVars
<1>6. CASE ResetSession(a)
  BY <1>6, MovesQuietly DEF ResetSession, cmdVars
<1>7. CASE InsertSender(a)
  BY <1>7, InsertSenderInv
<1>8. CASE Launch(a)
  BY <1>8, LaunchInv
<1> QED
  BY <1>1, <1>2, <1>3, <1>4, <1>5, <1>6, <1>7, <1>8 DEF ReconnectStep

LEMMA SupervisorInv ==
    ASSUME Constants, IInv, NEW w \in Workers, SupervisorStep(w) \/ LeaveLoop(w)
    PROVE  IInv'
<1> USE DEF Opening
<1>0. w \in Actors
  BY DEF Actors
<1>1. CASE OpenSession(w)
  BY <1>0, <1>1, MovesQuietly DEF OpenSession, cmdVars, maps
<1>2. CASE SnapshotSession(w)
  <2>1. at[w] \in Tabs
    BY <1>0, <1>2, OnATab DEF SnapshotSession
  <2> QED
    BY <1>0, <1>2, <2>1, PublishUntouched, MovesOn DEF SnapshotSession, cmdVars
<1>3. CASE JudgeExit(w)
  <2>1. \E l \in {"done", "report", "markTab"} : Goto(w, l)
    BY <1>3 DEF JudgeExit
  <2>2. pc[w] = "ended" /\ UNCHANGED <<reg, at, op, child>>
    BY <1>3 DEF JudgeExit, cmdVars
  <2> QED
    BY <1>0, <2>1, <2>2, MovesQuietly
<1>4. CASE ReportFailure(w)
  <2>1. at[w] \in Tabs
    BY <1>0, <1>4, OnATab DEF ReportFailure
  <2> QED
    BY <1>0, <1>4, <2>1, PublishUntouched, MovesOn DEF ReportFailure, cmdVars
<1>5. CASE MarkTab(w)
  BY <1>0, <1>5, MovesQuietly DEF MarkTab, cmdVars
<1>6. CASE MarkSession(w)
  <2>1. \E l \in {"up", "markPublish"} : Goto(w, l)
    BY <1>6 DEF MarkSession
  <2>2. pc[w] = "markSession" /\ UNCHANGED <<reg, at, op, child>>
    BY <1>6 DEF MarkSession, cmdVars
  <2> QED
    BY <1>0, <2>1, <2>2, MovesQuietly
<1>7. CASE MarkPublish(w)
  <2>1. at[w] \in Tabs
    BY <1>0, <1>7, OnATab DEF MarkPublish
  <2> QED
    BY <1>0, <1>7, <2>1, PublishUntouched, MovesOn DEF MarkPublish, cmdVars
<1>8. CASE ScheduleReconnect(w)
  <2>1. \E l \in {"done", "delay", "markTab"} : Goto(w, l)
    BY <1>8 DEF ScheduleReconnect
  <2>2. pc[w] = "policy" /\ UNCHANGED <<reg, at, op, child>>
    BY <1>8 DEF ScheduleReconnect, cmdVars
  <2> QED
    BY <1>0, <2>1, <2>2, MovesQuietly
<1>9. CASE WaitDelay(w)
  BY <1>0, <1>9, MovesQuietly DEF WaitDelay, cmdVars, maps
<1>10. CASE Recheck(w)
  <2>1. Goto(w, "read") \/ Goto(w, "done")
    BY <1>10 DEF Recheck
  <2>2. pc[w] = "recheck" /\ UNCHANGED <<reg, at, op, child>>
    BY <1>10 DEF Recheck, maps
  <2> QED
    BY <1>0, <2>1, <2>2, MovesQuietly
<1>11. CASE LeaveLoop(w)
  BY <1>0, <1>11, MovesQuietly DEF LeaveLoop, cmdVars, maps
<1> QED
  BY <1>1, <1>2, <1>3, <1>4, <1>5, <1>6, <1>7, <1>8, <1>9, <1>10, <1>11 DEF SupervisorStep

\* Time passes for a finished operation, which nobody is still to attach.
LEMMA AgeInv ==
    ASSUME Constants, IInv, NEW o \in Ops, AgeOperation(o)
    PROVE  IInv'
<1>1. IsTerminal(reg.state[o]) /\ reg' = Age(reg, o) /\ UNCHANGED <<pc, at, op, child>>
  BY DEF AgeOperation, cmdVars
<1>2. Sound(reg') /\ \A q \in Ops : Untouched(reg, reg', q)
  BY <1>1, AgeSound DEF IInv, Constants
<1>3. Shapes' /\ Placed'
  BY <1>1 DEF IInv, Shapes, Placed
<1>4. Holders'
  BY <1>1, <1>2 DEF IInv, Holders, Untouched
<1> QED
  BY <1>2, <1>3, <1>4 DEF IInv

LEMMA NextInv == Constants => (IInv /\ [Next]_vars => IInv')
<1> SUFFICES ASSUME Constants, IInv, [Next]_vars PROVE IInv'
  OBVIOUS
<1>1. CASE UNCHANGED vars
  BY <1>1 DEF vars, IInv, Shapes, Placed, Holders
<1>2. CASE Next
  BY <1>2, CommandInv, ReconnectInv, SupervisorInv, AgeInv DEF Next
<1> QED
  BY <1>1, <1>2

\* Any number of requests for a profile share one operation, which can still
\* serve them, however commands, supervisors and the clock interleave.
THEOREM OneFlight == Constants => (Spec => []OneFlightPerProfile)
<1> SUFFICES ASSUME Constants PROVE Spec => []OneFlightPerProfile
  OBVIOUS
<1>1. Init => IInv
  BY InitInv
<1>2. IInv /\ [Next]_vars => IInv'
  BY NextInv
<1>3. IInv => OneFlightPerProfile
  BY DEF IInv, Sound, FlightsOwned, OwnersServe, OneFlightPerProfile, SingleFlight, ProfileServes
<1> QED
  BY <1>1, <1>2, <1>3, PTL DEF Spec

-------------------------------------------------------------------------------
(***************************************************************************)
(* Automatic reconnections.  As long as tabs are only opened, each tab is  *)
(* in one pair of hands: the command that opens it, then the worker, then  *)
(* the supervisor that replaces it.                                        *)
(***************************************************************************)
OnlyOpening ==
    /\ Kinds \subseteq {"open", "request"}
    /\ MaxAttempts \in Nat /\ UnstableLimit \in Nat \ {0}

Acting(a) == pc[a] \notin {"idle", "unused", "built", "done"}

Alone == \A a, b \in Actors : Acting(a) /\ Acting(b) /\ at[a] = at[b] => a = b

\* Commands do nothing but open, and launch the worker they have built.
Opens ==
    /\ \A c \in Cmds : pc[c] \in {"idle", "failOp", "attach", "push", "insert", "launch", "done"}
    /\ \A a \in Actors : pc[a] = "launch" =>
         child[a] \in Workers /\ pc[child[a]] = "built" /\ at[child[a]] = at[a]

\* A tab's token is that of a worker of this tab.
Tokens ==
    \A t \in Tabs : ctl[t] # None =>
        ctl[t] \in Workers /\ at[ctl[t]] = t /\ pc[ctl[t]] \notin {"idle", "unused", "built"}

\* A worker is cancelled only by itself, when it replaces itself, and its
\* tab's counts start anew exactly when its connection was stable.
Counts(w) ==
    /\ w \in cancelled =>
         pc[w] \in {"sender", "reset", "insert", "launch", "forgetAttempts", "done"}
    /\ pc[w] \in {"unused", "built", "starting", "snapshot", "up"} => exit[w] = "none"
    /\ w \in stable => exit[w] # "none"
    /\ w \in stable /\ pc[w] = "ended" => autoRuns[at[w]] = 0
    /\ w \in stable /\ pc[w] \in {"report", "markTab", "markSession", "markPublish", "policy"}
         => attempts[at[w]] = 0

RunsWithin == \A t \in Tabs : autoRuns[t] <= attempts[t] /\ attempts[t] <= Limit

RunsTypes ==
    /\ attempts \in [Tabs -> Nat] /\ autoRuns \in [Tabs -> Nat]
    /\ ctl = [t \in Tabs |-> ctl[t]] /\ exit = [w \in Workers |-> exit[w]]

RunsInv ==
    RunsTypes /\ Alone /\ Opens /\ Tokens /\ RunsWithin /\ \A w \in Workers : Counts(w)

LEMMA RunsInit == Constants /\ OnlyOpening => (Init => RunsInv)
<1> SUFFICES ASSUME Constants, OnlyOpening, Init PROVE RunsInv
  OBVIOUS
<1>1. Limit \in Nat
  BY DEF OnlyOpening, Limit
<1>2. RunsTypes /\ Tokens
  BY DEF Init, RunsTypes, Tokens
<1>3. RunsWithin
  BY <1>1 DEF Init, RunsWithin
<1>4. Alone /\ Opens
  BY DEF Init, Alone, Acting, Opens, Actors, Constants
<1>5. \A w \in Workers : Counts(w)
  BY DEF Init, Counts, Actors, Constants
<1> QED
  BY <1>2, <1>3, <1>4, <1>5 DEF RunsInv

\* What nobody touches: a step of one pair of hands, and what is to be shown
\* of it alone.
Others(a) ==
    /\ \A w \in Workers \ {a} : /\ exit'[w] = exit[w] /\ (w \in stable' <=> w \in stable)
                                /\ w \in cancelled' => w \in cancelled \/ pc[w] = "done"
    /\ \A t \in Tabs : t # at[a] => attempts'[t] = attempts[t] /\ autoRuns'[t] = autoRuns[t]
    /\ \A t \in Tabs : ctl'[t] \in {ctl[t], None}

LEMMA RunsMove ==
    ASSUME Constants, IInv, RunsInv, NEW a \in Actors, NEW l, Goto(a, l), Acting(a),
           l \notin {"idle", "unused", "built", "launch"},
           a \in Cmds => l \in {"failOp", "attach", "push", "insert", "done"},
           UNCHANGED <<at, child>>, Others(a), RunsTypes', RunsWithin',
           a \in Workers => Counts(a)'
    PROVE  RunsInv'
<1>1. pc'[a] = l /\ \A b \in Actors : b # a => pc'[b] = pc[b]
  BY DEF IInv, Shapes, Goto
<1>2. Alone'
  <2> SUFFICES ASSUME NEW b \in Actors, NEW d \in Actors, Acting(b)', Acting(d)', at[b] = at[d]
               PROVE  b = d
    BY DEF Alone
  <2>1. Acting(b) /\ Acting(d)
    BY <1>1 DEF Acting
  <2> QED
    BY <2>1 DEF RunsInv, Alone
<1>3. Opens'
  <2>1. \A c \in Cmds : pc'[c] \in {"idle", "failOp", "attach", "push", "insert", "launch", "done"}
    BY <1>1 DEF RunsInv, Opens, Actors
  <2>2. ASSUME NEW b \in Actors, pc'[b] = "launch"
        PROVE  child[b] \in Workers /\ pc'[child[b]] = "built" /\ at[child[b]] = at[b]
    <3>1. pc[b] = "launch"
      BY <1>1, <2>2
    <3>2. child[b] \in Workers /\ pc[child[b]] = "built" /\ at[child[b]] = at[b]
      BY <3>1 DEF RunsInv, Opens
    <3>3. child[b] # a /\ child[b] \in Actors
      BY <3>2 DEF Acting, Actors
    <3> QED
      BY <1>1, <3>2, <3>3
  <2> QED
    BY <2>1, <2>2 DEF Opens
<1>4. Tokens'
  <2> SUFFICES ASSUME NEW t \in Tabs, ctl'[t] # None
               PROVE  ctl'[t] \in Workers /\ at[ctl'[t]] = t /\ pc'[ctl'[t]] \notin {"idle", "unused", "built"}
    BY DEF Tokens
  <2>1. ctl'[t] = ctl[t]
    BY DEF Others
  <2>2. ctl[t] \in Workers /\ at[ctl[t]] = t /\ pc[ctl[t]] \notin {"idle", "unused", "built"}
    BY <2>1 DEF RunsInv, Tokens
  <2> QED
    BY <1>1, <2>1, <2>2 DEF Actors
<1>5. ASSUME NEW w \in Workers, w # a PROVE Counts(w)'
  <2>1. /\ pc'[w] = pc[w] /\ exit'[w] = exit[w] /\ (w \in stable' <=> w \in stable)
        /\ w \in cancelled' => w \in cancelled \/ pc[w] = "done"
    BY <1>1, <1>5 DEF Others, Actors
  <2>2. Counts(w)
    BY DEF RunsInv
  <2>3. CASE ~Acting(w)
    BY <2>1, <2>2, <2>3 DEF Counts, Acting
  <2>4. CASE Acting(w)
    <3>1. at[w] # at[a]
      BY <1>5, <2>4 DEF RunsInv, Alone, Actors
    <3>2. at[w] \in Tabs
      BY <2>4, OnATab DEF Acting, IInv, Placed, Actors
    <3>3. attempts'[at[w]] = attempts[at[w]] /\ autoRuns'[at[w]] = autoRuns[at[w]]
      BY <3>1, <3>2 DEF Others
    <3> QED
      BY <2>1, <2>2, <3>3 DEF Counts
  <2> QED
    BY <2>3, <2>4
<1>6. \A w \in Workers : Counts(w)'
  BY <1>5
<1> QED
  BY <1>2, <1>3, <1>4, <1>6 DEF RunsInv

\* A step that leaves counts, tokens and exits alone.
LEMMA RunsMoveQuietly ==
    ASSUME Constants, IInv, RunsInv, NEW a \in Actors, NEW l, Goto(a, l), Acting(a),
           l \notin {"idle", "unused", "built", "launch", "ended"},
           a \in Cmds => l \in {"failOp", "attach", "push", "insert", "done"},
           UNCHANGED <<at, child, ctl, attempts, workerVars>>,
           a \in Workers \cap cancelled => l \in {"sender", "reset", "insert", "forgetAttempts", "done"},
           a \in Workers /\ l \in {"starting", "snapshot", "up"} => exit[a] = "none",
           a \in Workers \cap stable /\ l \in {"report", "markTab", "markSession", "markPublish", "policy"}
             => pc[a] \in {"report", "markTab", "markSession", "markPublish", "policy"}
    PROVE  RunsInv'
<1>1. pc'[a] = l
  BY DEF IInv, Shapes, Goto
<1>2. Others(a)
  BY DEF Others, workerVars
<1>3. RunsTypes' /\ RunsWithin'
  BY DEF RunsInv, RunsTypes, RunsWithin, workerVars
<1>4. a \in Workers => Counts(a)'
  BY <1>1 DEF RunsInv, Counts, workerVars
<1> QED
  BY <1>2, <1>3, <1>4, RunsMove

LEMMA RunsBeginOpen ==
    ASSUME Constants, IInv, RunsInv, NEW c \in Cmds, NEW t \in Tabs, NEW l, Goto(c, l),
           l \in {"push", "attach", "failOp"}, pc[c] = "idle", \A a \in Actors : at[a] # t,
           at' = [at EXCEPT ![c] = t], UNCHANGED <<child, ctl, attempts, workerVars>>
    PROVE  RunsInv'
<1>1. c \in Actors /\ c \notin Workers
  BY DEF Actors, Constants
<1>2. pc'[c] = l /\ \A b \in Actors : b # c => pc'[b] = pc[b]
  BY <1>1 DEF IInv, Shapes, Goto
<1>3. at'[c] = t /\ \A b \in Actors : b # c => at'[b] = at[b]
  BY <1>1 DEF IInv, Shapes
<1>4. RunsTypes' /\ RunsWithin'
  BY DEF RunsInv, RunsTypes, RunsWithin, workerVars
<1>5. Alone'
  BY <1>2, <1>3 DEF RunsInv, Alone, Acting
<1>6. Opens'
  <2>1. \A d \in Cmds : pc'[d] \in {"idle", "failOp", "attach", "push", "insert", "launch", "done"}
    BY <1>2 DEF RunsInv, Opens, Actors
  <2>2. ASSUME NEW b \in Actors, pc'[b] = "launch"
        PROVE  child[b] \in Workers /\ pc'[child[b]] = "built" /\ at'[child[b]] = at'[b]
    <3>1. b # c /\ pc[b] = "launch"
      BY <1>2, <2>2
    <3>2. child[b] \in Workers /\ pc[child[b]] = "built" /\ at[child[b]] = at[b]
      BY <3>1 DEF RunsInv, Opens
    <3> QED
      BY <1>1, <1>2, <1>3, <3>1, <3>2 DEF Actors
  <2> QED
    BY <2>1, <2>2 DEF Opens
<1>7. Tokens'
  BY <1>1, <1>2, <1>3 DEF RunsInv, Tokens, Actors
<1>8. ASSUME NEW w \in Workers PROVE Counts(w)'
  <2>1. pc'[w] = pc[w] /\ at'[w] = at[w] /\ Counts(w)
    BY <1>1, <1>2, <1>3 DEF Actors, RunsInv
  <2> QED
    BY <2>1 DEF Counts, workerVars
<1> QED
  BY <1>4, <1>5, <1>6, <1>7, <1>8 DEF RunsInv

\* A worker is built for the tab of the one who builds it.
LEMMA RunsInsertSender ==
    ASSUME Constants, IInv, RunsInv, NEW a \in Actors, InsertSender(a)
    PROVE  RunsInv'
<1>1. PICK w \in Workers :
        /\ pc[a] = "insert" /\ pc[w] = "unused"
        /\ child' = [child EXCEPT ![a] = w] /\ at' = [at EXCEPT ![w] = at[a]]
        /\ pc' = [pc EXCEPT ![a] = "launch", ![w] = "built"]
  BY DEF InsertSender
<1>2. UNCHANGED <<ctl, attempts, cancelled, exit, stable, autoRuns>>
  BY DEF InsertSender, workerVars
<1>3. w \in Actors /\ w # a
  BY <1>1 DEF Actors
<1>4. pc'[a] = "launch" /\ pc'[w] = "built" /\ \A b \in Actors \ {a, w} : pc'[b] = pc[b]
  BY <1>1, <1>3 DEF IInv, Shapes
<1>5. at'[w] = at[a] /\ \A b \in Actors \ {w} : at'[b] = at[b]
  BY <1>1, <1>3 DEF IInv, Shapes
<1>6. child'[a] = w /\ \A b \in Actors \ {a} : child'[b] = child[b]
  BY <1>1 DEF IInv, Shapes
<1>7. RunsTypes' /\ RunsWithin'
  BY <1>2 DEF RunsInv, RunsTypes, RunsWithin
<1>8. Alone'
  <2> SUFFICES ASSUME NEW b \in Actors, NEW d \in Actors, Acting(b)', Acting(d)', at'[b] = at'[d]
               PROVE  b = d
    BY DEF Alone
  <2>1. b # w /\ d # w
    BY <1>4 DEF Acting
  <2>2. Acting(b) /\ Acting(d)
    BY <1>1, <1>4, <2>1 DEF Acting
  <2> QED
    BY <1>5, <2>1, <2>2 DEF RunsInv, Alone
<1>9. Opens'
  <2>1. \A d \in Cmds : pc'[d] \in {"idle", "failOp", "attach", "push", "insert", "launch", "done"}
    BY <1>4 DEF RunsInv, Opens, Actors, Constants
  <2>2. ASSUME NEW b \in Actors, pc'[b] = "launch"
        PROVE  child'[b] \in Workers /\ pc'[child'[b]] = "built" /\ at'[child'[b]] = at'[b]
    <3>1. CASE b = a
      BY <1>3, <1>4, <1>5, <1>6, <3>1
    <3>2. CASE b # a
      <4>1. b # w /\ pc[b] = "launch"
        BY <1>4, <2>2, <3>2
      <4>2. child[b] \in Workers /\ pc[child[b]] = "built" /\ at[child[b]] = at[b]
        BY <4>1 DEF RunsInv, Opens
      <4>3. child[b] \in Actors \ {a, w}
        BY <1>1, <4>2 DEF Actors
      <4> QED
        BY <1>4, <1>5, <1>6, <3>2, <4>1, <4>2, <4>3
    <3> QED
      BY <3>1, <3>2
  <2> QED
    BY <2>1, <2>2 DEF Opens
<1>10. Tokens'
  <2> SUFFICES ASSUME NEW t \in Tabs, ctl[t] # None
               PROVE  ctl[t] \in Workers /\ at'[ctl[t]] = t /\ pc'[ctl[t]] \notin {"idle", "unused", "built"}
    BY <1>2 DEF Tokens
  <2>1. ctl[t] \in Workers /\ at[ctl[t]] = t /\ pc[ctl[t]] \notin {"idle", "unused", "built"}
    BY DEF RunsInv, Tokens
  <2>2. ctl[t] \in Actors \ {w}
    BY <1>1, <2>1 DEF Actors
  <2> QED
    BY <1>4, <1>5, <2>1, <2>2
<1>11. ASSUME NEW v \in Workers PROVE Counts(v)'
  <2>1. Counts(v)
    BY DEF RunsInv
  <2>2. CASE v = w
    BY <1>1, <1>2, <1>4, <2>1, <2>2 DEF Counts
  <2>3. CASE v = a
    BY <1>1, <1>2, <1>4, <2>1, <2>3 DEF Counts
  <2>4. CASE v \notin {a, w}
    <3>1. pc'[v] = pc[v] /\ at'[v] = at[v]
      BY <1>4, <1>5, <2>4 DEF Actors
    <3> QED
      BY <1>2, <2>1, <3>1 DEF Counts
  <2> QED
    BY <2>2, <2>3, <2>4
<1> QED
  BY <1>7, <1>8, <1>9, <1>10, <1>11 DEF RunsInv

\* The tab passes to the worker that was built.
LEMMA RunsLaunch ==
    ASSUME Constants, IInv, RunsInv, NEW a \in Actors, Launch(a)
    PROVE  RunsInv'
<1> DEFINE w == child[a]
<1>1. /\ pc[a] = "launch" /\ ctl' = [ctl EXCEPT ![at[a]] = w]
      /\ pc' = [pc EXCEPT ![a] = "done", ![w] = "starting"]
      /\ child' = [child EXCEPT ![a] = None]
      /\ UNCHANGED <<at, attempts, cancelled, exit, stable, autoRuns>>
  BY DEF Launch, workerVars
<1>2. w \in Workers /\ pc[w] = "built" /\ at[w] = at[a]
  BY <1>1 DEF RunsInv, Opens
<1> HIDE DEF w
<1>3. w \in Actors /\ w # a
  BY <1>1, <1>2 DEF Actors
<1>4. pc'[a] = "done" /\ pc'[w] = "starting" /\ \A b \in Actors \ {a, w} : pc'[b] = pc[b]
  BY <1>1, <1>3 DEF IInv, Shapes
<1>5. at[a] \in Tabs
  BY <1>1, OnATab
<1>6. ctl'[at[a]] = w /\ \A t \in Tabs : t # at[a] => ctl'[t] = ctl[t]
  BY <1>1, <1>5 DEF RunsInv, RunsTypes
<1>7. RunsTypes' /\ RunsWithin'
  BY <1>1 DEF RunsInv, RunsTypes, RunsWithin
<1>8. Alone'
  <2>1. ASSUME NEW b \in Actors, Acting(b)', b # w PROVE Acting(b) /\ b # a
    BY <1>4, <2>1 DEF Acting
  <2>2. Acting(a)
    BY <1>1 DEF Acting
  <2>3. ASSUME NEW b \in Actors, Acting(b)', b # w PROVE at[b] # at[w]
    BY <1>2, <2>1, <2>2, <2>3 DEF RunsInv, Alone
  <2> QED
    BY <1>1, <2>1, <2>3 DEF RunsInv, Alone
<1>9. Opens'
  <2>1. \A d \in Cmds : pc'[d] \in {"idle", "failOp", "attach", "push", "insert", "launch", "done"}
    BY <1>2, <1>4 DEF RunsInv, Opens, Actors, Constants
  <2>2. ASSUME NEW b \in Actors, pc'[b] = "launch"
        PROVE  child'[b] \in Workers /\ pc'[child'[b]] = "built" /\ at'[child'[b]] = at'[b]
    <3>1. b \notin {a, w} /\ pc[b] = "launch" /\ child'[b] = child[b]
      BY <1>1, <1>4, <2>2 DEF IInv, Shapes
    <3>2. child[b] \in Workers /\ pc[child[b]] = "built" /\ at[child[b]] = at[b]
      BY <3>1 DEF RunsInv, Opens
    <3>3. child[b] # w
      BY <1>1, <1>2, <3>1, <3>2 DEF RunsInv, Alone, Acting
    <3>4. child[b] \in Actors \ {a, w}
      BY <1>1, <3>2, <3>3 DEF Actors
    <3> QED
      BY <1>1, <1>4, <3>1, <3>2, <3>4
  <2> QED
    BY <2>1, <2>2 DEF Opens
<1>10. Tokens'
  <2> SUFFICES ASSUME NEW t \in Tabs, ctl'[t] # None
               PROVE  ctl'[t] \in Workers /\ at[ctl'[t]] = t /\ pc'[ctl'[t]] \notin {"idle", "unused", "built"}
    BY <1>1 DEF Tokens
  <2>1. CASE t = at[a]
    BY <1>2, <1>4, <1>6, <2>1
  <2>2. CASE t # at[a]
    <3>1. /\ ctl'[t] = ctl[t] /\ ctl[t] \in Workers /\ at[ctl[t]] = t
          /\ pc[ctl[t]] \notin {"idle", "unused", "built"}
      BY <1>6, <2>2 DEF RunsInv, Tokens
    <3>2. ctl[t] \in Actors
      BY <3>1 DEF Actors
    <3> QED
      BY <1>4, <3>1, <3>2
  <2> QED
    BY <2>1, <2>2
<1>11. ASSUME NEW v \in Workers PROVE Counts(v)'
  <2>1. Counts(v)
    BY DEF RunsInv
  <2>2. CASE v = w
    BY <1>1, <1>2, <1>4, <2>1, <2>2 DEF Counts
  <2>3. CASE v = a
    BY <1>1, <1>4, <2>1, <2>3 DEF Counts
  <2>4. CASE v \notin {a, w}
    <3>1. pc'[v] = pc[v]
      BY <1>4, <2>4 DEF Actors
    <3> QED
      BY <1>1, <2>1, <3>1 DEF Counts
  <2> QED
    BY <2>2, <2>3, <2>4
<1> QED
  BY <1>7, <1>8, <1>9, <1>10, <1>11 DEF RunsInv

\* The steps that change a count, an exit or a token.
LEMMA RunsStopControl ==
    ASSUME Constants, IInv, RunsInv, NEW a \in Actors, StopControl(a)
    PROVE  RunsInv'
<1>1. /\ pc[a] = "control" /\ Goto(a, "sender")
      /\ cancelled' = cancelled \cup ({ctl[at[a]]} \ {None})
      /\ ctl' = [ctl EXCEPT ![at[a]] = None]
      /\ UNCHANGED <<at, child, attempts, exit, stable, autoRuns>>
  BY DEF StopControl, cmdVars
<1>2. Acting(a) /\ at[a] \in Tabs
  BY <1>1, OnATab DEF Acting
<1>3. pc'[a] = "sender"
  BY <1>1 DEF IInv, Shapes, Goto
<1>4. ASSUME NEW w \in Workers \ {a}, w \in cancelled' PROVE w \in cancelled \/ pc[w] = "done"
  <2>1. CASE w \in cancelled
    BY <2>1
  <2>2. CASE w = ctl[at[a]] /\ w # None
    <3>1. at[w] = at[a] /\ pc[w] \notin {"idle", "unused", "built"}
      BY <1>2, <2>2 DEF RunsInv, Tokens
    <3>2. ~Acting(w)
      BY <1>2, <1>4, <3>1 DEF RunsInv, Alone, Actors
    <3>3. pc[w] # "idle"
      BY <1>2, <2>2 DEF RunsInv, Tokens
    <3> QED
      BY <3>1, <3>2, <3>3 DEF Acting
  <2> QED
    BY <1>1, <1>4, <2>1, <2>2
<1>5. Others(a)
  BY <1>1, <1>4 DEF Others, RunsInv, RunsTypes
<1>6. RunsTypes' /\ RunsWithin'
  BY <1>1 DEF RunsInv, RunsTypes, RunsWithin
<1>7. a \in Workers => Counts(a)'
  BY <1>1, <1>3 DEF RunsInv, Counts
<1>8. a \notin Cmds
  BY <1>1 DEF RunsInv, Opens
<1> QED
  BY <1>1, <1>2, <1>5, <1>6, <1>7, <1>8, RunsMove

\* Opening fails, or the connection ends; a stable one clears the history.
LEMMA RunsEnds ==
    ASSUME Constants, IInv, RunsInv, NEW w \in Workers, Goto(w, "ended"), pc[w] \in {"starting", "up"},
           UNCHANGED <<at, child, ctl, attempts, cancelled>>,
           NEW e, exit' = [exit EXCEPT ![w] = e], e # "none",
           \/ UNCHANGED <<stable, autoRuns>>
           \/ stable' = stable \cup {w} /\ autoRuns' = [autoRuns EXCEPT ![at[w]] = 0]
    PROVE  RunsInv'
<1>1. w \in Actors /\ at[w] \in Tabs /\ w \notin Cmds /\ Acting(w)
  BY OnATab DEF Acting, Actors, Constants
<1>2. pc'[w] = "ended" /\ exit'[w] = e /\ \A v \in Workers \ {w} : exit'[v] = exit[v]
  BY <1>1 DEF IInv, Shapes, Goto, RunsInv, RunsTypes
<1>3. Counts(w) /\ exit[w] = "none" /\ w \notin stable /\ w \notin cancelled
  BY DEF RunsInv, Counts
<1>4. /\ \A t \in Tabs : autoRuns'[t] = autoRuns[t] \/ (t = at[w] /\ autoRuns'[t] = 0)
      /\ w \in stable' => autoRuns'[at[w]] = 0
  BY <1>1, <1>3 DEF RunsInv, RunsTypes
<1>5. Others(w)
  BY <1>2, <1>4 DEF Others
<1>6. RunsTypes'
  BY <1>1 DEF RunsInv, RunsTypes
<1>7. RunsWithin'
  <2> SUFFICES ASSUME NEW t \in Tabs
               PROVE  autoRuns'[t] <= attempts[t] /\ attempts[t] <= Limit
    BY DEF RunsWithin, Limit
  <2>1. autoRuns[t] <= attempts[t] /\ attempts[t] <= Limit /\ attempts[t] \in Nat
    BY DEF RunsInv, RunsWithin, RunsTypes
  <2> QED
    BY <1>4, <2>1
<1>8. Counts(w)'
  BY <1>1, <1>2, <1>3, <1>4 DEF Counts
<1> QED
  BY <1>1, <1>5, <1>6, <1>7, <1>8, RunsMove

\* A stable connection starts the count of attempts anew, and the history with it.
LEMMA RunsJudgeExit ==
    ASSUME Constants, OnlyOpening, IInv, RunsInv, NEW w \in Workers, JudgeExit(w)
    PROVE  RunsInv'
<1>1. /\ pc[w] = "ended" /\ UNCHANGED <<at, child, ctl, cancelled, exit, stable, autoRuns>>
      /\ attempts' = [attempts EXCEPT ![at[w]] = IF w \in cancelled \cup stable THEN 0 ELSE @]
  BY DEF JudgeExit, workerVars, cmdVars
<1>2. PICK l \in {"done", "report", "markTab"} : Goto(w, l)
  BY DEF JudgeExit
<1>3. w \in Actors /\ at[w] \in Tabs /\ w \notin Cmds /\ Acting(w)
  BY <1>1, OnATab DEF Acting, Actors, Constants
<1>4. w \notin cancelled /\ (w \in stable => autoRuns[at[w]] = 0) /\ Counts(w)
  BY <1>1 DEF RunsInv, Counts
<1>5. \A t \in Tabs : attempts'[t] = IF w \in stable /\ t = at[w] THEN 0 ELSE attempts[t]
  BY <1>1, <1>4 DEF RunsInv, RunsTypes
<1>6. Others(w)
  BY <1>1, <1>5 DEF Others
<1>7. RunsTypes'
  BY <1>1, <1>3 DEF RunsInv, RunsTypes
<1>8. RunsWithin'
  <2>1. Limit \in Nat
    BY DEF OnlyOpening, Limit
  <2> SUFFICES ASSUME NEW t \in Tabs
               PROVE  autoRuns[t] <= attempts'[t] /\ attempts'[t] <= Limit
    BY <1>1 DEF RunsWithin, Limit
  <2>2. autoRuns[t] <= attempts[t] /\ attempts[t] <= Limit
    BY DEF RunsInv, RunsWithin
  <2>3. CASE w \in stable /\ t = at[w]
    BY <1>4, <1>5, <2>1, <2>3
  <2>4. CASE ~(w \in stable /\ t = at[w])
    BY <1>5, <2>2, <2>4
  <2> QED
    BY <2>3, <2>4
<1>9. Counts(w)'
  <2>1. pc'[w] = l
    BY <1>2, <1>3 DEF IInv, Shapes, Goto
  <2> QED
    BY <1>1, <1>3, <1>4, <1>5, <2>1 DEF Counts
<1> QED
  BY <1>1, <1>2, <1>3, <1>6, <1>7, <1>8, <1>9, RunsMove

\* An attempt is made only while one is left; a stable connection begins at none.
LEMMA RunsSchedule ==
    ASSUME Constants, OnlyOpening, IInv, RunsInv, NEW w \in Workers, ScheduleReconnect(w)
    PROVE  RunsInv'
<1>1. pc[w] = "policy" /\ UNCHANGED <<at, child, ctl, cancelled, stable>>
  BY DEF ScheduleReconnect, cmdVars
<1>2. w \in Actors /\ at[w] \in Tabs /\ w \notin Cmds /\ Acting(w)
  BY <1>1, OnATab DEF Acting, Actors, Constants
<1>3. w \notin cancelled /\ (w \in stable => attempts[at[w]] = 0) /\ Counts(w)
  BY <1>1 DEF RunsInv, Counts
<1>4. CASE Goto(w, "done") /\ UNCHANGED <<attempts, exit, autoRuns>>
  BY <1>1, <1>2, <1>3, <1>4, RunsMoveQuietly DEF workerVars
<1>5. CASE exit' = [exit EXCEPT ![w] = "limit"] /\ Goto(w, "markTab") /\ UNCHANGED <<attempts, autoRuns>>
  <2>1. pc'[w] = "markTab" /\ exit'[w] = "limit" /\ \A v \in Workers \ {w} : exit'[v] = exit[v]
    BY <1>2, <1>5 DEF IInv, Shapes, Goto, RunsInv, RunsTypes
  <2>2. Others(w) /\ RunsTypes' /\ RunsWithin'
    BY <1>1, <1>5, <2>1 DEF Others, RunsInv, RunsTypes, RunsWithin
  <2>3. Counts(w)'
    BY <1>1, <1>3, <1>5, <2>1 DEF Counts
  <2> QED
    BY <1>1, <1>2, <1>5, <2>2, <2>3, RunsMove
<1>6. CASE /\ AttemptLeft(w) /\ attempts' = [attempts EXCEPT ![at[w]] = NextAttempt(w)]
           /\ autoRuns' = [autoRuns EXCEPT ![at[w]] = @ + 1]
           /\ Goto(w, "delay") /\ UNCHANGED exit
  <2>1. pc'[w] = "delay"
    BY <1>2, <1>6 DEF IInv, Shapes, Goto
  <2>2. \A t \in Tabs : IF t = at[w] THEN attempts'[t] = attempts[t] + 1 /\ autoRuns'[t] = autoRuns[t] + 1
                                     ELSE attempts'[t] = attempts[t] /\ autoRuns'[t] = autoRuns[t]
    BY <1>6 DEF RunsInv, RunsTypes, NextAttempt
  <2>3. Others(w)
    BY <1>1, <1>6, <2>2 DEF Others
  <2>4. RunsTypes'
    BY <1>1, <1>2, <1>6 DEF RunsInv, RunsTypes, NextAttempt
  <2>5. attempts[at[w]] + 1 <= Limit
    <3>1. attempts[at[w]] \in Nat
      BY <1>2 DEF RunsInv, RunsTypes
    <3> QED
      BY <1>3, <1>6, <3>1 DEF AttemptLeft, NextAttempt, Limit, OnlyOpening
  <2>6. RunsWithin'
    <3> SUFFICES ASSUME NEW t \in Tabs
                 PROVE  autoRuns'[t] <= attempts'[t] /\ attempts'[t] <= Limit
      BY DEF RunsWithin, Limit
    <3>1. /\ autoRuns[t] <= attempts[t] /\ attempts[t] <= Limit
          /\ autoRuns[t] \in Nat /\ attempts[t] \in Nat
      BY DEF RunsInv, RunsWithin, RunsTypes
    <3> QED
      BY <2>2, <2>5, <3>1
  <2>7. Counts(w)'
    BY <1>1, <1>3, <1>6, <2>1 DEF Counts
  <2> QED
    BY <1>1, <1>2, <1>6, <2>3, <2>4, <2>6, <2>7, RunsMove
<1> QED
  BY <1>4, <1>5, <1>6 DEF ScheduleReconnect

LEMMA RunsCommand ==
    ASSUME Constants, OnlyOpening, IInv, RunsInv, NEW c \in Cmds,
           BeginOpen(c) \/ BeginRequest(c) \/ BeginOnTab(c) \/ CommandStep(c)
    PROVE  RunsInv'
<1>1. c \in Actors /\ c \notin Workers
  BY DEF Actors, Constants
<1>2. pc[c] \in {"idle", "failOp", "attach", "push", "insert", "launch", "done"}
  BY DEF RunsInv, Opens
<1>3. CASE BeginOpen(c)
  BY <1>3, RunsBeginOpen DEF BeginOpen, maps
<1>4. CASE BeginRequest(c)
  <2>1. PICK t \in Tabs :
          /\ pc[c] = "idle" /\ \A a \in Actors : at[a] # t
          /\ UNCHANGED <<child, ctl, attempts, workerVars>>
          /\ \/ Goto(c, "done") /\ UNCHANGED at
             \/ at' = [at EXCEPT ![c] = t] /\ \E l \in {"attach", "failOp"} : Goto(c, l)
    BY <1>4 DEF BeginRequest
  <2>2. CASE at' = [at EXCEPT ![c] = t] /\ \E l \in {"attach", "failOp"} : Goto(c, l)
    BY <2>1, <2>2, RunsBeginOpen
  <2>3. CASE Goto(c, "done") /\ UNCHANGED at
    <3>1. pc'[c] = "done" /\ \A b \in Actors : b # c => pc'[b] = pc[b]
      BY <1>1, <2>3 DEF IInv, Shapes, Goto
    <3>2. Alone'
      BY <2>3, <3>1 DEF RunsInv, Alone, Acting
    <3>3. Opens'
      <4>1. \A d \in Cmds : pc'[d] \in {"idle", "failOp", "attach", "push", "insert", "launch", "done"}
        BY <3>1 DEF RunsInv, Opens, Actors
      <4>2. ASSUME NEW b \in Actors, pc'[b] = "launch"
            PROVE  child'[b] \in Workers /\ pc'[child'[b]] = "built" /\ at'[child'[b]] = at'[b]
        <5>1. pc[b] = "launch"
          BY <3>1, <4>2
        <5>2. child[b] \in Workers /\ pc[child[b]] = "built" /\ at[child[b]] = at[b]
          BY <5>1 DEF RunsInv, Opens
        <5> QED
          BY <1>1, <2>1, <2>3, <3>1, <5>2 DEF Actors
      <4> QED
        BY <4>1, <4>2 DEF Opens
    <3>4. Tokens'
      BY <1>1, <2>1, <2>3, <3>1 DEF RunsInv, Tokens, Actors
    <3>5. ASSUME NEW w \in Workers PROVE Counts(w)'
      <4>1. pc'[w] = pc[w] /\ Counts(w)
        BY <1>1, <3>1 DEF Actors, RunsInv
      <4> QED
        BY <2>1, <2>3, <4>1 DEF Counts, workerVars
    <3>6. RunsTypes' /\ RunsWithin'
      BY <2>1 DEF RunsInv, RunsTypes, RunsWithin, workerVars
    <3> QED
      BY <3>2, <3>3, <3>4, <3>5, <3>6 DEF RunsInv
  <2> QED
    BY <2>1, <2>2, <2>3
<1>5. ~BeginOnTab(c)
  BY DEF BeginOnTab, OnlyOpening
<1>6. CASE FailOperation(c)
  BY <1>1, <1>6, RunsMoveQuietly DEF FailOperation, cmdVars, Acting, RunsInv
<1>7. CASE AttachOperation(c)
  <2>1. \E l \in {"push", "failOp"} : Goto(c, l)
    BY <1>7 DEF AttachOperation
  <2>2. pc[c] = "attach" /\ UNCHANGED <<at, child, ctl, attempts, workerVars>>
    BY <1>7 DEF AttachOperation, cmdVars
  <2> QED
    BY <1>1, <2>1, <2>2, RunsMoveQuietly DEF Acting
<1>8. CASE PushTab(c)
  BY <1>1, <1>8, RunsMoveQuietly DEF PushTab, cmdVars, Acting
<1> QED
  BY <1>2, <1>3, <1>4, <1>5, <1>6, <1>7, <1>8
     DEF CommandStep, PauseTransfers, ForgetAttempts, RemoveTab, MarkClosed, NoticeTab,
         NoticeSession, NoticePublish

LEMMA RunsReconnect ==
    ASSUME Constants, OnlyOpening, IInv, RunsInv, NEW a \in Actors, ReconnectStep(a)
    PROVE  RunsInv'
<1>1. a \in Cmds => pc[a] \in {"idle", "failOp", "attach", "push", "insert", "launch", "done"}
  BY DEF RunsInv, Opens
<1>2. a \in Workers => Counts(a)
  BY DEF RunsInv
<1>3. CASE ReadTab(a)
  <2>1. \E l \in {"claim", "done"} : Goto(a, l)
    BY <1>3 DEF ReadTab
  <2>2. pc[a] = "read" /\ UNCHANGED <<at, child, ctl, attempts, workerVars>>
    BY <1>3 DEF ReadTab, cmdVars, maps
  <2> QED
    BY <1>1, <1>2, <2>1, <2>2, RunsMoveQuietly DEF Acting, Counts
<1>4. CASE ClaimReconnect(a)
  <2>1. \E l \in {"forget", "done"} : Goto(a, l)
    BY <1>4 DEF ClaimReconnect
  <2>2. pc[a] = "claim" /\ UNCHANGED <<at, child, ctl, attempts, workerVars>>
    BY <1>4 DEF ClaimReconnect, cmdVars
  <2> QED
    BY <1>1, <1>2, <2>1, <2>2, RunsMoveQuietly DEF Acting, Counts
<1>5. CASE StopForget(a)
  <2>1. pc[a] = "forget" /\ Goto(a, "control") /\ UNCHANGED <<at, child, ctl, attempts, workerVars>>
    BY <1>5 DEF StopForget, cmdVars
  <2> QED
    BY <1>1, <1>2, <2>1, RunsMoveQuietly DEF Acting, Counts
<1>6. CASE StopControl(a)
  BY <1>6, RunsStopControl
<1>7. CASE StopSender(a)
  <2>1. \E l \in {"reset", "forgetAttempts"} : Goto(a, l)
    BY <1>7 DEF StopSender
  <2>2. pc[a] = "sender" /\ UNCHANGED <<at, child, ctl, attempts, workerVars>>
    BY <1>7 DEF StopSender, cmdVars
  <2> QED
    BY <1>1, <1>2, <2>1, <2>2, RunsMoveQuietly DEF Acting, Counts
<1>8. CASE ResetSession(a)
  <2>1. pc[a] = "reset" /\ Goto(a, "insert") /\ UNCHANGED <<at, child, ctl, attempts, workerVars>>
    BY <1>8 DEF ResetSession, cmdVars
  <2> QED
    BY <1>1, <1>2, <2>1, RunsMoveQuietly DEF Acting, Counts
<1>9. CASE InsertSender(a)
  BY <1>9, RunsInsertSender
<1>10. CASE Launch(a)
  BY <1>10, RunsLaunch
<1> QED
  BY <1>3, <1>4, <1>5, <1>6, <1>7, <1>8, <1>9, <1>10 DEF ReconnectStep

LEMMA RunsSupervisor ==
    ASSUME Constants, OnlyOpening, IInv, RunsInv, NEW w \in Workers,
           SupervisorStep(w) \/ LeaveLoop(w)
    PROVE  RunsInv'
<1>1. w \in Actors /\ w \notin Cmds /\ Counts(w)
  BY DEF Actors, Constants, RunsInv
<1>2. CASE OpenSession(w)
  <2>1. pc[w] = "starting" /\ UNCHANGED <<at, child, ctl, attempts, cancelled, stable, autoRuns>>
    BY <1>2 DEF OpenSession, cmdVars, maps
  <2>2. CASE Goto(w, "snapshot") /\ UNCHANGED exit
    BY <1>1, <2>1, <2>2, RunsMoveQuietly DEF Acting, Counts, workerVars
  <2>3. CASE exit' = [exit EXCEPT ![w] = "startup"] /\ Goto(w, "ended")
    BY <2>1, <2>3, RunsEnds
  <2> QED
    BY <1>2, <2>2, <2>3 DEF OpenSession
<1>3. CASE SnapshotSession(w)
  <2>1. pc[w] = "snapshot" /\ Goto(w, "markTab") /\ UNCHANGED <<at, child, ctl, attempts, workerVars>>
    BY <1>3 DEF SnapshotSession, cmdVars
  <2> QED
    BY <1>1, <2>1, RunsMoveQuietly DEF Acting, Counts
<1>4. CASE JudgeExit(w)
  BY <1>4, RunsJudgeExit
<1>5. CASE ReportFailure(w)
  <2>1. pc[w] = "report" /\ Goto(w, "markTab") /\ UNCHANGED <<at, child, ctl, attempts, workerVars>>
    BY <1>5 DEF ReportFailure, cmdVars
  <2> QED
    BY <1>1, <2>1, RunsMoveQuietly DEF Acting, Counts
<1>6. CASE MarkTab(w)
  <2>1. pc[w] = "markTab" /\ Goto(w, "markSession") /\ UNCHANGED <<at, child, ctl, attempts, workerVars>>
    BY <1>6 DEF MarkTab, cmdVars
  <2> QED
    BY <1>1, <2>1, RunsMoveQuietly DEF Acting, Counts
<1>7. CASE MarkSession(w)
  <2>1. pc[w] = "markSession" /\ UNCHANGED <<at, child, ctl, attempts, workerVars>>
    BY <1>7 DEF MarkSession, cmdVars
  <2>2. (Goto(w, "up") /\ exit[w] = "none") \/ Goto(w, "markPublish")
    BY <1>7 DEF MarkSession
  <2> QED
    BY <1>1, <2>1, <2>2, RunsMoveQuietly DEF Acting, Counts
<1>8. CASE MarkPublish(w)
  <2>1. pc[w] = "markPublish" /\ UNCHANGED <<at, child, ctl, attempts, workerVars>>
    BY <1>8 DEF MarkPublish, cmdVars
  <2>2. Goto(w, "done") \/ Goto(w, "policy")
    BY <1>8 DEF MarkPublish
  <2> QED
    BY <1>1, <2>1, <2>2, RunsMoveQuietly DEF Acting, Counts
<1>9. CASE ScheduleReconnect(w)
  BY <1>9, RunsSchedule
<1>10. CASE WaitDelay(w)
  <2>1. pc[w] = "delay" /\ UNCHANGED <<at, child, ctl, attempts, workerVars>>
    BY <1>10 DEF WaitDelay, cmdVars, maps
  <2>2. Goto(w, "done") \/ Goto(w, "recheck")
    BY <1>10 DEF WaitDelay
  <2> QED
    BY <1>1, <2>1, <2>2, RunsMoveQuietly DEF Acting, Counts
<1>11. CASE Recheck(w)
  <2>1. pc[w] = "recheck" /\ UNCHANGED <<at, child, ctl, attempts, workerVars>>
    BY <1>11 DEF Recheck, maps
  <2>2. Goto(w, "done") \/ Goto(w, "read")
    BY <1>11 DEF Recheck
  <2> QED
    BY <1>1, <2>1, <2>2, RunsMoveQuietly DEF Acting, Counts
<1>12. CASE LeaveLoop(w)
  <2>1. /\ pc[w] = "up" /\ Goto(w, "ended")
        /\ UNCHANGED <<at, child, ctl, attempts, cancelled>>
    BY <1>12 DEF LeaveLoop, cmdVars, maps
  <2>2. CASE exit' = [exit EXCEPT ![w] = "input"] /\ UNCHANGED <<stable, autoRuns>>
    BY <2>1, <2>2, RunsEnds
  <2>3. CASE \E s \in BOOLEAN :
               /\ exit' \in {[exit EXCEPT ![w] = e] : e \in {"transport", "shell"}}
               /\ stable' = IF s THEN stable \cup {w} ELSE stable
               /\ autoRuns' = IF s THEN [autoRuns EXCEPT ![at[w]] = 0] ELSE autoRuns
    <3>1. PICK e \in {"transport", "shell"} :
            /\ exit' = [exit EXCEPT ![w] = e]
            /\ \/ UNCHANGED <<stable, autoRuns>>
               \/ stable' = stable \cup {w} /\ autoRuns' = [autoRuns EXCEPT ![at[w]] = 0]
      BY <2>3
    <3>2. e # "none"
      OBVIOUS
    <3> QED
      BY <2>1, <3>1, <3>2, RunsEnds
  <2> QED
    BY <1>12, <2>2, <2>3 DEF LeaveLoop
<1> QED
  BY <1>2, <1>3, <1>4, <1>5, <1>6, <1>7, <1>8, <1>9, <1>10, <1>11, <1>12 DEF SupervisorStep

LEMMA RunsNext == Constants /\ OnlyOpening => (IInv /\ RunsInv /\ [Next]_vars => RunsInv')
<1> SUFFICES ASSUME Constants, OnlyOpening, IInv, RunsInv, [Next]_vars PROVE RunsInv'
  OBVIOUS
<1>1. ASSUME UNCHANGED <<pc, at, child, ctl, attempts, workerVars>> PROVE RunsInv'
  BY <1>1 DEF RunsInv, RunsTypes, Alone, Acting, Opens, Tokens, RunsWithin, Counts, workerVars
<1>2. CASE UNCHANGED vars
  BY <1>1, <1>2 DEF vars, workerVars
<1>3. ASSUME NEW o \in Ops, AgeOperation(o) PROVE RunsInv'
  BY <1>1, <1>3 DEF AgeOperation, cmdVars
<1> QED
  BY <1>2, <1>3, RunsCommand, RunsReconnect, RunsSupervisor DEF Next

LEMMA RunsSufficient == OnlyOpening => (RunsInv => AutomaticRunsBounded)
<1> SUFFICES ASSUME OnlyOpening, RunsInv, NEW t \in Tabs PROVE autoRuns[t] <= Limit
  BY DEF AutomaticRunsBounded
<1>1. autoRuns[t] \in Nat /\ attempts[t] \in Nat /\ Limit \in Nat
  BY DEF RunsInv, RunsTypes, OnlyOpening, Limit
<1> QED
  BY <1>1 DEF RunsInv, RunsWithin

\* While tabs are only opened, however their connections fail, no tab sets
\* out to reconnect by itself more often than its limit says.
THEOREM AutomaticRuns ==
    Constants /\ OnlyOpening => (Spec => []AutomaticRunsBounded)
<1> SUFFICES ASSUME Constants, OnlyOpening PROVE Spec => []AutomaticRunsBounded
  OBVIOUS
<1>1. Init => IInv /\ RunsInv
  BY InitInv, RunsInit
<1>2. IInv /\ RunsInv /\ [Next]_vars => IInv' /\ RunsInv'
  BY NextInv, RunsNext
<1>3. RunsInv => AutomaticRunsBounded
  BY RunsSufficient
<1> QED
  BY <1>1, <1>2, <1>3, PTL DEF Spec
===============================================================================
