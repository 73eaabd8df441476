-------------------------- MODULE MCTransferRunsProofs --------------------------
(***************************************************************************)
(* The theorem about monitoring, of the instances that are run beside the  *)
(* transfers: what MonitoringProofs shows for every value of the constants *)
(* holds of every behaviour of the composition.                            *)
(***************************************************************************)
EXTENDS MCTransferRuns, TLAPS

MonitorProofs == INSTANCE MonitoringProofs WITH
                     conn <- link, call <- switch, cancelled <- ended, opened <- openings,
                     Gens <- {1}, Calls <- {1, 2}, MaxAttempts <- 1, Sustain <- 1,
                     Changes <- 1, Crashes <- 1
RegainProofs == INSTANCE MonitoringProofs WITH
                    conn <- link, call <- switch, cancelled <- ended, opened <- openings,
                    Gens <- {1, 2}, Calls <- {1}, MaxAttempts <- 0, Sustain <- 1,
                    Changes <- 0, Crashes <- 0

LEMMA MonitorSame ==
    /\ Monitor!Init <=> MonitorProofs!Init
    /\ Monitor!Next => MonitorProofs!Next
    /\ MonitorProofs!TypeOK /\ MonitorProofs!MonitoringSound => Monitor!TypeOK /\ Monitor!MonitoringSound
<1>1. Monitor!Init <=> MonitorProofs!Init
  BY DEF Monitor!Init, MonitorProofs!Init, Monitor!Nothing, MonitorProofs!Nothing, Monitor!Fresh,
     MonitorProofs!Fresh
<1>2. Monitor!Next => MonitorProofs!Next
  BY DEF Monitor!tab, MonitorProofs!tab, Monitor!seen, MonitorProofs!seen, Monitor!controls,
     MonitorProofs!controls, Monitor!channels, MonitorProofs!channels, Monitor!past,
     MonitorProofs!past, Monitor!Nothing, MonitorProofs!Nothing, Monitor!Fresh,
     MonitorProofs!Fresh, Monitor!Phases, MonitorProofs!Phases, Monitor!Final,
     MonitorProofs!Final, Monitor!Connected, MonitorProofs!Connected, Monitor!LeftWork,
     MonitorProofs!LeftWork, Monitor!Connect, MonitorProofs!Connect, Monitor!Allowed,
     MonitorProofs!Allowed, Monitor!Snapshot, MonitorProofs!Snapshot, Monitor!Spawn,
     MonitorProofs!Spawn, Monitor!Lose, MonitorProofs!Lose, Monitor!Shutdown,
     MonitorProofs!Shutdown, Monitor!Down, MonitorProofs!Down, Monitor!Configure,
     MonitorProofs!Configure, Monitor!Retry, MonitorProofs!Retry, Monitor!Answered,
     MonitorProofs!Answered, Monitor!SetEnabled, MonitorProofs!SetEnabled, Monitor!CallEnds,
     MonitorProofs!CallEnds, Monitor!Working, MonitorProofs!Working, Monitor!MayPublish,
     MonitorProofs!MayPublish, Monitor!At, MonitorProofs!At, Monitor!Publish,
     MonitorProofs!Publish, Monitor!Goes, MonitorProofs!Goes, Monitor!Gone, MonitorProofs!Gone,
     Monitor!Cancelled, MonitorProofs!Cancelled, Monitor!Mine, MonitorProofs!Mine,
     Monitor!NoSample, MonitorProofs!NoSample, Monitor!Torn, MonitorProofs!Torn,
     Monitor!Supervise, MonitorProofs!Supervise, Monitor!Top, MonitorProofs!Top, Monitor!Begin,
     MonitorProofs!Begin, Monitor!LeaveIdle, MonitorProofs!LeaveIdle, Monitor!Notice,
     MonitorProofs!Notice, Monitor!WorkEnds, MonitorProofs!WorkEnds, Monitor!Open,
     MonitorProofs!Open, Monitor!Asking, MonitorProofs!Asking, Monitor!Ask, MonitorProofs!Ask,
     Monitor!OpenFails, MonitorProofs!OpenFails, Monitor!Opened, MonitorProofs!Opened,
     Monitor!LateAnswer, MonitorProofs!LateAnswer, Monitor!LateClose, MonitorProofs!LateClose,
     Monitor!Setup, MonitorProofs!Setup, Monitor!ReadEnds, MonitorProofs!ReadEnds,
     Monitor!Sample, MonitorProofs!Sample, Monitor!Stall, MonitorProofs!Stall,
     Monitor!ClickWhilePaused, MonitorProofs!ClickWhilePaused, Monitor!Unsupported,
     MonitorProofs!Unsupported, Monitor!Ends, MonitorProofs!Ends, Monitor!Close,
     MonitorProofs!Close, Monitor!Failing, MonitorProofs!Failing, Monitor!After,
     MonitorProofs!After, Monitor!Resume, MonitorProofs!Resume, Monitor!LeaveWait,
     MonitorProofs!LeaveWait, Monitor!Panic, MonitorProofs!Panic, Monitor!ChildEnds,
     MonitorProofs!ChildEnds, Monitor!Rest, MonitorProofs!Rest, Monitor!Remove,
     MonitorProofs!Remove, Monitor!Next, MonitorProofs!Next
<1>3. MonitorProofs!TypeOK /\ MonitorProofs!MonitoringSound => Monitor!TypeOK /\ Monitor!MonitoringSound
  BY DEF Monitor!TypeOK, MonitorProofs!TypeOK, Monitor!MonitoringSound,
     MonitorProofs!MonitoringSound, Monitor!StopKept, MonitorProofs!StopKept, Monitor!OffIsOff,
     MonitorProofs!OffIsOff, Monitor!RetriesBounded, MonitorProofs!RetriesBounded,
     Monitor!OneChannel, MonitorProofs!OneChannel, Monitor!Reachable, MonitorProofs!Reachable,
     Monitor!Alive, MonitorProofs!Alive, Monitor!HasChannel, MonitorProofs!HasChannel,
     Monitor!Working, MonitorProofs!Working, Monitor!Phases, MonitorProofs!Phases
<1> QED
  BY <1>1, <1>2, <1>3

LEMMA RegainSame ==
    /\ Regain!Init <=> RegainProofs!Init
    /\ Regain!Next => RegainProofs!Next
    /\ RegainProofs!TypeOK /\ RegainProofs!MonitoringSound => Regain!TypeOK /\ Regain!MonitoringSound
<1>1. Regain!Init <=> RegainProofs!Init
  BY DEF Regain!Init, RegainProofs!Init, Regain!Nothing, RegainProofs!Nothing, Regain!Fresh,
     RegainProofs!Fresh
<1>2. Regain!Next => RegainProofs!Next
  BY DEF Regain!tab, RegainProofs!tab, Regain!seen, RegainProofs!seen, Regain!controls,
     RegainProofs!controls, Regain!channels, RegainProofs!channels, Regain!past,
     RegainProofs!past, Regain!Nothing, RegainProofs!Nothing, Regain!Fresh, RegainProofs!Fresh,
     Regain!Phases, RegainProofs!Phases, Regain!Final, RegainProofs!Final, Regain!Connected,
     RegainProofs!Connected, Regain!LeftWork, RegainProofs!LeftWork, Regain!Connect,
     RegainProofs!Connect, Regain!Allowed, RegainProofs!Allowed, Regain!Snapshot,
     RegainProofs!Snapshot, Regain!Spawn, RegainProofs!Spawn, Regain!Lose, RegainProofs!Lose,
     Regain!Shutdown, RegainProofs!Shutdown, Regain!Down, RegainProofs!Down, Regain!Configure,
     RegainProofs!Configure, Regain!Retry, RegainProofs!Retry, Regain!Answered,
     RegainProofs!Answered, Regain!SetEnabled, RegainProofs!SetEnabled, Regain!CallEnds,
     RegainProofs!CallEnds, Regain!Working, RegainProofs!Working, Regain!MayPublish,
     RegainProofs!MayPublish, Regain!At, RegainProofs!At, Regain!Publish, RegainProofs!Publish,
     Regain!Goes, RegainProofs!Goes, Regain!Gone, RegainProofs!Gone, Regain!Cancelled,
     RegainProofs!Cancelled, Regain!Mine, RegainProofs!Mine, Regain!NoSample,
     RegainProofs!NoSample, Regain!Torn, RegainProofs!Torn, Regain!Supervise,
     RegainProofs!Supervise, Regain!Top, RegainProofs!Top, Regain!Begin, RegainProofs!Begin,
     Regain!LeaveIdle, RegainProofs!LeaveIdle, Regain!Notice, RegainProofs!Notice,
     Regain!WorkEnds, RegainProofs!WorkEnds, Regain!Open, RegainProofs!Open, Regain!Asking,
     RegainProofs!Asking, Regain!Ask, RegainProofs!Ask, Regain!OpenFails, RegainProofs!OpenFails,
     Regain!Opened, RegainProofs!Opened, Regain!LateAnswer, RegainProofs!LateAnswer,
     Regain!LateClose, RegainProofs!LateClose, Regain!Setup, RegainProofs!Setup, Regain!ReadEnds,
     RegainProofs!ReadEnds, Regain!Sample, RegainProofs!Sample, Regain!Stall, RegainProofs!Stall,
     Regain!ClickWhilePaused, RegainProofs!ClickWhilePaused, Regain!Unsupported,
     RegainProofs!Unsupported, Regain!Ends, RegainProofs!Ends, Regain!Close, RegainProofs!Close,
     Regain!Failing, RegainProofs!Failing, Regain!After, RegainProofs!After, Regain!Resume,
     RegainProofs!Resume, Regain!LeaveWait, RegainProofs!LeaveWait, Regain!Panic,
     RegainProofs!Panic, Regain!ChildEnds, RegainProofs!ChildEnds, Regain!Rest,
     RegainProofs!Rest, Regain!Remove, RegainProofs!Remove, Regain!Next, RegainProofs!Next
<1>3. RegainProofs!TypeOK /\ RegainProofs!MonitoringSound => Regain!TypeOK /\ Regain!MonitoringSound
  BY DEF Regain!TypeOK, RegainProofs!TypeOK, Regain!MonitoringSound,
     RegainProofs!MonitoringSound, Regain!StopKept, RegainProofs!StopKept, Regain!OffIsOff,
     RegainProofs!OffIsOff, Regain!RetriesBounded, RegainProofs!RetriesBounded,
     Regain!OneChannel, RegainProofs!OneChannel, Regain!Reachable, RegainProofs!Reachable,
     Regain!Alive, RegainProofs!Alive, Regain!HasChannel, RegainProofs!HasChannel,
     Regain!Working, RegainProofs!Working, Regain!Phases, RegainProofs!Phases
<1> QED
  BY <1>1, <1>2, <1>3

\* Each part keeps its own invariant; the others stay as they begin.
PartInv ==
    /\ driven = "monitor" => MonitorProofs!IInv
    /\ driven = "regain" => RegainProofs!IInv

\* What the user or the settings stopped collects nothing, and the rest of what
\* MonitoringSound says, whatever part of the run is driven.
THEOREM MonitoringIsSound == PartsSpec => []MonitoringSound
<1>1. MonitorProofs!Constants /\ RegainProofs!Constants
  BY DEF MonitorProofs!Constants, RegainProofs!Constants
<1>2. PartsInit => PartInv
  BY <1>1, MonitorSame, RegainSame, MonitorProofs!InitInv, RegainProofs!InitInv DEF PartsInit, PartInv
<1>3. PartInv /\ [PartsNext]_<<driven, vars, monitorVars>> => PartInv'
  <2> SUFFICES ASSUME PartInv, [PartsNext]_<<driven, vars, monitorVars>> PROVE PartInv'
    OBVIOUS
  <2>1. driven' = driven
    BY DEF PartsNext
  <2>2. driven = "monitor" => MonitorProofs!Next \/ UNCHANGED monitorVars
    BY MonitorSame DEF PartsNext
  <2>3. driven = "regain" => RegainProofs!Next \/ UNCHANGED monitorVars
    BY RegainSame DEF PartsNext
  <2>4. UNCHANGED monitorVars => UNCHANGED MonitorProofs!vars /\ UNCHANGED RegainProofs!vars
    BY DEF monitorVars, MonitorProofs!vars, MonitorProofs!tab, MonitorProofs!seen,
           MonitorProofs!controls, MonitorProofs!channels, MonitorProofs!past, RegainProofs!vars,
           RegainProofs!tab, RegainProofs!seen, RegainProofs!controls, RegainProofs!channels,
           RegainProofs!past
  <2>5. driven = "monitor" => MonitorProofs!IInv'
    BY <1>1, <2>2, <2>4, MonitorProofs!NextInv DEF PartInv
  <2>6. driven = "regain" => RegainProofs!IInv'
    BY <1>1, <2>3, <2>4, RegainProofs!NextInv DEF PartInv
  <2> QED
    BY <2>1, <2>5, <2>6 DEF PartInv
<1>4. PartInv => MonitoringSound
  BY <1>1, MonitorSame, RegainSame, MonitorProofs!Sufficient, RegainProofs!Sufficient
     DEF PartInv, MonitoringSound
<1> QED
  BY <1>2, <1>3, <1>4, PTL DEF PartsSpec
===============================================================================
