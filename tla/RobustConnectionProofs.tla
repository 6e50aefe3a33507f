---------------------- MODULE RobustConnectionProofs ----------------------
(***************************************************************************)
(* Proofs about RobustConnection.tla, for any number of users, channels    *)
(* and underlay connections.                                               *)
(***************************************************************************)
EXTENDS RobustConnection, TLAPS

\* Every earlier underlay connection is gone for good: its close callbacks,
\* which set the close event, have run.
OldFinished == \A g \in Conns : g < made => conn[g] = "finished"

\* An attempt is under way only when the last connection is gone as well, and
\* one is due only when it is down.
AttemptIsDue ==
    made > 0 =>
       /\ task \in {"connect", "fail_cb"} => conn[made] = "finished"
       /\ task = "wait" /\ closeEvent => conn[made] = "finished"
       /\ task = "sleep" /\ closeEvent => conn[made] # "open"
       /\ task = "raise_close" => conn[made] # "open"
       /\ task \in {"none", "loop"} => closeCalled

\* After close() there is no factory that could connect.
FactoryStopped == closeCalled => task \in {"none", "loop", "cancelling", "done"}

\* The connection that is up is the transport, until close() takes it.
OpenIsTransport ==
    made > 0 /\ conn[made] = "open" => ~closeCalled /\ transport = made

\* The inductive invariant, when no close callback outlasts the pause before
\* the next attempt.
ConnInv == TypeOK /\ OldFinished /\ AttemptIsDue /\ FactoryStopped /\ OpenIsTransport

-----------------------------------------------------------------------------
\* Every step of a user keeps the state well formed.
LEMMA UserTypes ==
  ASSUME TypeOK, NEW u \in Users, UserStep(u)
  PROVE  TypeOK'
<1> USE ConnectionAssumption
<1>1. CASE Connect(u) \/ FailFastDone(u) \/ ReconnectGoesOn(u)
  BY <1>1 DEF TypeOK, Connect, FailFastDone, ReconnectGoesOn, ConnectBody,
              AfterFailFast, TaskStates, UserStates, Conns
<1>2. CASE CancelConnect(u)
  BY <1>2 DEF TypeOK, CancelConnect, UserStates, Conns
<1>3. CASE Reconnect(u)
  <2>1. mishap' \in BOOLEAN
    BY <1>3, Zenon DEF TypeOK, Reconnect, GoesDown
  <2> QED BY <1>3, <2>1
          DEF TypeOK, Reconnect, ConnectBody, AfterFailFast, GoesDown, CloseUnderlay,
              TaskStates, UserStates, Conns, ConnStates
<1>4. ASSUME NEW c \in Channels, Channel(u, c) PROVE TypeOK'
  BY <1>4 DEF TypeOK, Channel, Conns
<1>5. CASE Close(u) \/ FactoryGathered(u)
  <2>1. transport' \in {0, made} /\ task' \in TaskStates
    BY <1>5 DEF TypeOK, Close, FactoryGathered, SuperClose, TaskStates
  <2>2. closeCalled' \in BOOLEAN /\ closed' \in BOOLEAN
    BY <1>5, Zenon DEF TypeOK, Close, FactoryGathered, SuperClose
  <2>3. user' \in [Users -> UserStates]
    BY <1>5 DEF TypeOK, Close, FactoryGathered, SuperClose, UserStates
  <2>4. conn' = conn \/ \E g \in Conns : CloseUnderlay(g) /\ g <= made
    BY <1>5 DEF TypeOK, Close, FactoryGathered, SuperClose, Conns
  <2>5. conn' \in [Conns -> ConnStates] /\ \A g \in Conns : conn'[g] # "none" <=> g <= made
    BY <2>4 DEF TypeOK, CloseUnderlay, ConnStates
  <2>6. UNCHANGED <<made, connected, closeEvent, failFast, attempts, channels, todo, mishap>>
    BY <1>5 DEF Close, FactoryGathered
  <2> QED BY <2>1, <2>2, <2>3, <2>5, <2>6 DEF TypeOK
<1>6. CASE UnderlayClosed(u)
  BY <1>6 DEF TypeOK, UnderlayClosed, UserStates, Conns
<1> QED BY <1>1, <1>2, <1>3, <1>4, <1>5, <1>6 DEF UserStep

\* Every step of the factory keeps the state well formed.
LEMMA FactoryTypes ==
  ASSUME TypeOK, FactoryStep
  PROVE  TypeOK'
<1> USE ConnectionAssumption
<1>1. CASE FactoryLoop
  BY <1>1 DEF TypeOK, FactoryLoop, TaskStates, Conns
<1>2. CASE AttemptFails \/ FailureHandled \/ RestoreGivesUp
  BY <1>2 DEF TypeOK, AttemptFails, FailureHandled, RestoreGivesUp, AttemptRaises,
              TaskStates, Conns
<1>3. CASE AttemptSucceeds
  <2>1. user' \in [Users -> UserStates]
    BY <1>3 DEF TypeOK, AttemptSucceeds, WakeConnected, UserStates
  <2>2. made' \in 0..MaxConns /\ transport' = made'
    BY <1>3 DEF TypeOK, AttemptSucceeds
  <2>3. /\ conn' \in [Conns -> ConnStates]
        /\ \A g \in Conns : conn'[g] # "none" <=> g <= made'
    BY <1>3 DEF TypeOK, AttemptSucceeds, Conns, ConnStates
  <2>4. todo' \subseteq channels' /\ channels' \subseteq Channels
    BY <1>3 DEF TypeOK, AttemptSucceeds
  <2>5. /\ attempts' \in BOOLEAN /\ closeEvent' \in BOOLEAN
        /\ closed' \in BOOLEAN /\ closeCalled' \in BOOLEAN /\ connected' \in BOOLEAN
        /\ mishap' \in BOOLEAN
    BY <1>3, Zenon DEF TypeOK, AttemptSucceeds, AfterRestore, Established
  <2>6. /\ failFast' \in {"pending", "ok", "error", "cancelled"}
        /\ task' \in TaskStates
    BY <1>3 DEF TypeOK, AttemptSucceeds, AfterRestore, Established, TaskStates
  <2> QED BY <2>1, <2>2, <2>3, <2>4, <2>5, <2>6 DEF TypeOK
<1>4. ASSUME NEW c \in Channels, ChannelReopened(c) PROVE TypeOK'
  BY <1>4 DEF TypeOK, ChannelReopened, TaskStates, Conns
<1>5. CASE ChannelRestored \/ Reconnected
  BY <1>5 DEF TypeOK, ChannelRestored, Reconnected, AfterRestore, Established,
              TaskStates, Conns
<1>6. CASE RestoreWaits \/ RestoreRaises \/ RestoreCloses \/ FactoryCancelled
  BY <1>6 DEF TypeOK, RestoreWaits, RestoreRaises, RestoreCloses, FactoryCancelled,
              CloseUnderlay, TaskStates, Conns, ConnStates
<1> QED BY <1>1, <1>2, <1>3, <1>4, <1>5, <1>6 DEF FactoryStep

\* Every step of an underlay connection keeps the state well formed.
LEMMA UnderlayTypes ==
  ASSUME TypeOK, NEW g \in Conns, UnderlayStep(g)
  PROVE  TypeOK'
<1>1. CASE Lost(g)
  <2>1. mishap' \in BOOLEAN
    BY <1>1, Zenon DEF TypeOK, Lost, GoesDown
  <2> QED BY <1>1, <2>1 DEF TypeOK, Lost, GoesDown, CloseUnderlay, Conns, ConnStates
<1>2. CASE CloseStarts(g)
  BY <1>2 DEF TypeOK, CloseStarts, Conns, ConnStates
<1>3. CASE CloseEnds(g)
  <2>1. closeEvent' \in BOOLEAN
    BY <1>3, Zenon DEF CloseEnds
  <2> QED BY <1>3, <2>1 DEF TypeOK, CloseEnds, Conns, ConnStates
<1> QED BY <1>1, <1>2, <1>3 DEF UnderlayStep

LEMMA TypeStep == TypeOK /\ [Next]_vars => TypeOK'
<1>1. ASSUME TypeOK, UNCHANGED vars PROVE TypeOK'
  BY <1>1 DEF TypeOK, vars
<1> QED BY <1>1, UserTypes, FactoryTypes, UnderlayTypes DEF Next

\* A new connection is well formed.
LEMMA TypeInit == Init => TypeOK
<1> SUFFICES ASSUME Init PROVE TypeOK
  OBVIOUS
<1>1. /\ connected \in BOOLEAN /\ closeEvent \in BOOLEAN /\ attempts \in BOOLEAN
      /\ closeCalled \in BOOLEAN /\ closed \in BOOLEAN /\ mishap \in BOOLEAN
  BY Zenon DEF Init
<1>2. /\ made \in 0..MaxConns /\ transport \in {0, made}
      /\ \A g \in Conns : conn[g] # "none" <=> g <= made
  BY ConnectionAssumption DEF Init, Conns
<1>3. /\ conn \in [Conns -> ConnStates] /\ user \in [Users -> UserStates]
      /\ task \in TaskStates /\ channels \subseteq Channels /\ todo \subseteq channels
  BY DEF Init, ConnStates, UserStates, TaskStates
<1>4. failFast \in {"pending", "ok", "error", "cancelled"}
  BY DEF Init
<1> QED BY <1>1, <1>2, <1>3, <1>4 DEF TypeOK

\* The connection's state is always well formed.
THEOREM ConnectionTypes == Spec => []TypeOK
BY TypeInit, TypeStep, PTL DEF Spec

-----------------------------------------------------------------------------
\* connected tells the truth about the last connection, whatever the close
\* tasks of the connections do and however long their callbacks take.
THEOREM ConnectedWhileLive == Spec => []ConnectedIsLive
<1>1. Init => ConnectedIsLive
  BY DEF Init, ConnectedIsLive
<1>2. TypeOK /\ ConnectedIsLive /\ [Next]_vars => ConnectedIsLive'
  <2> SUFFICES ASSUME TypeOK, ConnectedIsLive, [Next]_vars PROVE ConnectedIsLive'
    OBVIOUS
  <2> USE ConnectionAssumption
  <2>1. ASSUME NEW u \in Users, UserStep(u) PROVE ConnectedIsLive'
    <3>1. UNCHANGED <<made, connected>>
      BY <2>1 DEF UserStep, Connect, FailFastDone, CancelConnect, Reconnect,
            ReconnectGoesOn, Channel, Close, FactoryGathered, UnderlayClosed
    <3>2. conn' = conn \/ CloseUnderlay(transport)
      BY <2>1 DEF UserStep, Connect, FailFastDone, CancelConnect, Reconnect,
            ReconnectGoesOn, Channel, Close, FactoryGathered, UnderlayClosed,
            SuperClose, GoesDown
    <3> QED BY <3>1, <3>2 DEF TypeOK, ConnectedIsLive, CloseUnderlay, Conns
  <2>2. CASE AttemptSucceeds
    BY <2>2 DEF TypeOK, ConnectedIsLive, AttemptSucceeds, Conns
  <2>3. CASE FactoryStep /\ ~AttemptSucceeds
    BY <2>3 DEF TypeOK, ConnectedIsLive, FactoryStep, FactoryLoop, AttemptFails,
          FailureHandled, ChannelReopened, ChannelRestored, RestoreWaits, RestoreRaises,
          RestoreCloses, RestoreGivesUp, Reconnected, FactoryCancelled, CloseUnderlay,
          Conns
  <2>4. ASSUME NEW g \in Conns, UnderlayStep(g) PROVE ConnectedIsLive'
    <3>1. CASE Lost(g)
      BY <3>1 DEF TypeOK, ConnectedIsLive, Lost, GoesDown, CloseUnderlay, Conns
    <3>2. CASE CloseStarts(g)
      BY <3>2 DEF ConnectedIsLive, CloseStarts
    <3>3. CASE CloseEnds(g)
      <4>1. g # made \/ ~connected
        BY <3>3 DEF ConnectedIsLive, CloseEnds
      <4>2. CASE ~connected
        BY <3>3, <4>2 DEF ConnectedIsLive, CloseEnds
      <4>3. CASE g # made
        <5>1. conn'[made] = conn[made] /\ UNCHANGED <<made, connected>>
          BY <3>3, <4>3 DEF TypeOK, CloseEnds, Conns
        <5> QED BY <5>1 DEF ConnectedIsLive
      <4> QED BY <4>1, <4>2, <4>3
    <3> QED BY <2>4, <3>1, <3>2, <3>3 DEF UnderlayStep
  <2>5. CASE UNCHANGED vars
    BY <2>5 DEF vars, ConnectedIsLive
  <2> QED BY <2>1, <2>2, <2>3, <2>4, <2>5 DEF Next
<1> QED BY <1>1, <1>2, ConnectionTypes, PTL DEF Spec

-----------------------------------------------------------------------------
\* The factory stays stopped after close(), whoever connects again.
LEMMA StoppedStep == TypeOK /\ FactoryStopped /\ [Next]_vars => FactoryStopped'
<1> SUFFICES ASSUME TypeOK, FactoryStopped, [Next]_vars PROVE FactoryStopped'
  OBVIOUS
<1>1. ASSUME NEW u \in Users, UserStep(u) PROVE FactoryStopped'
  BY <1>1 DEF FactoryStopped, UserStep, Connect, FailFastDone, CancelConnect, Reconnect,
        ReconnectGoesOn, ConnectBody, Channel, Close, FactoryGathered, UnderlayClosed,
        SuperClose
<1>2. CASE FactoryStep
  BY <1>2 DEF FactoryStopped, FactoryStep, FactoryLoop, AttemptFails, FailureHandled,
        AttemptSucceeds, ChannelReopened, ChannelRestored, RestoreWaits, RestoreRaises,
        RestoreCloses, RestoreGivesUp, Reconnected, FactoryCancelled
<1>3. ASSUME NEW g \in Conns, UnderlayStep(g) PROVE FactoryStopped'
  BY <1>3 DEF FactoryStopped, UnderlayStep, Lost, CloseStarts, CloseEnds
<1>4. CASE UNCHANGED vars
  BY <1>4 DEF FactoryStopped, vars
<1> QED BY <1>1, <1>2, <1>3, <1>4 DEF Next

\* No connection is made once close() was called, with callbacks of any length.
THEOREM NoAttemptAfterCloseHolds == Spec => NoAttemptAfterClose
<1>1. Init => FactoryStopped
  BY DEF Init, FactoryStopped
<1>2. FactoryStopped /\ [Next]_vars => [closeCalled => made' = made]_vars
  BY DEF FactoryStopped, Next, vars, UserStep, Connect, FailFastDone, CancelConnect,
         Reconnect, ReconnectGoesOn, Channel, Close, FactoryGathered, UnderlayClosed,
         FactoryStep, FactoryLoop, AttemptFails, FailureHandled, AttemptSucceeds,
         ChannelReopened, ChannelRestored, RestoreWaits, RestoreRaises, RestoreCloses,
         RestoreGivesUp, Reconnected, FactoryCancelled, UnderlayStep, Lost, CloseStarts,
         CloseEnds
<1> QED BY <1>1, <1>2, StoppedStep, ConnectionTypes, PTL DEF Spec, NoAttemptAfterClose

-----------------------------------------------------------------------------
\* The parts of the invariant that speak of the underlay connections.
Lifecycle == OldFinished /\ AttemptIsDue /\ OpenIsTransport

\* A step of a user keeps the connections in order.
LEMMA UserLifecycle ==
  ASSUME ConnInv, NEW u \in Users, UserStep(u)
  PROVE  Lifecycle'
<1> USE ConnectionAssumption DEF ConnInv, Lifecycle
<1>0. ASSUME ConnectBody(u) PROVE task' = task \/ (task = "none" /\ task' = "loop")
  BY <1>0 DEF ConnectBody
<1>1. CASE \/ Connect(u) \/ FailFastDone(u) \/ CancelConnect(u) \/ ReconnectGoesOn(u)
           \/ \E c \in Channels : Channel(u, c)
           \/ UnderlayClosed(u)
  <2>1. UNCHANGED <<transport, made, conn, closeEvent, closeCalled>>
    BY <1>1 DEF Connect, FailFastDone, CancelConnect, ReconnectGoesOn, Channel,
                UnderlayClosed
  <2>2. task' = task \/ (task = "none" /\ task' = "loop")
    BY <1>0, <1>1 DEF Connect, FailFastDone, CancelConnect, ReconnectGoesOn, Channel,
                      UnderlayClosed
  <2> QED BY <2>1, <2>2 DEF OldFinished, AttemptIsDue, OpenIsTransport
<1>2. CASE Reconnect(u)
  <2>1. UNCHANGED <<transport, made, closeEvent, closeCalled>>
    BY <1>2 DEF Reconnect
  <2>2. task' = task \/ (task = "none" /\ task' = "loop")
    BY <1>0, <1>2 DEF Reconnect
  <2>3. conn' = conn \/ CloseUnderlay(transport)
    BY <1>2 DEF Reconnect, GoesDown
  <2> QED BY <2>1, <2>2, <2>3
          DEF TypeOK, OldFinished, AttemptIsDue, OpenIsTransport, CloseUnderlay, Conns
<1>3. CASE Close(u) \/ FactoryGathered(u)
  <2>1. UNCHANGED <<made, closeEvent>>
    BY <1>3 DEF Close, FactoryGathered
  <2>2. CASE SuperClose(u) /\ task' = "none"
    <3>1. closeCalled' /\ task' = "none"
      BY <2>2 DEF SuperClose
    <3>2. CASE transport = 0
      BY <2>1, <2>2, <3>1, <3>2
         DEF SuperClose, TypeOK, OldFinished, AttemptIsDue, OpenIsTransport
    <3>3. CASE transport # 0
      <4>1. transport = made /\ made > 0 /\ made \in Conns
        BY <3>3 DEF TypeOK, Conns
      <4>2. \/ conn' = conn /\ conn[made] = "finished"
            \/ CloseUnderlay(made)
        BY <2>2, <3>3, <4>1 DEF SuperClose
      <4> QED BY <2>1, <3>1, <4>1, <4>2
              DEF TypeOK, OldFinished, AttemptIsDue, OpenIsTransport, CloseUnderlay,
                  Conns
    <3> QED BY <3>2, <3>3
  <2>3. CASE UNCHANGED <<transport, conn, closeCalled>> /\ task' \in {"cancelling", "done"}
    BY <2>1, <2>3 DEF OldFinished, AttemptIsDue, OpenIsTransport
  <2> QED BY <1>3, <2>2, <2>3 DEF Close, FactoryGathered
<1> QED BY <1>1, <1>2, <1>3 DEF UserStep

\* A step of the factory keeps the connections in order.
LEMMA FactoryLifecycle ==
  ASSUME ConnInv, ~SlowCallbacks, FactoryStep
  PROVE  Lifecycle'
<1> USE ConnectionAssumption DEF ConnInv, Lifecycle
<1>1. CASE FactoryLoop
  <2>1. UNCHANGED <<made, conn, closeEvent, closeCalled>>
    BY <1>1 DEF FactoryLoop
  <2>2. CASE closed \/ closeCalled
    <3>1. task' = "done" /\ transport' = transport
      BY <1>1, <2>2 DEF FactoryLoop
    <3> QED BY <2>1, <3>1 DEF OldFinished, AttemptIsDue, OpenIsTransport
  <2>3. CASE ~closed /\ ~closeCalled /\ ~closeEvent
    <3>1. task' = "wait" /\ transport' = transport
      BY <1>1, <2>3 DEF FactoryLoop
    <3> QED BY <2>1, <2>3, <3>1 DEF OldFinished, AttemptIsDue, OpenIsTransport
  <2>4. CASE ~closed /\ ~closeCalled /\ closeEvent
    <3>1. task' = "connect" /\ transport' = 0
      BY <1>1, <2>4 DEF FactoryLoop
    <3>2. made > 0 => conn[made] = "finished"
      BY <1>1, <2>4
         DEF FactoryLoop, CloseHandled, TypeOK, AttemptIsDue, Conns
    <3> QED BY <2>1, <3>1, <3>2 DEF OldFinished, AttemptIsDue, OpenIsTransport
  <2> QED BY <2>2, <2>3, <2>4
<1>2. CASE AttemptSucceeds
  <2>1. /\ made' = made + 1 /\ transport' = made + 1 /\ made + 1 \in Conns
        /\ closeCalled' = closeCalled
        /\ conn' = [conn EXCEPT ![made + 1] = "open"]
    BY <1>2 DEF AttemptSucceeds, TypeOK, Conns
  <2>2. ~closeCalled
    BY <1>2 DEF AttemptSucceeds, FactoryStopped
  <2>3. OldFinished'
    BY <1>2, <2>1 DEF AttemptSucceeds, OldFinished, AttemptIsDue, TypeOK, Conns
  <2>4. \/ task' \in {"restore", "reconnect_cb"}
        \/ task' = "sleep" /\ closeEvent' = FALSE
    BY <1>2 DEF AttemptSucceeds, AfterRestore, Established
  <2> QED BY <2>1, <2>2, <2>3, <2>4 DEF AttemptIsDue, OpenIsTransport
<1>3. CASE AttemptFails \/ RestoreWaits \/ RestoreRaises \/ FactoryCancelled
           \/ \E c \in Channels : ChannelReopened(c)
  BY <1>3 DEF AttemptFails, RestoreWaits, RestoreRaises, FactoryCancelled,
        ChannelReopened, OldFinished, AttemptIsDue, OpenIsTransport
<1>4. CASE FailureHandled
  BY <1>4 DEF FailureHandled, AttemptRaises, OldFinished, AttemptIsDue, OpenIsTransport
<1>5. CASE ChannelRestored \/ Reconnected
  BY <1>5 DEF ChannelRestored, Reconnected, AfterRestore, Established, OldFinished,
        AttemptIsDue, OpenIsTransport
<1>6. CASE RestoreCloses
  BY <1>6 DEF RestoreCloses, CloseUnderlay, TypeOK, OldFinished, AttemptIsDue,
        OpenIsTransport, Conns
<1>7. CASE RestoreGivesUp
  BY <1>7 DEF RestoreGivesUp, AttemptRaises, OldFinished, AttemptIsDue, OpenIsTransport
<1> QED BY <1>1, <1>2, <1>3, <1>4, <1>5, <1>6, <1>7 DEF FactoryStep

\* The end of a connection keeps the connections in order: only the last one
\* is still to end, so the close event it sets is about the last one.
LEMMA UnderlayLifecycle ==
  ASSUME ConnInv, NEW g \in Conns, UnderlayStep(g)
  PROVE  Lifecycle'
<1> USE ConnectionAssumption DEF ConnInv, Lifecycle
<1>1. g = made /\ made > 0
  BY DEF UnderlayStep, Lost, GoesDown, CloseStarts, CloseEnds, TypeOK, OldFinished, Conns
<1>2. UNCHANGED <<transport, made, closeCalled, task>>
  BY DEF UnderlayStep, Lost, CloseStarts, CloseEnds
<1>3. CASE Lost(g) \/ CloseStarts(g)
  <2>1. closeEvent' = closeEvent /\ \E v : v # "open" /\ conn' = [conn EXCEPT ![made] = v]
    BY <1>1, <1>3 DEF Lost, GoesDown, CloseStarts, CloseUnderlay
  <2>2. conn[made] # "finished"
    BY <1>1, <1>3 DEF Lost, GoesDown, CloseStarts
  <2> QED BY <1>1, <1>2, <2>1, <2>2
          DEF TypeOK, OldFinished, AttemptIsDue, OpenIsTransport, Conns
<1>4. CASE CloseEnds(g)
  <2>1. conn' = [conn EXCEPT ![made] = "finished"]
    BY <1>1, <1>4 DEF CloseEnds
  <2> QED BY <1>1, <1>2, <2>1
          DEF TypeOK, OldFinished, AttemptIsDue, OpenIsTransport, Conns
<1> QED BY <1>3, <1>4 DEF UnderlayStep

\* Every step keeps the invariant.
LEMMA ConnStep == ConnInv /\ ~SlowCallbacks /\ [Next]_vars => ConnInv'
<1> SUFFICES ASSUME ConnInv, ~SlowCallbacks, [Next]_vars PROVE ConnInv'
  OBVIOUS
<1>1. TypeOK' /\ FactoryStopped'
  BY TypeStep, StoppedStep DEF ConnInv
<1>2. CASE UNCHANGED vars
  BY <1>2 DEF vars, ConnInv, TypeOK, OldFinished, AttemptIsDue, FactoryStopped,
        OpenIsTransport
<1> QED BY <1>1, <1>2, UserLifecycle, FactoryLifecycle, UnderlayLifecycle
        DEF Next, Lifecycle, ConnInv

LEMMA ConnInit == Init => ConnInv
<1> SUFFICES ASSUME Init PROVE ConnInv
  OBVIOUS
<1>1. made = 0 /\ closeCalled = FALSE
  BY DEF Init
<1>2. OldFinished
  BY <1>1 DEF OldFinished, Conns
<1> QED BY <1>1, <1>2, TypeInit DEF ConnInv, AttemptIsDue, FactoryStopped, OpenIsTransport

\* Underlay connections live one after the other, if callbacks are not slow.
THEOREM ConnectionInvariant ==
  ASSUME ~SlowCallbacks
  PROVE  Spec => []ConnInv
<1>1. ConnInv /\ [Next]_vars => ConnInv'
  BY ConnStep
<1> QED BY <1>1, ConnInit, PTL DEF Spec

\* close() leaves no connection up, whatever the factory was doing.
THEOREM NothingOpenAfterCloseHolds ==
  ASSUME ~SlowCallbacks
  PROVE  Spec => []NothingOpenAfterClose
<1>1. ConnInv => NothingOpenAfterClose
  BY ConnectionAssumption
     DEF ConnInv, TypeOK, OldFinished, OpenIsTransport, NothingOpenAfterClose, Conns
<1>2. Spec => []ConnInv
  BY ConnectionInvariant
<1> QED BY <1>1, <1>2, PTL

-----------------------------------------------------------------------------
(* Nobody waits for what will not come, with callbacks of any length and any  *)
(* exceptions.                                                                *)

CloseIsKnown == closed \/ (\E u \in Users : user[u] = "underlay_close") => closeCalled

\* Only _on_connected(), at its end, clears the close event.
EventKept == task \notin {"sleep", "wait", "cancelling", "done"} => closeEvent \/ closeCalled

\* It runs on a connection that is up, or there is a mishap.
UpMeanwhile ==
    task \in {"restore", "restore_ready", "reopen_cb", "reconnect_cb"} =>
       closeCalled \/ mishap \/ (made > 0 /\ conn[made] = "open")

LossIsTold ==
    task \in {"sleep", "wait"} /\ ~closeEvent =>
       \/ closeCalled \/ mishap
       \/ made > 0 /\ conn[made] \in {"open", "closing", "callbacks"}

\* A factory that nobody cancelled ends only with the error of a fail-fast
\* connect(), and starts with the first connect().
EndIsError == ~Closing => task # "cancelling" /\ (task = "done" => failFast = "error")
NoneConnects == task = "none" /\ ~Closing => \A u \in Users : user[u] \notin {"fail_fast", "connected"}

EstablishedFirst == \A u \in Users : user[u] = "connected" => failFast = "ok"

WaitInv == CloseIsKnown /\ EventKept /\ UpMeanwhile /\ LossIsTold /\ EndIsError /\ NoneConnects
           /\ EstablishedFirst

\* Once somebody closes the connection, it stays being closed.
LEMMA ClosingStays ==
  ASSUME TypeOK, [Next]_vars, Closing
  PROVE  Closing'
<1>1. ASSUME NEW u \in Users, UserStep(u) PROVE Closing'
  <2>1. closeCalled => closeCalled'
    BY <1>1 DEF UserStep, Connect, FailFastDone, CancelConnect, Reconnect, ReconnectGoesOn,
                Channel, Close, FactoryGathered, UnderlayClosed, SuperClose
  <2>2. ASSUME NEW w \in Users, user[w] = "gather", ~closeCalled'
        PROVE  user'[w] = "gather"
    BY <1>1, <2>2
       DEF UserStep, Connect, FailFastDone, CancelConnect, Reconnect, ReconnectGoesOn,
           ConnectBody, Channel, Close, FactoryGathered, UnderlayClosed, SuperClose, TypeOK
  <2> QED BY <2>1, <2>2 DEF Closing
<1>2. CASE FactoryStep
  <2>1. closeCalled' = closeCalled
    BY <1>2 DEF FactoryStep, FactoryLoop, AttemptFails, FailureHandled, AttemptSucceeds,
                ChannelReopened, ChannelRestored, RestoreWaits, RestoreRaises, RestoreCloses,
                RestoreGivesUp, Reconnected, FactoryCancelled
  <2>2. user' = user \/ user' = WakeConnected
    BY <1>2 DEF FactoryStep, FactoryLoop, AttemptFails, FailureHandled, AttemptSucceeds,
                ChannelReopened, ChannelRestored, RestoreWaits, RestoreRaises, RestoreCloses,
                RestoreGivesUp, Reconnected, FactoryCancelled
  <2> QED BY <2>1, <2>2 DEF Closing, WakeConnected
<1>3. ASSUME NEW g \in Conns, UnderlayStep(g) PROVE Closing'
  BY <1>3 DEF UnderlayStep, Lost, CloseStarts, CloseEnds, Closing
<1>4. CASE UNCHANGED vars
  BY <1>4 DEF vars, Closing
<1> QED BY <1>1, <1>2, <1>3, <1>4 DEF Next

\* The last connection goes down in view of its close callbacks.
LEMMA GoingDownKeepsWaits ==
  ASSUME TypeOK, WaitInv, NEW g \in Conns, GoesDown(g), task' = task,
         UNCHANGED <<made, closeEvent, closeCalled>>
  PROVE  UpMeanwhile' /\ LossIsTold' /\ EventKept'
<1>1. conn' = [conn EXCEPT ![g] = "closing"] /\ (mishap => mishap')
  BY DEF GoesDown, CloseUnderlay, TypeOK
<1>2. task \in {"restore", "restore_ready", "reopen_cb", "reconnect_cb"} => mishap'
  BY DEF GoesDown
<1>3. EventKept'
  BY DEF WaitInv, EventKept
<1>4. UpMeanwhile'
  BY <1>2 DEF UpMeanwhile
<1>5. made > 0 => conn'[made] \in {conn[made], "closing"}
  BY <1>1, ConnectionAssumption DEF TypeOK, Conns
<1>6. LossIsTold'
  BY <1>1, <1>5 DEF WaitInv, LossIsTold
<1> QED BY <1>3, <1>4, <1>6

\* Steps of a user that leave the connections as they are.
LEMMA ConnectKeepsWaits ==
  ASSUME TypeOK, WaitInv, NEW u \in Users, ConnectBody(u), user[u] \notin {"gather", "underlay_close"},
         UNCHANGED <<closeCalled, closed, failFast>>
  PROVE  /\ task' = task \/ (task = "none" /\ task' = "loop")
         /\ CloseIsKnown' /\ EndIsError' /\ NoneConnects' /\ EstablishedFirst'
<1>1. task' = task \/ (task = "none" /\ task' = "loop" /\ ~closed)
  BY DEF ConnectBody
<1>2. PICK v \in {"idle", "fail_fast", "connected"} : user' = [user EXCEPT ![u] = v]
  BY DEF ConnectBody, AfterFailFast
<1>3. \A w \in Users : user'[w] = IF w = u THEN v ELSE user[w]
  BY <1>2 DEF TypeOK
<1>4. v = "connected" => failFast = "ok"
  BY <1>2, <1>3 DEF ConnectBody, AfterFailFast, TypeOK
<1>5. v # "idle" => task' # "none"
  BY <1>2, <1>3 DEF ConnectBody, TypeOK
<1>6. Closing' <=> Closing
  BY <1>3 DEF Closing
<1>7. CloseIsKnown'
  BY <1>3 DEF WaitInv, CloseIsKnown
<1>8. EndIsError'
  BY <1>1, <1>6 DEF WaitInv, EndIsError
<1>9. NoneConnects'
  BY <1>1, <1>3, <1>5, <1>6 DEF WaitInv, NoneConnects
<1>10. EstablishedFirst'
  BY <1>3, <1>4 DEF WaitInv, EstablishedFirst
<1> QED BY <1>1, <1>7, <1>8, <1>9, <1>10

\* The steps of the users.
LEMMA UserKeepsWaits ==
  ASSUME TypeOK, WaitInv, NEW u \in Users, UserStep(u)
  PROVE  WaitInv'
<1>1. CASE Connect(u) \/ ReconnectGoesOn(u)
  <2>1. /\ ConnectBody(u) /\ user[u] \notin {"gather", "underlay_close"}
        /\ UNCHANGED <<made, conn, closeEvent, closeCalled, closed, failFast, mishap>>
    BY <1>1 DEF Connect, ReconnectGoesOn
  <2>2. /\ task' = task \/ (task = "none" /\ task' = "loop")
        /\ CloseIsKnown' /\ EndIsError' /\ NoneConnects' /\ EstablishedFirst'
    BY <2>1, ConnectKeepsWaits
  <2> QED BY <2>1, <2>2 DEF WaitInv, EventKept, UpMeanwhile, LossIsTold
<1>2. CASE Reconnect(u)
  <2>1. UNCHANGED <<made, closeEvent, closeCalled, closed, failFast>> /\ user[u] = "idle"
    BY <1>2 DEF Reconnect
  <2>2. CASE ConnectBody(u) /\ UNCHANGED <<conn, mishap>>
    <3>1. /\ task' = task \/ (task = "none" /\ task' = "loop")
          /\ CloseIsKnown' /\ EndIsError' /\ NoneConnects' /\ EstablishedFirst'
      BY <2>1, <2>2, ConnectKeepsWaits
    <3> QED BY <2>1, <2>2, <3>1 DEF WaitInv, EventKept, UpMeanwhile, LossIsTold
  <2>3. CASE /\ transport # 0
             /\ GoesDown(transport) \/ UNCHANGED <<conn, mishap>>
             /\ user' = [user EXCEPT ![u] = "reconnect"]
             /\ UNCHANGED task
    <3>1. \A w \in Users : user'[w] = IF w = u THEN "reconnect" ELSE user[w]
      BY <2>3 DEF TypeOK
    <3>2. Closing' <=> Closing
      BY <2>1, <3>1 DEF Closing
    <3>3. CloseIsKnown' /\ EndIsError' /\ NoneConnects' /\ EstablishedFirst'
      BY <2>1, <2>3, <3>1, <3>2
         DEF WaitInv, CloseIsKnown, EndIsError, NoneConnects, EstablishedFirst
    <3>4. transport \in Conns
      BY <2>3 DEF TypeOK, Conns
    <3>5. UpMeanwhile' /\ LossIsTold' /\ EventKept'
      BY <2>1, <2>3, <3>4, GoingDownKeepsWaits DEF WaitInv, UpMeanwhile, LossIsTold, EventKept
    <3> QED BY <3>3, <3>5 DEF WaitInv
  <2> QED BY <1>2, <2>2, <2>3 DEF Reconnect
<1>3. CASE FailFastDone(u) \/ CancelConnect(u) \/ UnderlayClosed(u)
           \/ \E c \in Channels : Channel(u, c)
  <2>1. UNCHANGED <<made, conn, closeEvent, closeCalled, task, mishap>>
    BY <1>3 DEF FailFastDone, CancelConnect, UnderlayClosed, Channel
  <2>2. PICK v : /\ \A w \in Users : user'[w] = IF w = u THEN v ELSE user[w]
                 /\ v \in {"idle", "connected"} \/ v = user[u]
                 /\ v = "connected" => failFast' = "ok"
                 /\ user[u] = "gather" => v = "gather"
                 /\ v = "connected" => user[u] \in {"fail_fast", "connected"}
    BY <1>3
       DEF FailFastDone, CancelConnect, UnderlayClosed, Channel, AfterFailFast, TypeOK, WaitInv,
           EstablishedFirst
  <2>3. /\ failFast' = failFast \/ (failFast = "pending" /\ failFast' = "cancelled")
        /\ closed' => closed \/ user[u] = "underlay_close"
    BY <1>3 DEF FailFastDone, CancelConnect, UnderlayClosed, Channel
  <2>4. Closing' <=> Closing
    BY <2>1, <2>2 DEF Closing
  <2>5. CloseIsKnown'
    BY <2>1, <2>2, <2>3 DEF WaitInv, CloseIsKnown
  <2>6. EndIsError' /\ NoneConnects' /\ EstablishedFirst'
    BY <2>1, <2>2, <2>3, <2>4 DEF WaitInv, EndIsError, NoneConnects, EstablishedFirst
  <2> QED BY <2>1, <2>5, <2>6 DEF WaitInv, EventKept, UpMeanwhile, LossIsTold
<1>4. CASE /\ Close(u)
           /\ task' = IF task = "done" THEN "done" ELSE "cancelling"
           /\ user' = [user EXCEPT ![u] = "gather"]
           /\ UNCHANGED <<transport, conn, closeCalled, closed>>
  <2>1. UNCHANGED <<made, closeEvent, failFast, mishap>> /\ task' \in {"cancelling", "done"}
    BY <1>4 DEF Close
  <2>2. \A w \in Users : user'[w] = IF w = u THEN "gather" ELSE user[w]
    BY <1>4 DEF TypeOK
  <2>3. Closing'
    BY <2>2 DEF Closing
  <2> QED BY <1>4, <2>1, <2>2, <2>3
          DEF WaitInv, CloseIsKnown, EventKept, UpMeanwhile, LossIsTold, EndIsError, NoneConnects,
              EstablishedFirst
<1>5. CASE SuperClose(u) /\ task' = "none" /\ failFast' = failFast
  <2>1. closeCalled'
    BY <1>5 DEF SuperClose
  <2>2. \A w \in Users : user'[w] = "connected" => user[w] = "connected"
    BY <1>5 DEF SuperClose, TypeOK
  <2>3. Closing'
    BY <2>1 DEF Closing
  <2> QED BY <1>5, <2>1, <2>2, <2>3
          DEF WaitInv, CloseIsKnown, EventKept, UpMeanwhile, LossIsTold, EndIsError, NoneConnects,
              EstablishedFirst
<1> QED BY <1>1, <1>2, <1>3, <1>4, <1>5 DEF UserStep, Close, FactoryGathered

\* The end of an attempt, by an exception or a connection that is established.
LEMMA AttemptKeepsWaits ==
  ASSUME TypeOK, WaitInv, UNCHANGED <<made, conn, closeCalled, closed, user, mishap>>,
         \/ AttemptRaises /\ task \in {"fail_cb", "raise_close"} /\ (closeEvent => closeEvent')
         \/ AfterRestore /\ task \in {"reopen_cb", "reconnect_cb"}
         \/ Established /\ task = "reconnect_cb"
  PROVE  WaitInv'
<1>1. Closing' <=> Closing
  BY DEF Closing
<1>2. CloseIsKnown'
  BY DEF WaitInv, CloseIsKnown
<1>3. /\ task' \in {"sleep", "done", "reconnect_cb"}
      /\ task' = "done" => failFast' = "error"
      /\ failFast = "ok" => failFast' = "ok"
  BY DEF AttemptRaises, AfterRestore, Established
<1>4. EndIsError' /\ NoneConnects' /\ EstablishedFirst'
  BY <1>1, <1>3 DEF WaitInv, EndIsError, NoneConnects, EstablishedFirst
<1>5. CASE AttemptRaises /\ task \in {"fail_cb", "raise_close"} /\ (closeEvent => closeEvent')
  BY <1>2, <1>4, <1>5 DEF AttemptRaises, WaitInv, EventKept, UpMeanwhile, LossIsTold
<1>6. CASE task \in {"reopen_cb", "reconnect_cb"} /\ (AfterRestore \/ Established)
  BY <1>2, <1>4, <1>6 DEF AfterRestore, Established, WaitInv, EventKept, UpMeanwhile, LossIsTold
<1> QED BY <1>5, <1>6

\* The steps of the factory.
LEMMA FactoryKeepsWaits ==
  ASSUME TypeOK, WaitInv, FactoryStep
  PROVE  WaitInv'
<1>1. CASE FactoryLoop
  <2>1. UNCHANGED <<made, conn, closeEvent, closeCalled, closed, failFast, user, mishap>>
    BY <1>1 DEF FactoryLoop
  <2>2. Closing' <=> Closing
    BY <2>1 DEF Closing
  <2>3. \/ task' = "done" /\ closeCalled
        \/ /\ task' = "wait" /\ ~closeEvent /\ ~closeCalled
           /\ task \in {"loop", "sleep", "wait"}
        \/ task' = "connect" /\ closeEvent
    BY <1>1 DEF FactoryLoop, WaitInv, CloseIsKnown
  <2>4. EndIsError' /\ NoneConnects' /\ EstablishedFirst' /\ CloseIsKnown'
    BY <2>1, <2>2, <2>3
       DEF WaitInv, EndIsError, NoneConnects, EstablishedFirst, CloseIsKnown, Closing
  <2>5. EventKept' /\ UpMeanwhile' /\ LossIsTold'
    BY <2>1, <2>3 DEF WaitInv, EventKept, UpMeanwhile, LossIsTold
  <2> QED BY <2>4, <2>5 DEF WaitInv
<1>2. CASE AttemptSucceeds
  <2>1. /\ task = "connect" /\ made' = made + 1 /\ made' > 0
        /\ conn'[made'] = "open"
        /\ UNCHANGED <<closeCalled, closed, mishap>>
    BY <1>2, ConnectionAssumption DEF AttemptSucceeds, TypeOK, Conns
  <2>2. \A w \in Users : user'[w] = IF user[w] = "connected" THEN "idle" ELSE user[w]
    BY <1>2 DEF AttemptSucceeds, WakeConnected
  <2>3. Closing' <=> Closing
    BY <2>1, <2>2 DEF Closing
  <2>4. \/ task' \in {"restore", "reconnect_cb"} /\ closeEvent' = closeEvent
        \/ task' = "sleep"
    BY <1>2 DEF AttemptSucceeds, AfterRestore, Established
  <2>5. EventKept' /\ UpMeanwhile' /\ LossIsTold'
    BY <2>1, <2>4 DEF WaitInv, EventKept, UpMeanwhile, LossIsTold
  <2>6. EndIsError' /\ NoneConnects' /\ EstablishedFirst' /\ CloseIsKnown'
    BY <2>1, <2>2, <2>3, <2>4
       DEF WaitInv, EndIsError, NoneConnects, EstablishedFirst, CloseIsKnown
  <2> QED BY <2>5, <2>6 DEF WaitInv
<1>3. CASE FailureHandled \/ RestoreGivesUp \/ Reconnected \/ (ChannelRestored /\ AfterRestore)
  <2>1. UNCHANGED <<made, conn, closeCalled, closed, user, mishap>>
    BY <1>3 DEF FailureHandled, RestoreGivesUp, Reconnected, ChannelRestored
  <2>2. \/ AttemptRaises /\ task \in {"fail_cb", "raise_close"} /\ (closeEvent => closeEvent')
        \/ AfterRestore /\ task \in {"reopen_cb", "reconnect_cb"}
        \/ Established /\ task = "reconnect_cb"
    BY <1>3 DEF FailureHandled, RestoreGivesUp, Reconnected, ChannelRestored
  <2> QED BY <2>1, <2>2, AttemptKeepsWaits
<1>4. CASE \/ AttemptFails \/ RestoreWaits \/ RestoreRaises \/ RestoreCloses \/ FactoryCancelled
           \/ \E c \in Channels : ChannelReopened(c)
           \/ ChannelRestored /\ ~AfterRestore
  <2>1. /\ UNCHANGED <<made, closeEvent, closeCalled, closed, failFast, user, mishap>>
        /\ \/ task = "connect" /\ task' = "fail_cb"
           \/ task = "restore" /\ task' \in {"restore_ready", "raise_cb"}
           \/ task = "raise_cb" /\ task' = "raise_close"
           \/ task = "cancelling" /\ task' = "done"
           \/ task \in {"restore", "restore_ready"} /\ task' = "reopen_cb"
           \/ task = "reopen_cb" /\ task' = "restore"
        /\ task # "raise_cb" => conn' = conn
    BY <1>4 DEF AttemptFails, RestoreWaits, RestoreRaises, RestoreCloses, FactoryCancelled,
                ChannelReopened, ChannelRestored
  <2>2. Closing' <=> Closing
    BY <2>1 DEF Closing
  <2>3. EventKept' /\ UpMeanwhile' /\ LossIsTold'
    BY <2>1 DEF WaitInv, EventKept, UpMeanwhile, LossIsTold
  <2>4. EndIsError' /\ NoneConnects' /\ EstablishedFirst' /\ CloseIsKnown'
    BY <2>1, <2>2 DEF WaitInv, EndIsError, NoneConnects, EstablishedFirst, CloseIsKnown
  <2> QED BY <2>3, <2>4 DEF WaitInv
<1> QED BY <1>1, <1>2, <1>3, <1>4 DEF FactoryStep

\* The steps of the underlay connections.
LEMMA UnderlayKeepsWaits ==
  ASSUME TypeOK, WaitInv, NEW g \in Conns, UnderlayStep(g)
  PROVE  WaitInv'
<1>1. UNCHANGED <<made, closeCalled, closed, failFast, task, user>>
  BY DEF UnderlayStep, Lost, CloseStarts, CloseEnds
<1>2. Closing' <=> Closing
  BY <1>1 DEF Closing
<1>3. CloseIsKnown' /\ EndIsError' /\ NoneConnects' /\ EstablishedFirst'
  BY <1>1, <1>2 DEF WaitInv, CloseIsKnown, EndIsError, NoneConnects, EstablishedFirst
<1>4. CASE Lost(g)
  BY <1>1, <1>3, <1>4, GoingDownKeepsWaits DEF Lost, WaitInv
<1>5. CASE CloseStarts(g) \/ CloseEnds(g)
  <2>1. PICK v \in {"callbacks", "finished"} :
           /\ conn' = [conn EXCEPT ![g] = v]
           /\ conn[g] \in {"closing", "callbacks"}
           /\ v = "finished" => closeEvent' \/ closed \/ closeCalled
    BY <1>5 DEF CloseStarts, CloseEnds
  <2>2. mishap' = mishap /\ (closeEvent => closeEvent')
    <3>1. CASE CloseStarts(g)
      BY <3>1, Zenon DEF CloseStarts
    <3>2. CASE CloseEnds(g)
      BY <3>2, Zenon DEF CloseEnds
    <3> QED BY <1>5, <3>1, <3>2
  <2>3. \A h \in Conns : conn'[h] = IF h = g THEN v ELSE conn[h]
    BY <2>1 DEF TypeOK
  <2>4. made > 0 => made \in Conns
    BY ConnectionAssumption DEF TypeOK, Conns
  <2>5. EventKept' /\ UpMeanwhile' /\ LossIsTold'
    BY <1>1, <2>1, <2>2, <2>3, <2>4
       DEF WaitInv, EventKept, UpMeanwhile, LossIsTold, CloseIsKnown
  <2> QED BY <1>3, <2>5 DEF WaitInv
<1> QED BY <1>4, <1>5 DEF UnderlayStep

\* A factory that does not find the close event set has a connection whose end
\* will set it, unless one went down during a restore or the reconnect
\* callbacks; a connect() that waits has a factory that did not end.
THEOREM NoneWaitsForNothingHolds == Spec => []NoneWaitsForNothing
<1>1. Init => WaitInv
  BY DEF Init, WaitInv, CloseIsKnown, EventKept, UpMeanwhile, LossIsTold, EndIsError,
         NoneConnects, EstablishedFirst
<1>2. TypeOK /\ WaitInv /\ [Next]_vars => WaitInv'
  <2> SUFFICES ASSUME TypeOK, WaitInv, [Next]_vars PROVE WaitInv'
    OBVIOUS
  <2>1. CASE UNCHANGED vars
    BY <2>1 DEF vars, WaitInv, CloseIsKnown, EventKept, UpMeanwhile, LossIsTold, EndIsError,
                NoneConnects, EstablishedFirst, Closing
  <2> QED BY <2>1, UserKeepsWaits, FactoryKeepsWaits, UnderlayKeepsWaits DEF Next
<1>3. WaitInv => NoneWaitsForNothing
  BY DEF WaitInv, LossIsTold, EndIsError, NoneConnects, EstablishedFirst, NoneWaitsForNothing
<1> QED BY <1>1, <1>2, <1>3, ConnectionTypes, PTL DEF Spec

-----------------------------------------------------------------------------
(* The connection implements Link. *)

\* The variables of Link.
linkNow == IF ~connected THEN "down" ELSE IF conn[made] = "open" THEN "up" ELSE "lost"
restoreNow ==
    IF task \in {"restore", "restore_ready", "reopen_cb"} THEN "running"
    ELSE IF task = "raise_cb" THEN "failed" ELSE "idle"
stoppedNow == closeCalled \/ task \in {"cancelling", "done"}

\* The actions of Link, in these variables.
LEMMA LinkMapping ==
  /\ Connectivity!Up <=>
        /\ linkNow = "down" /\ restoreNow = "idle" /\ ~stoppedNow
        /\ linkNow' = "up" /\ restoreNow' \in {"idle", "running"} /\ stoppedNow' = stoppedNow
  /\ Connectivity!Lost <=>
        /\ linkNow = "up" /\ linkNow' = "lost"
        /\ restoreNow' = restoreNow /\ stoppedNow' = stoppedNow
  /\ Connectivity!Down <=>
        /\ linkNow = "lost" /\ linkNow' = "down"
        /\ restoreNow' = restoreNow /\ stoppedNow' = stoppedNow
  /\ Connectivity!RestoreReturns <=>
        /\ restoreNow = "running" /\ restoreNow' = "idle"
        /\ linkNow' = linkNow /\ stoppedNow' = stoppedNow
  /\ Connectivity!RestoreRaises <=>
        /\ restoreNow = "running" /\ restoreNow' = "failed"
        /\ linkNow' = linkNow /\ stoppedNow' = stoppedNow
  /\ Connectivity!GiveUp <=>
        /\ restoreNow = "failed" /\ restoreNow' = "idle"
        /\ linkNow' = (IF linkNow = "up" THEN "lost" ELSE linkNow)
        /\ stoppedNow' = stoppedNow
  /\ Connectivity!Stop <=>
        stoppedNow' = TRUE /\ restoreNow' = "idle" /\ linkNow' = linkNow
  /\ UNCHANGED Connectivity!vars <=>
        linkNow' = linkNow /\ restoreNow' = restoreNow /\ stoppedNow' = stoppedNow
BY DEF Connectivity!Up, Connectivity!Lost, Connectivity!Down, Connectivity!RestoreReturns,
       Connectivity!RestoreRaises, Connectivity!GiveUp, Connectivity!Stop,
       Connectivity!vars, linkNow, restoreNow, stoppedNow

\* What the invariants say of these variables.
LEMMA LinkFacts ==
  ASSUME ConnInv, ConnectedIsLive
  PROVE  /\ stoppedNow \in BOOLEAN
         /\ made > 0 => made \in Conns
         /\ made \in Nat
         /\ linkNow = "up" => made > 0 /\ conn[made] = "open"
         /\ linkNow = "lost" => made > 0 /\ conn[made] = "closing"
         /\ task \in {"connect", "fail_cb"} => linkNow = "down" /\ ~connected
         /\ connected \in BOOLEAN
<1>1. stoppedNow \in BOOLEAN
  BY Zenon DEF ConnInv, TypeOK, stoppedNow
<1> QED
  BY <1>1, ConnectionAssumption
     DEF ConnInv, TypeOK, ConnectedIsLive, AttemptIsDue, linkNow, Conns

\* The last connection closes: the link is lost, if it was up.
LEMMA ClosesLink ==
  ASSUME TypeOK, made > 0, CloseUnderlay(made), UNCHANGED <<made, connected>>
  PROVE  linkNow' = IF linkNow = "up" THEN "lost" ELSE linkNow
BY ConnectionAssumption DEF TypeOK, CloseUnderlay, linkNow, Conns

\* What a step of the connection is to Link.
LinkStep == [Connectivity!Next]_Connectivity!vars

\* A step of a user may lose the link, or stop the factory.
LEMMA UserLink ==
  ASSUME ConnInv, ConnectedIsLive, NEW u \in Users, UserStep(u)
  PROVE  LinkStep
<1> USE DEF LinkStep, Connectivity!Next
<1>0. UNCHANGED <<made, connected>>
  BY DEF UserStep, Connect, FailFastDone, CancelConnect, Reconnect,
         ReconnectGoesOn, Channel, Close, FactoryGathered, UnderlayClosed
<1>1. ASSUME UNCHANGED conn \/ (transport = made /\ made > 0 /\ CloseUnderlay(made)),
             UNCHANGED closeCalled, task' = task \/ (task = "none" /\ task' = "loop")
      PROVE  LinkStep
  <2>1. restoreNow' = restoreNow /\ stoppedNow' = stoppedNow
    BY <1>1 DEF restoreNow, stoppedNow
  <2>2. CASE UNCHANGED conn
    <3>1. linkNow' = linkNow
      BY <1>0, <2>2 DEF linkNow
    <3> QED BY <2>1, <3>1, LinkMapping
  <2>3. CASE made > 0 /\ CloseUnderlay(made)
    <3>1. linkNow' = IF linkNow = "up" THEN "lost" ELSE linkNow
      BY <1>0, <2>3, ClosesLink DEF ConnInv
    <3> QED BY <2>1, <3>1, LinkMapping
  <2> QED BY <1>1, <2>2, <2>3
<1>2. CASE \/ Connect(u) \/ FailFastDone(u) \/ CancelConnect(u) \/ ReconnectGoesOn(u)
           \/ \E c \in Channels : Channel(u, c)
           \/ UnderlayClosed(u)
  BY <1>1, <1>2 DEF Connect, FailFastDone, CancelConnect, ReconnectGoesOn, Channel,
                    UnderlayClosed, ConnectBody
<1>3. CASE Reconnect(u)
  <2>1. transport # 0 => transport = made /\ made > 0
    BY ConnectionAssumption DEF ConnInv, TypeOK
  <2>2. UNCHANGED conn \/ (transport # 0 /\ CloseUnderlay(transport))
    BY <1>3 DEF Reconnect, GoesDown
  <2>3. UNCHANGED closeCalled
    BY <1>3 DEF Reconnect
  <2>4. task' = task \/ (task = "none" /\ task' = "loop")
    BY <1>3 DEF Reconnect, ConnectBody
  <2> QED BY <1>1, <2>1, <2>2, <2>3, <2>4
<1>4. CASE Close(u) \/ FactoryGathered(u)
  <2>1. CASE SuperClose(u) /\ task' = "none" /\ task \in {"none", "loop", "done", "cancelling"}
    <3>1. closeCalled' /\ stoppedNow' /\ restoreNow' = restoreNow /\ restoreNow = "idle"
      BY <2>1 DEF SuperClose, stoppedNow, restoreNow
    <3>2. transport # 0 => transport = made /\ made > 0
      BY ConnectionAssumption DEF ConnInv, TypeOK
    <3>3. CASE UNCHANGED conn
      <4>1. linkNow' = linkNow
        BY <1>0, <3>3 DEF linkNow
      <4>2. stoppedNow' = TRUE
        BY <3>1 DEF stoppedNow
      <4> QED BY <3>1, <4>1, <4>2, LinkMapping
    <3>4. CASE transport # 0 /\ CloseUnderlay(transport)
      <4>1. linkNow' = IF linkNow = "up" THEN "lost" ELSE linkNow
        BY <1>0, <3>2, <3>4, ClosesLink DEF ConnInv
      <4>2. stoppedNow
        BY <2>1, <3>2, <3>4 DEF ConnInv, AttemptIsDue, stoppedNow
      <4>3. stoppedNow' = stoppedNow
        BY <3>1, <4>2, LinkFacts DEF stoppedNow
      <4> QED BY <3>1, <4>1, <4>3, LinkMapping
    <3> QED BY <2>1, <3>3, <3>4 DEF SuperClose
  <2>2. CASE UNCHANGED <<conn, closeCalled>> /\ task' \in {"cancelling", "done"}
    <3>1. linkNow' = linkNow /\ restoreNow' = "idle" /\ stoppedNow' = TRUE
      BY <1>0, <2>2 DEF linkNow, restoreNow, stoppedNow
    <3> QED BY <3>1, LinkMapping
  <2>3. FactoryGathered(u) => task \in {"none", "loop", "done", "cancelling"}
    BY DEF FactoryGathered, ConnInv, FactoryStopped
  <2> QED BY <1>4, <2>1, <2>2, <2>3 DEF Close, FactoryGathered
<1> QED BY <1>2, <1>3, <1>4 DEF UserStep

\* A step of the factory brings the link up, ends a restore, or gives up.
LEMMA FactoryLink ==
  ASSUME ConnInv, ConnectedIsLive, ~SlowCallbacks, FactoryStep
  PROVE  LinkStep
<1> USE DEF LinkStep, Connectivity!Next
<1>0. ASSUME UNCHANGED <<made, conn, connected, closeCalled>>,
             restoreNow' = restoreNow, stoppedNow' = stoppedNow
      PROVE  LinkStep
  <2>1. linkNow' = linkNow
    BY <1>0 DEF linkNow
  <2> QED BY <1>0, <2>1, LinkMapping
<1>1. CASE FactoryLoop
  <2>1. UNCHANGED <<made, conn, closeCalled>> /\ task \in {"loop", "sleep", "wait"}
    BY <1>1 DEF FactoryLoop
  <2>2. CASE task' = "done" /\ UNCHANGED connected
    <3>1. linkNow' = linkNow /\ restoreNow' = "idle" /\ stoppedNow' = TRUE
      BY <2>1, <2>2 DEF linkNow, restoreNow, stoppedNow
    <3> QED BY <3>1, LinkMapping
  <2>3. CASE task' = "wait" /\ UNCHANGED connected
    <3>1. restoreNow' = restoreNow /\ stoppedNow' = stoppedNow
      BY <2>1, <2>3 DEF restoreNow, stoppedNow
    <3> QED BY <1>0, <2>1, <2>3, <3>1
  <2>4. CASE task' = "connect" /\ connected' = FALSE /\ closeEvent /\ ~closeCalled
    <3>1. made > 0 => conn[made] = "finished"
      BY <1>1, <2>4 DEF FactoryLoop, CloseHandled, ConnInv, TypeOK, AttemptIsDue, Conns
    <3>2. connected' = connected
      BY <2>4, <3>1, LinkFacts DEF ConnectedIsLive
    <3>3. restoreNow' = restoreNow /\ stoppedNow' = stoppedNow
      BY <2>1, <2>4 DEF restoreNow, stoppedNow
    <3> QED BY <1>0, <2>1, <3>2, <3>3
  <2> QED BY <1>1, <2>2, <2>3, <2>4 DEF FactoryLoop
<1>2. CASE AttemptFails
  <2>1. connected' = connected
    BY <1>2, LinkFacts DEF AttemptFails
  <2>2. restoreNow' = restoreNow /\ stoppedNow' = stoppedNow
    BY <1>2 DEF AttemptFails, restoreNow, stoppedNow
  <2> QED BY <1>0, <1>2, <2>1, <2>2 DEF AttemptFails
<1>3. CASE FailureHandled \/ RestoreGivesUp
  <2>1. /\ UNCHANGED <<made, conn, connected, closeCalled>>
        /\ task \in {"fail_cb", "raise_close"} /\ task' \in {"done", "sleep"}
    BY <1>3 DEF FailureHandled, RestoreGivesUp, AttemptRaises
  <2>2. linkNow' = linkNow /\ restoreNow' = restoreNow /\ restoreNow = "idle"
    BY <2>1 DEF linkNow, restoreNow
  <2>3. stoppedNow' = TRUE \/ stoppedNow' = stoppedNow
    BY <2>1 DEF stoppedNow
  <2> QED BY <2>2, <2>3, LinkMapping
<1>4. CASE AttemptSucceeds
  <2>1. /\ task = "connect" /\ made' = made + 1 /\ made + 1 \in Conns
        /\ conn' = [conn EXCEPT ![made + 1] = "open"] /\ connected' = TRUE
        /\ UNCHANGED closeCalled
        /\ task' \in {"restore", "reconnect_cb", "sleep"}
    <3>1. made + 1 \in Conns
      BY <1>4, LinkFacts, ConnectionAssumption DEF AttemptSucceeds, Conns
    <3> QED BY <1>4, <3>1 DEF AttemptSucceeds, AfterRestore, Established
  <2>2. linkNow = "down" /\ restoreNow = "idle"
    BY <2>1, LinkFacts DEF restoreNow
  <2>3. ~stoppedNow
    BY <2>1 DEF ConnInv, FactoryStopped, stoppedNow
  <2>4. linkNow' = "up"
    BY <2>1 DEF linkNow, ConnInv, TypeOK
  <2>5. restoreNow' \in {"idle", "running"} /\ stoppedNow' = stoppedNow
    BY <2>1 DEF restoreNow, stoppedNow
  <2> QED BY <2>2, <2>3, <2>4, <2>5, LinkMapping
<1>5. CASE RestoreWaits \/ \E c \in Channels : ChannelReopened(c)
  <2>1. /\ UNCHANGED <<made, conn, connected, closeCalled>>
        /\ {task, task'} \subseteq {"restore", "restore_ready", "reopen_cb"}
    BY <1>5 DEF RestoreWaits, ChannelReopened
  <2>2. restoreNow' = restoreNow /\ stoppedNow' = stoppedNow
    BY <2>1 DEF restoreNow, stoppedNow
  <2> QED BY <1>0, <2>1, <2>2
<1>6. CASE ChannelRestored \/ Reconnected
  <2>1. /\ UNCHANGED <<made, conn, connected, closeCalled>>
        /\ task \in {"reopen_cb", "reconnect_cb"}
        /\ task' \in {"restore", "reconnect_cb", "sleep"}
        /\ task = "reconnect_cb" => task' = "sleep"
    BY <1>6 DEF ChannelRestored, Reconnected, AfterRestore, Established
  <2>2. linkNow' = linkNow /\ stoppedNow' = stoppedNow
    BY <2>1 DEF linkNow, stoppedNow
  <2>3. restoreNow' = restoreNow \/ (restoreNow = "running" /\ restoreNow' = "idle")
    BY <2>1 DEF restoreNow
  <2> QED BY <2>2, <2>3, LinkMapping
<1>7. CASE RestoreRaises
  <2>1. linkNow' = linkNow /\ stoppedNow' = stoppedNow
    BY <1>7 DEF RestoreRaises, linkNow, stoppedNow
  <2>2. restoreNow = "running" /\ restoreNow' = "failed"
    BY <1>7 DEF RestoreRaises, restoreNow
  <2> QED BY <2>1, <2>2, LinkMapping
<1>8. CASE RestoreCloses
  <2>1. /\ CloseUnderlay(made) /\ task = "raise_cb" /\ task' = "raise_close"
        /\ UNCHANGED <<made, connected, closeCalled>>
    BY <1>8 DEF RestoreCloses
  <2>2. linkNow' = (IF linkNow = "up" THEN "lost" ELSE linkNow)
    <3>1. CASE made > 0
      BY <2>1, <3>1, ClosesLink DEF ConnInv
    <3>2. CASE ~(made > 0)
      BY <2>1, <3>2, LinkFacts DEF linkNow, ConnectedIsLive
    <3> QED BY <3>1, <3>2
  <2>3. restoreNow = "failed" /\ restoreNow' = "idle" /\ stoppedNow' = stoppedNow
    BY <2>1 DEF restoreNow, stoppedNow
  <2> QED BY <2>2, <2>3, LinkMapping
<1>9. CASE FactoryCancelled
  <2>1. restoreNow' = restoreNow /\ stoppedNow' = stoppedNow
    BY <1>9 DEF FactoryCancelled, restoreNow, stoppedNow
  <2> QED BY <1>0, <1>9, <2>1 DEF FactoryCancelled
<1> QED BY <1>1, <1>2, <1>3, <1>4, <1>5, <1>6, <1>7, <1>8, <1>9 DEF FactoryStep

\* The end of a connection is the end of the link: it is the last one.
LEMMA UnderlayLink ==
  ASSUME ConnInv, ConnectedIsLive, NEW g \in Conns, UnderlayStep(g)
  PROVE  LinkStep
<1> USE DEF LinkStep, Connectivity!Next
<1>1. g = made /\ made > 0
  BY ConnectionAssumption
     DEF ConnInv, UnderlayStep, Lost, GoesDown, CloseStarts, CloseEnds, TypeOK, OldFinished, Conns
<1>2. UNCHANGED <<made, closeCalled, task>>
  BY DEF UnderlayStep, Lost, CloseStarts, CloseEnds
<1>3. restoreNow' = restoreNow /\ stoppedNow' = stoppedNow
  BY <1>2 DEF restoreNow, stoppedNow
<1>4. CASE Lost(g)
  <2>1. linkNow' = IF linkNow = "up" THEN "lost" ELSE linkNow
    BY <1>1, <1>4, ClosesLink DEF Lost, GoesDown, ConnInv
  <2> QED BY <1>3, <2>1, LinkMapping
<1>5. CASE CloseStarts(g)
  <2>1. linkNow' = "down" /\ linkNow \in {"lost", "down"}
    BY <1>1, <1>5 DEF CloseStarts, linkNow
  <2> QED BY <1>3, <2>1, LinkMapping
<1>6. CASE CloseEnds(g)
  <2>1. ~connected /\ connected' = connected
    BY <1>1, <1>6, LinkFacts DEF CloseEnds, ConnectedIsLive
  <2>2. linkNow' = linkNow
    BY <2>1 DEF linkNow
  <2> QED BY <1>3, <2>2, LinkMapping
<1> QED BY <1>4, <1>5, <1>6 DEF UnderlayStep

\* The reconnecting connection implements Link, if callbacks are not slow.
THEOREM ConnectionImplementsLink ==
  ASSUME ~SlowCallbacks
  PROVE  Spec => ImplementsLink
<1>1. Init => Connectivity!Init
  BY DEF Init, Connectivity!Init
<1>2. ConnInv /\ ConnectedIsLive /\ [Next]_vars => [Connectivity!Next]_Connectivity!vars
  <2> SUFFICES ASSUME ConnInv, ConnectedIsLive, [Next]_vars PROVE LinkStep
    BY DEF LinkStep
  <2>1. CASE UNCHANGED vars
    <3>1. linkNow' = linkNow /\ restoreNow' = restoreNow /\ stoppedNow' = stoppedNow
      BY <2>1 DEF vars, linkNow, restoreNow, stoppedNow
    <3> QED BY <3>1, LinkMapping DEF LinkStep
  <2> QED BY <2>1, UserLink, FactoryLink, UnderlayLink DEF Next
<1>3. Spec => []ConnInv
  BY ConnectionInvariant
<1> QED BY <1>1, <1>2, <1>3, ConnectedWhileLive, PTL
        DEF Spec, ImplementsLink, Connectivity!Spec
=============================================================================
