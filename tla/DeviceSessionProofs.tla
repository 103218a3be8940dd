------------------------- MODULE DeviceSessionProofs -------------------------
(***************************************************************************)
(* The safety properties of DeviceSession for any number of threads,       *)
(* connections and nested commands, from one inductive invariant.          *)
(***************************************************************************)
EXTENDS DeviceSession, TLAPS

\* The gate: its shared holders are the requesting threads, its exclusive
\* holder is the thread inside connect or disconnect, and never both.
GateInv ==
    /\ \A t \in Threads : t \in readers <=> pc[t] \in Requesting
    /\ \A t \in Threads : writer = t <=> pc[t] \in Lifecycle
    /\ writer # NoThread => readers = {}

\* Between the two halves of BeginConnect and until FinishConnect.
Connecting(t) == pc[t] \in {"connState", "connFinish"}

\* A generation was taken but state_ does not tell yet.
Retiring(t) == pc[t] \in {"connState", "discStore"}

\* How generation_ relates to the generation of the last connection, in
\* every session state and at every point between two stores.
GenerationInv ==
    /\ connGen <= generation
    /\ state = "Connected" /\ (\A t \in Threads : ~Retiring(t))
         => generation = connGen
    /\ state = "Poisoned" /\ (\A t \in Threads : ~Retiring(t))
         => generation <= connGen + 1
    /\ state = "Poisoned" /\ (\A t \in Threads : pc[t] # "poisonBump")
         => generation > connGen
    /\ state \in {"Disconnected", "Connecting"}
         => generation > connGen \/ epoch = 0
    /\ \A t \in Threads : Connecting(t) => generation > connGen
    /\ \A t \in Threads : pc[t] = "connFinish" => state = "Connecting"
    /\ state = "Connecting" => \E t \in Threads : pc[t] = "connFinish"
    /\ \A t \in Threads : pc[t] = "discStore" => generation > connGen \/ epoch = 0
    /\ \A t \in Threads : pc[t] = "discBump" => state # "Disconnected"

\* Only the thread whose compare-exchange succeeded increments generation_,
\* and only one does.
PoisonInv ==
    \A t \in Threads : pc[t] = "poisonBump" =>
        /\ state = "Poisoned"
        /\ generation = connGen
        /\ \A u \in Threads : pc[u] = "poisonBump" => u = t

\* What a thread that loaded Connected may still conclude from it.
SeenInv ==
    \A t \in Threads : pc[t] \in {"acqGen", "curGen"} /\ seen[t] = "Connected" =>
        /\ state \in {"Connected", "Poisoned"}
        /\ pc[t] = "curGen" => lease[t] = connGen

\* A context of the last connection's generation was captured on that
\* connection, or by a thread that can no longer be granted anything on it:
\* it read generation_ between the two halves of MarkPoisoned.
ContextInv ==
    \A t \in Threads :
        /\ ctx[t] <= generation
        /\ (\E u \in Threads : Connecting(u)) /\ ctx[t] = generation
             => ctxEpoch[t] = epoch + 1
        /\ ctx[t] = connGen /\ ctxEpoch[t] # epoch =>
             /\ state # "Connected"
             /\ pc[t] \notin Leased
             /\ pc[t] = "acqGen" => seen[t] # "Connected"

SessionInv ==
    /\ TypeOK
    /\ GateInv
    /\ GenerationInv
    /\ PoisonInv
    /\ SeenInv
    /\ LeaseOfThisConnection
    /\ ContextInv
    /\ GrantedOnCapturedConnection

-----------------------------------------------------------------------------
\* Every step keeps every variable in its domain.
LEMMA TypeStep ==
  ASSUME TypeOK, [Next]_vars
  PROVE  TypeOK'
PROOF
<1>. USE ThreadAssumption, BoundAssumption DEF TypeOK, States, Locations, Requesting, Acquiring,
   Leased, Lifecycle, ConnectSteps, DisconnectSteps, Waiting
<1>1. CASE UNCHANGED vars
  BY <1>1 DEF vars, history
<1>2. ASSUME NEW t \in Threads, RequestStep(t) \/ LifecycleStep(t) \/ Begin(t)
      PROVE  TypeOK'
  <2>1. CASE CaptureContext(t)
    BY <2>1 DEF CaptureContext, ConnectionInView, history
  <2>2. CASE AcquireShared(t)
    BY <2>2 DEF AcquireShared, Goto, history
  <2>3. CASE AcquireLoadState(t)
    BY <2>3 DEF AcquireLoadState, Goto, history
  <2>4. CASE AcquireLoadGeneration(t)
    BY <2>4 DEF AcquireLoadGeneration, Goto, ForgetSeen, history
  <2>5. CASE AcquireNested(t)
    BY <2>5 DEF AcquireNested, Goto, history
  <2>6. CASE CurrentLoadState(t)
    BY <2>6 DEF CurrentLoadState, Goto, history
  <2>7. CASE CurrentLoadGeneration(t)
    BY <2>7 DEF CurrentLoadGeneration, Goto, ForgetSeen, IsCurrent, history
  <2>8. CASE ExchangeOk(t)
    BY <2>8 DEF ExchangeOk, Goto, history
  <2>9. CASE MarkPoisonedSwap(t)
    BY <2>9 DEF MarkPoisonedSwap, Goto, history
  <2>10. CASE MarkPoisonedBump(t)
    BY <2>10 DEF MarkPoisonedBump, Goto, history
  <2>11. CASE ReleaseRequest(t)
    BY <2>11 DEF ReleaseRequest, Goto, ForgetLease, history
  <2>12. CASE WantConnect(t)
    BY <2>12 DEF WantConnect, Goto, history
  <2>13. CASE WantDisconnect(t)
    BY <2>13 DEF WantDisconnect, Goto, history
  <2>14. CASE AcquireLifecycle(t)
    BY <2>14 DEF AcquireLifecycle, Goto, GateFree, history
  <2>15. CASE BeginConnectBump(t)
    BY <2>15 DEF BeginConnectBump, Goto, history
  <2>16. CASE BeginConnectStore(t)
    BY <2>16 DEF BeginConnectStore, Goto, history
  <2>17. CASE FinishConnect(t)
    BY <2>17 DEF FinishConnect, Goto, history
  <2>18. CASE DisconnectLoad(t)
    BY <2>18 DEF DisconnectLoad, Goto, history
  <2>19. CASE DisconnectBump(t)
    BY <2>19 DEF DisconnectBump, Goto, history
  <2>20. CASE DisconnectStore(t)
    BY <2>20 DEF DisconnectStore, Goto, history
  <2>21. CASE ReleaseLifecycle(t)
    BY <2>21 DEF ReleaseLifecycle, Goto, history
  <2>22. QED
    BY <1>2, <2>1, <2>2, <2>3, <2>4, <2>5, <2>6, <2>7, <2>8, <2>9, <2>10, <2>11, <2>12, <2>13,
       <2>14, <2>15, <2>16, <2>17, <2>18, <2>19, <2>20, <2>21
       DEF RequestStep, LifecycleStep, Begin
<1>3. QED
  BY <1>1, <1>2 DEF Next

\* Locking and unlocking follow the program counters.
LEMMA GateStep ==
  ASSUME TypeOK, GateInv, [Next]_vars
  PROVE  GateInv'
PROOF
<1>. USE ThreadAssumption, BoundAssumption DEF TypeOK, GateInv, Requesting, Acquiring, Leased,
   Lifecycle, ConnectSteps, DisconnectSteps, Waiting
<1>1. CASE UNCHANGED vars
  BY <1>1 DEF vars, history
<1>2. ASSUME NEW t \in Threads, RequestStep(t) \/ LifecycleStep(t) \/ Begin(t)
      PROVE  GateInv'
  <2>1. CASE CaptureContext(t)
    BY <2>1 DEF CaptureContext, ConnectionInView, history
  <2>2. CASE AcquireShared(t)
    BY <2>2 DEF AcquireShared, Goto, history
  <2>3. CASE AcquireLoadState(t)
    BY <2>3 DEF AcquireLoadState, Goto, history
  <2>4. CASE AcquireLoadGeneration(t)
    BY <2>4 DEF AcquireLoadGeneration, Goto, ForgetSeen, history
  <2>5. CASE AcquireNested(t)
    BY <2>5 DEF AcquireNested, Goto, history
  <2>6. CASE CurrentLoadState(t)
    BY <2>6 DEF CurrentLoadState, Goto, history
  <2>7. CASE CurrentLoadGeneration(t)
    BY <2>7 DEF CurrentLoadGeneration, Goto, ForgetSeen, IsCurrent, history
  <2>8. CASE ExchangeOk(t)
    BY <2>8 DEF ExchangeOk, Goto, history
  <2>9. CASE MarkPoisonedSwap(t)
    BY <2>9 DEF MarkPoisonedSwap, Goto, history
  <2>10. CASE MarkPoisonedBump(t)
    BY <2>10 DEF MarkPoisonedBump, Goto, history
  <2>11. CASE ReleaseRequest(t)
    BY <2>11 DEF ReleaseRequest, Goto, ForgetLease, history
  <2>12. CASE WantConnect(t)
    BY <2>12 DEF WantConnect, Goto, history
  <2>13. CASE WantDisconnect(t)
    BY <2>13 DEF WantDisconnect, Goto, history
  <2>14. CASE AcquireLifecycle(t)
    BY <2>14 DEF AcquireLifecycle, Goto, GateFree, history
  <2>15. CASE BeginConnectBump(t)
    BY <2>15 DEF BeginConnectBump, Goto, history
  <2>16. CASE BeginConnectStore(t)
    BY <2>16 DEF BeginConnectStore, Goto, history
  <2>17. CASE FinishConnect(t)
    BY <2>17 DEF FinishConnect, Goto, history
  <2>18. CASE DisconnectLoad(t)
    BY <2>18 DEF DisconnectLoad, Goto, history
  <2>19. CASE DisconnectBump(t)
    BY <2>19 DEF DisconnectBump, Goto, history
  <2>20. CASE DisconnectStore(t)
    BY <2>20 DEF DisconnectStore, Goto, history
  <2>21. CASE ReleaseLifecycle(t)
    BY <2>21 DEF ReleaseLifecycle, Goto, history
  <2>22. QED
    BY <1>2, <2>1, <2>2, <2>3, <2>4, <2>5, <2>6, <2>7, <2>8, <2>9, <2>10, <2>11, <2>12, <2>13,
       <2>14, <2>15, <2>16, <2>17, <2>18, <2>19, <2>20, <2>21
       DEF RequestStep, LifecycleStep, Begin
<1>3. QED
  BY <1>1, <1>2 DEF Next

\* The thread between the halves of MarkPoisoned stays the only one: its
\* shared lock keeps every lifecycle out.
LEMMA PoisonStep ==
  ASSUME TypeOK, GateInv, GenerationInv, PoisonInv, [Next]_vars
  PROVE  PoisonInv'
PROOF
<1>. USE ThreadAssumption, BoundAssumption DEF TypeOK, GateInv, GenerationInv, PoisonInv,
   Retiring, Requesting, Acquiring, Leased, Lifecycle, ConnectSteps, DisconnectSteps, Waiting
<1>1. CASE UNCHANGED vars
  BY <1>1 DEF vars, history
<1>2. ASSUME NEW t \in Threads, RequestStep(t) \/ LifecycleStep(t) \/ Begin(t)
      PROVE  PoisonInv'
  <2>1. CASE CaptureContext(t)
    BY <2>1 DEF CaptureContext, ConnectionInView, history
  <2>2. CASE AcquireShared(t)
    BY <2>2 DEF AcquireShared, Goto, history
  <2>3. CASE AcquireLoadState(t)
    BY <2>3 DEF AcquireLoadState, Goto, history
  <2>4. CASE AcquireLoadGeneration(t)
    BY <2>4 DEF AcquireLoadGeneration, Goto, ForgetSeen, history
  <2>5. CASE AcquireNested(t)
    BY <2>5 DEF AcquireNested, Goto, history
  <2>6. CASE CurrentLoadState(t)
    BY <2>6 DEF CurrentLoadState, Goto, history
  <2>7. CASE CurrentLoadGeneration(t)
    BY <2>7 DEF CurrentLoadGeneration, Goto, ForgetSeen, IsCurrent, history
  <2>8. CASE ExchangeOk(t)
    BY <2>8 DEF ExchangeOk, Goto, history
  <2>9. CASE MarkPoisonedSwap(t)
    BY <2>9 DEF MarkPoisonedSwap, Goto, history
  <2>10. CASE MarkPoisonedBump(t)
    BY <2>10 DEF MarkPoisonedBump, Goto, history
  <2>11. CASE ReleaseRequest(t)
    BY <2>11 DEF ReleaseRequest, Goto, ForgetLease, history
  <2>12. CASE WantConnect(t)
    BY <2>12 DEF WantConnect, Goto, history
  <2>13. CASE WantDisconnect(t)
    BY <2>13 DEF WantDisconnect, Goto, history
  <2>14. CASE AcquireLifecycle(t)
    BY <2>14 DEF AcquireLifecycle, Goto, GateFree, history
  <2>15. CASE BeginConnectBump(t)
    BY <2>15 DEF BeginConnectBump, Goto, history
  <2>16. CASE BeginConnectStore(t)
    BY <2>16 DEF BeginConnectStore, Goto, history
  <2>17. CASE FinishConnect(t)
    BY <2>17 DEF FinishConnect, Goto, history
  <2>18. CASE DisconnectLoad(t)
    BY <2>18 DEF DisconnectLoad, Goto, history
  <2>19. CASE DisconnectBump(t)
    BY <2>19 DEF DisconnectBump, Goto, history
  <2>20. CASE DisconnectStore(t)
    BY <2>20 DEF DisconnectStore, Goto, history
  <2>21. CASE ReleaseLifecycle(t)
    BY <2>21 DEF ReleaseLifecycle, Goto, history
  <2>22. QED
    BY <1>2, <2>1, <2>2, <2>3, <2>4, <2>5, <2>6, <2>7, <2>8, <2>9, <2>10, <2>11, <2>12, <2>13,
       <2>14, <2>15, <2>16, <2>17, <2>18, <2>19, <2>20, <2>21
       DEF RequestStep, LifecycleStep, Begin
<1>3. QED
  BY <1>1, <1>2 DEF Next

\* Every order of the loads and stores keeps generation_ tied to state_.
LEMMA GenerationStep ==
  ASSUME TypeOK, GateInv, GenerationInv, PoisonInv, [Next]_vars
  PROVE  GenerationInv'
PROOF
<1>. USE ThreadAssumption, BoundAssumption DEF TypeOK, States, GateInv, GenerationInv,
   PoisonInv, Retiring, Connecting, Requesting, Acquiring, Leased, Lifecycle, ConnectSteps,
   DisconnectSteps, Waiting
<1>1. CASE UNCHANGED vars
  BY <1>1 DEF vars, history
<1>2. ASSUME NEW t \in Threads, RequestStep(t) \/ LifecycleStep(t) \/ Begin(t)
      PROVE  GenerationInv'
  <2>1. CASE CaptureContext(t)
    BY <2>1 DEF CaptureContext, ConnectionInView, history
  <2>2. CASE AcquireShared(t)
    BY <2>2 DEF AcquireShared, Goto, history
  <2>3. CASE AcquireLoadState(t)
    BY <2>3 DEF AcquireLoadState, Goto, history
  <2>4. CASE AcquireLoadGeneration(t)
    BY <2>4 DEF AcquireLoadGeneration, Goto, ForgetSeen, history
  <2>5. CASE AcquireNested(t)
    BY <2>5 DEF AcquireNested, Goto, history
  <2>6. CASE CurrentLoadState(t)
    BY <2>6 DEF CurrentLoadState, Goto, history
  <2>7. CASE CurrentLoadGeneration(t)
    BY <2>7 DEF CurrentLoadGeneration, Goto, ForgetSeen, IsCurrent, history
  <2>8. CASE ExchangeOk(t)
    BY <2>8 DEF ExchangeOk, Goto, history
  <2>9. CASE MarkPoisonedSwap(t)
    BY <2>9 DEF MarkPoisonedSwap, Goto, history
  <2>10. CASE MarkPoisonedBump(t)
    BY <2>10 DEF MarkPoisonedBump, Goto, history
  <2>11. CASE ReleaseRequest(t)
    BY <2>11 DEF ReleaseRequest, Goto, ForgetLease, history
  <2>12. CASE WantConnect(t)
    BY <2>12 DEF WantConnect, Goto, history
  <2>13. CASE WantDisconnect(t)
    BY <2>13 DEF WantDisconnect, Goto, history
  <2>14. CASE AcquireLifecycle(t)
    BY <2>14 DEF AcquireLifecycle, Goto, GateFree, history
  <2>15. CASE BeginConnectBump(t)
    BY <2>15 DEF BeginConnectBump, Goto, history
  <2>16. CASE BeginConnectStore(t)
    BY <2>16 DEF BeginConnectStore, Goto, history
  <2>17. CASE FinishConnect(t)
    BY <2>17 DEF FinishConnect, Goto, history
  <2>18. CASE DisconnectLoad(t)
    BY <2>18 DEF DisconnectLoad, Goto, history
  <2>19. CASE DisconnectBump(t)
    BY <2>19 DEF DisconnectBump, Goto, history
  <2>20. CASE DisconnectStore(t)
    BY <2>20 DEF DisconnectStore, Goto, history
  <2>21. CASE ReleaseLifecycle(t)
    BY <2>21 DEF ReleaseLifecycle, Goto, history
  <2>22. QED
    BY <1>2, <2>1, <2>2, <2>3, <2>4, <2>5, <2>6, <2>7, <2>8, <2>9, <2>10, <2>11, <2>12, <2>13,
       <2>14, <2>15, <2>16, <2>17, <2>18, <2>19, <2>20, <2>21
       DEF RequestStep, LifecycleStep, Begin
<1>3. QED
  BY <1>1, <1>2 DEF Next

\* A loaded Connected can only have become Poisoned while the lock is held.
LEMMA SeenStep ==
  ASSUME TypeOK, GateInv, GenerationInv, PoisonInv, SeenInv, LeaseOfThisConnection, [Next]_vars
  PROVE  SeenInv'
PROOF
<1>. USE ThreadAssumption, BoundAssumption DEF TypeOK, States, GateInv, GenerationInv,
   PoisonInv, SeenInv, LeaseOfThisConnection, Retiring, Requesting, Acquiring, Leased,
   Lifecycle, ConnectSteps, DisconnectSteps, Waiting
<1>1. CASE UNCHANGED vars
  BY <1>1 DEF vars, history
<1>2. ASSUME NEW t \in Threads, RequestStep(t) \/ LifecycleStep(t) \/ Begin(t)
      PROVE  SeenInv'
  <2>1. CASE CaptureContext(t)
    BY <2>1 DEF CaptureContext, ConnectionInView, history
  <2>2. CASE AcquireShared(t)
    BY <2>2 DEF AcquireShared, Goto, history
  <2>3. CASE AcquireLoadState(t)
    BY <2>3 DEF AcquireLoadState, Goto, history
  <2>4. CASE AcquireLoadGeneration(t)
    BY <2>4 DEF AcquireLoadGeneration, Goto, ForgetSeen, history
  <2>5. CASE AcquireNested(t)
    BY <2>5 DEF AcquireNested, Goto, history
  <2>6. CASE CurrentLoadState(t)
    BY <2>6 DEF CurrentLoadState, Goto, history
  <2>7. CASE CurrentLoadGeneration(t)
    BY <2>7 DEF CurrentLoadGeneration, Goto, ForgetSeen, IsCurrent, history
  <2>8. CASE ExchangeOk(t)
    BY <2>8 DEF ExchangeOk, Goto, history
  <2>9. CASE MarkPoisonedSwap(t)
    BY <2>9 DEF MarkPoisonedSwap, Goto, history
  <2>10. CASE MarkPoisonedBump(t)
    BY <2>10 DEF MarkPoisonedBump, Goto, history
  <2>11. CASE ReleaseRequest(t)
    BY <2>11 DEF ReleaseRequest, Goto, ForgetLease, history
  <2>12. CASE WantConnect(t)
    BY <2>12 DEF WantConnect, Goto, history
  <2>13. CASE WantDisconnect(t)
    BY <2>13 DEF WantDisconnect, Goto, history
  <2>14. CASE AcquireLifecycle(t)
    BY <2>14 DEF AcquireLifecycle, Goto, GateFree, history
  <2>15. CASE BeginConnectBump(t)
    BY <2>15 DEF BeginConnectBump, Goto, history
  <2>16. CASE BeginConnectStore(t)
    BY <2>16 DEF BeginConnectStore, Goto, history
  <2>17. CASE FinishConnect(t)
    BY <2>17 DEF FinishConnect, Goto, history
  <2>18. CASE DisconnectLoad(t)
    BY <2>18 DEF DisconnectLoad, Goto, history
  <2>19. CASE DisconnectBump(t)
    BY <2>19 DEF DisconnectBump, Goto, history
  <2>20. CASE DisconnectStore(t)
    BY <2>20 DEF DisconnectStore, Goto, history
  <2>21. CASE ReleaseLifecycle(t)
    BY <2>21 DEF ReleaseLifecycle, Goto, history
  <2>22. QED
    BY <1>2, <2>1, <2>2, <2>3, <2>4, <2>5, <2>6, <2>7, <2>8, <2>9, <2>10, <2>11, <2>12, <2>13,
       <2>14, <2>15, <2>16, <2>17, <2>18, <2>19, <2>20, <2>21
       DEF RequestStep, LifecycleStep, Begin
<1>3. QED
  BY <1>1, <1>2 DEF Next

\* A lease taken from Connected is of this connection or already revoked.
LEMMA LeaseStep ==
  ASSUME TypeOK, GateInv, GenerationInv, PoisonInv, SeenInv, LeaseOfThisConnection, [Next]_vars
  PROVE  LeaseOfThisConnection'
PROOF
<1>. USE ThreadAssumption, BoundAssumption DEF TypeOK, GateInv, GenerationInv, PoisonInv,
   SeenInv, LeaseOfThisConnection, Retiring, Requesting, Acquiring, Leased, Lifecycle,
   ConnectSteps, DisconnectSteps, Waiting
<1>1. CASE UNCHANGED vars
  BY <1>1 DEF vars, history
<1>2. ASSUME NEW t \in Threads, RequestStep(t) \/ LifecycleStep(t) \/ Begin(t)
      PROVE  LeaseOfThisConnection'
  <2>1. CASE CaptureContext(t)
    BY <2>1 DEF CaptureContext, ConnectionInView, history
  <2>2. CASE AcquireShared(t)
    BY <2>2 DEF AcquireShared, Goto, history
  <2>3. CASE AcquireLoadState(t)
    BY <2>3 DEF AcquireLoadState, Goto, history
  <2>4. CASE AcquireLoadGeneration(t)
    BY <2>4 DEF AcquireLoadGeneration, Goto, ForgetSeen, history
  <2>5. CASE AcquireNested(t)
    BY <2>5 DEF AcquireNested, Goto, history
  <2>6. CASE CurrentLoadState(t)
    BY <2>6 DEF CurrentLoadState, Goto, history
  <2>7. CASE CurrentLoadGeneration(t)
    BY <2>7 DEF CurrentLoadGeneration, Goto, ForgetSeen, IsCurrent, history
  <2>8. CASE ExchangeOk(t)
    BY <2>8 DEF ExchangeOk, Goto, history
  <2>9. CASE MarkPoisonedSwap(t)
    BY <2>9 DEF MarkPoisonedSwap, Goto, history
  <2>10. CASE MarkPoisonedBump(t)
    BY <2>10 DEF MarkPoisonedBump, Goto, history
  <2>11. CASE ReleaseRequest(t)
    BY <2>11 DEF ReleaseRequest, Goto, ForgetLease, history
  <2>12. CASE WantConnect(t)
    BY <2>12 DEF WantConnect, Goto, history
  <2>13. CASE WantDisconnect(t)
    BY <2>13 DEF WantDisconnect, Goto, history
  <2>14. CASE AcquireLifecycle(t)
    BY <2>14 DEF AcquireLifecycle, Goto, GateFree, history
  <2>15. CASE BeginConnectBump(t)
    BY <2>15 DEF BeginConnectBump, Goto, history
  <2>16. CASE BeginConnectStore(t)
    BY <2>16 DEF BeginConnectStore, Goto, history
  <2>17. CASE FinishConnect(t)
    BY <2>17 DEF FinishConnect, Goto, history
  <2>18. CASE DisconnectLoad(t)
    BY <2>18 DEF DisconnectLoad, Goto, history
  <2>19. CASE DisconnectBump(t)
    BY <2>19 DEF DisconnectBump, Goto, history
  <2>20. CASE DisconnectStore(t)
    BY <2>20 DEF DisconnectStore, Goto, history
  <2>21. CASE ReleaseLifecycle(t)
    BY <2>21 DEF ReleaseLifecycle, Goto, history
  <2>22. QED
    BY <1>2, <2>1, <2>2, <2>3, <2>4, <2>5, <2>6, <2>7, <2>8, <2>9, <2>10, <2>11, <2>12, <2>13,
       <2>14, <2>15, <2>16, <2>17, <2>18, <2>19, <2>20, <2>21
       DEF RequestStep, LifecycleStep, Begin
<1>3. QED
  BY <1>1, <1>2 DEF Next

\* A context never carries a connection's generation by accident.
LEMMA ContextStep ==
  ASSUME TypeOK, GateInv, GenerationInv, PoisonInv, ContextInv, [Next]_vars
  PROVE  ContextInv'
PROOF
<1>. USE ThreadAssumption, BoundAssumption DEF TypeOK, States, GateInv, GenerationInv,
   PoisonInv, ContextInv, Retiring, Connecting, Requesting, Acquiring, Leased, Lifecycle,
   ConnectSteps, DisconnectSteps, Waiting
<1>1. CASE UNCHANGED vars
  BY <1>1 DEF vars, history
<1>2. ASSUME NEW t \in Threads, RequestStep(t) \/ LifecycleStep(t) \/ Begin(t)
      PROVE  ContextInv'
  <2>1. CASE CaptureContext(t)
    BY <2>1 DEF CaptureContext, ConnectionInView, history
  <2>2. CASE AcquireShared(t)
    BY <2>2 DEF AcquireShared, Goto, history
  <2>3. CASE AcquireLoadState(t)
    BY <2>3 DEF AcquireLoadState, Goto, history
  <2>4. CASE AcquireLoadGeneration(t)
    BY <2>4 DEF AcquireLoadGeneration, Goto, ForgetSeen, history
  <2>5. CASE AcquireNested(t)
    BY <2>5 DEF AcquireNested, Goto, history
  <2>6. CASE CurrentLoadState(t)
    BY <2>6 DEF CurrentLoadState, Goto, history
  <2>7. CASE CurrentLoadGeneration(t)
    BY <2>7 DEF CurrentLoadGeneration, Goto, ForgetSeen, IsCurrent, history
  <2>8. CASE ExchangeOk(t)
    BY <2>8 DEF ExchangeOk, Goto, history
  <2>9. CASE MarkPoisonedSwap(t)
    BY <2>9 DEF MarkPoisonedSwap, Goto, history
  <2>10. CASE MarkPoisonedBump(t)
    BY <2>10 DEF MarkPoisonedBump, Goto, history
  <2>11. CASE ReleaseRequest(t)
    BY <2>11 DEF ReleaseRequest, Goto, ForgetLease, history
  <2>12. CASE WantConnect(t)
    BY <2>12 DEF WantConnect, Goto, history
  <2>13. CASE WantDisconnect(t)
    BY <2>13 DEF WantDisconnect, Goto, history
  <2>14. CASE AcquireLifecycle(t)
    BY <2>14 DEF AcquireLifecycle, Goto, GateFree, history
  <2>15. CASE BeginConnectBump(t)
    BY <2>15 DEF BeginConnectBump, Goto, history
  <2>16. CASE BeginConnectStore(t)
    BY <2>16 DEF BeginConnectStore, Goto, history
  <2>17. CASE FinishConnect(t)
    BY <2>17 DEF FinishConnect, Goto, history
  <2>18. CASE DisconnectLoad(t)
    BY <2>18 DEF DisconnectLoad, Goto, history
  <2>19. CASE DisconnectBump(t)
    BY <2>19 DEF DisconnectBump, Goto, history
  <2>20. CASE DisconnectStore(t)
    BY <2>20 DEF DisconnectStore, Goto, history
  <2>21. CASE ReleaseLifecycle(t)
    BY <2>21 DEF ReleaseLifecycle, Goto, history
  <2>22. QED
    BY <1>2, <2>1, <2>2, <2>3, <2>4, <2>5, <2>6, <2>7, <2>8, <2>9, <2>10, <2>11, <2>12, <2>13,
       <2>14, <2>15, <2>16, <2>17, <2>18, <2>19, <2>20, <2>21
       DEF RequestStep, LifecycleStep, Begin
<1>3. QED
  BY <1>1, <1>2 DEF Next

\* isCurrent together with the generation test identifies the connection.
LEMMA GrantedStep ==
  ASSUME TypeOK, GateInv, SeenInv, ContextInv, GrantedOnCapturedConnection, [Next]_vars
  PROVE  GrantedOnCapturedConnection'
PROOF
<1>. USE ThreadAssumption, BoundAssumption DEF TypeOK, GateInv, SeenInv, ContextInv,
   GrantedOnCapturedConnection, Requesting, Acquiring, Leased, Lifecycle, ConnectSteps,
   DisconnectSteps, Waiting
<1>1. CASE UNCHANGED vars
  BY <1>1 DEF vars, history
<1>2. ASSUME NEW t \in Threads, RequestStep(t) \/ LifecycleStep(t) \/ Begin(t)
      PROVE  GrantedOnCapturedConnection'
  <2>1. CASE CaptureContext(t)
    BY <2>1 DEF CaptureContext, ConnectionInView, history
  <2>2. CASE AcquireShared(t)
    BY <2>2 DEF AcquireShared, Goto, history
  <2>3. CASE AcquireLoadState(t)
    BY <2>3 DEF AcquireLoadState, Goto, history
  <2>4. CASE AcquireLoadGeneration(t)
    BY <2>4 DEF AcquireLoadGeneration, Goto, ForgetSeen, history
  <2>5. CASE AcquireNested(t)
    BY <2>5 DEF AcquireNested, Goto, history
  <2>6. CASE CurrentLoadState(t)
    BY <2>6 DEF CurrentLoadState, Goto, history
  <2>7. CASE CurrentLoadGeneration(t)
    BY <2>7 DEF CurrentLoadGeneration, Goto, ForgetSeen, IsCurrent, history
  <2>8. CASE ExchangeOk(t)
    BY <2>8 DEF ExchangeOk, Goto, history
  <2>9. CASE MarkPoisonedSwap(t)
    BY <2>9 DEF MarkPoisonedSwap, Goto, history
  <2>10. CASE MarkPoisonedBump(t)
    BY <2>10 DEF MarkPoisonedBump, Goto, history
  <2>11. CASE ReleaseRequest(t)
    BY <2>11 DEF ReleaseRequest, Goto, ForgetLease, history
  <2>12. CASE WantConnect(t)
    BY <2>12 DEF WantConnect, Goto, history
  <2>13. CASE WantDisconnect(t)
    BY <2>13 DEF WantDisconnect, Goto, history
  <2>14. CASE AcquireLifecycle(t)
    BY <2>14 DEF AcquireLifecycle, Goto, GateFree, history
  <2>15. CASE BeginConnectBump(t)
    BY <2>15 DEF BeginConnectBump, Goto, history
  <2>16. CASE BeginConnectStore(t)
    BY <2>16 DEF BeginConnectStore, Goto, history
  <2>17. CASE FinishConnect(t)
    BY <2>17 DEF FinishConnect, Goto, history
  <2>18. CASE DisconnectLoad(t)
    BY <2>18 DEF DisconnectLoad, Goto, history
  <2>19. CASE DisconnectBump(t)
    BY <2>19 DEF DisconnectBump, Goto, history
  <2>20. CASE DisconnectStore(t)
    BY <2>20 DEF DisconnectStore, Goto, history
  <2>21. CASE ReleaseLifecycle(t)
    BY <2>21 DEF ReleaseLifecycle, Goto, history
  <2>22. QED
    BY <1>2, <2>1, <2>2, <2>3, <2>4, <2>5, <2>6, <2>7, <2>8, <2>9, <2>10, <2>11, <2>12, <2>13,
       <2>14, <2>15, <2>16, <2>17, <2>18, <2>19, <2>20, <2>21
       DEF RequestStep, LifecycleStep, Begin
<1>3. QED
  BY <1>1, <1>2 DEF Next

-----------------------------------------------------------------------------
\* Init establishes the invariant.
LEMMA InitInv == Init => SessionInv
  BY ThreadAssumption, BoundAssumption
  DEF Init, SessionInv, TypeOK, States, Locations, GateInv, GenerationInv,
      PoisonInv, SeenInv, ContextInv, LeaseOfThisConnection,
      GrantedOnCapturedConnection, Connecting, Retiring, Requesting, Acquiring,
      Leased, Lifecycle, ConnectSteps, DisconnectSteps, Waiting

\* Every step preserves it: the parts are established in an order in which
\* each needs only the unprimed invariant.
LEMMA StepInv ==
  ASSUME SessionInv, [Next]_vars
  PROVE  SessionInv'
  BY TypeStep, GateStep, PoisonStep, GenerationStep, SeenStep, LeaseStep,
     ContextStep, GrantedStep DEF SessionInv

\* The session invariant holds in every reachable state.
THEOREM SessionInvariance == Spec => []SessionInv
  BY InitInv, StepInv, PTL DEF Spec

\* Every variable of the session stays in its domain, for any number of
\* threads, connection attempts and nested commands.
THEOREM TypeCorrect == Spec => []TypeOK
<1>1. SessionInv => TypeOK
  BY DEF SessionInv
<1>2. QED
  BY SessionInvariance, <1>1, PTL

\* A request goes to the wire only on the connection its OperationContext was
\* captured on, although state_ and generation_ are read one after the other
\* and poisoning updates them one after the other under a shared lock.
THEOREM CapturedConnectionOnly == Spec => []GrantedOnCapturedConnection
<1>1. SessionInv => GrantedOnCapturedConnection
  BY DEF SessionInv
<1>2. QED
  BY SessionInvariance, <1>1, PTL

\* No lease outlives the connection it was taken on.
THEOREM LeaseConfined == Spec => []LeaseOfThisConnection
<1>1. SessionInv => LeaseOfThisConnection
  BY DEF SessionInv
<1>2. QED
  BY SessionInvariance, <1>1, PTL

\* A connection that ended, by poisoning or by Disconnect, has its generation
\* retired by the time the gate is free again.
THEOREM EndedRetired == Spec => []EndedConnectionIsRetired
<1>1. SessionInv => EndedConnectionIsRetired
  BY DEF SessionInv, TypeOK, States, GateInv, GenerationInv,
         EndedConnectionIsRetired, GateFree, Requesting, Leased
<1>2. QED
  BY SessionInvariance, <1>1, PTL

\* FinishConnect(true) publishes a generation no earlier connection had, and
\* does so while no thread holds a request lease.
THEOREM ConnectionsAreFresh == Spec => FreshConnection
<1>1. ASSUME SessionInv, [Next]_vars
      PROVE  [epoch' > epoch => generation > connGen /\ readers = {}]_vars
  <2>1. CASE UNCHANGED vars
    BY <2>1
  <2>2. CASE \E t \in Threads : FinishConnect(t)
    <3>1. PICK t \in Threads : FinishConnect(t)
      BY <2>2
    <3>2. writer # NoThread
      BY <1>1, <3>1, ThreadAssumption
      DEF SessionInv, GateInv, FinishConnect, Lifecycle, ConnectSteps
    <3>3. generation > connGen
      BY <1>1, <3>1 DEF SessionInv, GenerationInv, FinishConnect, Connecting
    <3>4. QED
      BY <1>1, <3>2, <3>3 DEF SessionInv, GateInv
  <2>3. CASE epoch' = epoch
    BY <1>1, <2>3 DEF SessionInv, TypeOK
  <2>4. QED
    BY <1>1, <2>1, <2>2, <2>3
    DEF Next, RequestStep, LifecycleStep, Begin, history,
        CaptureContext, AcquireShared, AcquireLoadState,
        AcquireLoadGeneration, AcquireNested, CurrentLoadState,
        CurrentLoadGeneration, ExchangeOk, MarkPoisonedSwap,
        MarkPoisonedBump, ReleaseRequest, WantConnect, WantDisconnect,
        AcquireLifecycle, BeginConnectBump, BeginConnectStore,
        DisconnectLoad, DisconnectBump, DisconnectStore, ReleaseLifecycle
<1>2. QED
  BY SessionInvariance, <1>1, PTL DEF Spec, FreshConnection

-----------------------------------------------------------------------------
(* The refinement of AbstractSession.                                      *)

\* Whoever holds a lease, or finds the session Connected or Poisoned, can do
\* so only because there has been a connection.
EpochInv ==
    /\ state \in {"Connected", "Poisoned"} => epoch > 0
    /\ \A t \in Threads : pc[t] \in Leased => epoch > 0

\* A lease is taken after Connected was seen, and no connection is undone.
LEMMA EpochStep ==
  ASSUME SessionInv, EpochInv, [Next]_vars
  PROVE  EpochInv'
PROOF
<1>. USE ThreadAssumption, BoundAssumption DEF SessionInv, TypeOK, States, GateInv, SeenInv,
   PoisonInv, EpochInv, Requesting, Acquiring, Leased, Lifecycle, ConnectSteps, DisconnectSteps,
   Waiting
<1>1. CASE UNCHANGED vars
  BY <1>1 DEF vars
<1>2. ASSUME NEW t \in Threads, RequestStep(t) \/ LifecycleStep(t) \/ Begin(t)
      PROVE  EpochInv'
  <2>1. CASE FinishConnect(t)
    BY <2>1 DEF FinishConnect, Goto
  <2>2. CASE RequestStep(t)
    <3>1. /\ epoch' = epoch
          /\ state' = state \/ (state = "Connected" /\ state' = "Poisoned")
      BY <2>2 DEF RequestStep, AcquireLoadState, AcquireLoadGeneration,
         AcquireNested, CurrentLoadState, CurrentLoadGeneration, ExchangeOk,
         MarkPoisonedSwap, MarkPoisonedBump, ReleaseRequest, history
    <3>2. \A u \in Threads : pc'[u] \in Leased =>
             pc[u] \in Leased \/ (pc[u] = "acqGen" /\ seen[u] = "Connected")
      BY <2>2 DEF RequestStep, AcquireLoadState, AcquireLoadGeneration,
         AcquireNested, CurrentLoadState, CurrentLoadGeneration, ExchangeOk,
         MarkPoisonedSwap, MarkPoisonedBump, ReleaseRequest, Goto
    <3>3. QED
      BY <3>1, <3>2
  <2>3. CASE LifecycleStep(t) /\ ~FinishConnect(t)
    <3>1. epoch' = epoch /\ (state' = state \/ state' \in {"Connecting", "Disconnected"})
      BY <2>3 DEF LifecycleStep, AcquireLifecycle, BeginConnectBump,
         BeginConnectStore, DisconnectLoad, DisconnectBump, DisconnectStore,
         ReleaseLifecycle, history
    <3>2. \A u \in Threads : pc'[u] \in Leased => pc[u] \in Leased
      BY <2>3 DEF LifecycleStep, AcquireLifecycle, BeginConnectBump,
         BeginConnectStore, DisconnectLoad, DisconnectBump, DisconnectStore,
         ReleaseLifecycle, Goto
    <3>3. QED
      BY <3>1, <3>2
  <2>4. CASE Begin(t)
    BY <2>4 DEF Begin, CaptureContext, AcquireShared, WantConnect,
       WantDisconnect, Goto, history
  <2>5. QED
    BY <1>2, <2>1, <2>2, <2>3, <2>4
<1>3. QED
  BY <1>1, <1>2 DEF Next

\* What the refinement mapping makes of the session: whether a connection is
\* up, and which one each thread's request was let through to.
Up == epoch > 0 /\ generation = connGen
GrantedTo == [t \in Threads |-> IF pc[t] = "granted" THEN ctxEpoch[t] ELSE 0]

\* A step of a request lets it through to the connection that is up, takes it
\* back, ends the connection, or is invisible.
LEMMA RequestRefines ==
  ASSUME SessionInv, EpochInv, SessionInv', NEW t \in Threads, RequestStep(t)
  PROVE  Abstract!Next \/ UNCHANGED <<epoch, Up, GrantedTo>>
PROOF
<1>. USE DEF SessionInv, TypeOK, Up, GrantedTo
<1>1. epoch' = epoch /\ connGen' = connGen /\ ctxEpoch' = ctxEpoch
  BY DEF RequestStep, AcquireLoadState, AcquireLoadGeneration,
     AcquireNested, CurrentLoadState, CurrentLoadGeneration, ExchangeOk,
     MarkPoisonedSwap, MarkPoisonedBump, ReleaseRequest, history
<1>2. CASE pc[t] = "granted"
  <2>1. pc' = [pc EXCEPT ![t] = pc'[t]] /\ pc'[t] # "granted" /\ generation' = generation
    BY <1>2 DEF RequestStep, AcquireLoadState, AcquireLoadGeneration,
     AcquireNested, CurrentLoadState, CurrentLoadGeneration, ExchangeOk,
     MarkPoisonedSwap, MarkPoisonedBump, ReleaseRequest, Goto
  <2>2. GrantedTo[t] # 0
    BY <1>2 DEF EpochInv, Leased, GrantedOnCapturedConnection
  <2>3. GrantedTo' = [GrantedTo EXCEPT ![t] = 0]
    BY <1>1, <2>1
  <2>4. Abstract!Return(t)
    BY <1>1, <2>1, <2>2, <2>3 DEF Abstract!Return
  <2>5. QED
    BY <2>4 DEF Abstract!Next
<1>3. CASE CurrentLoadGeneration(t) /\ pc'[t] = "granted"
  <2>1. /\ pc[t] = "curGen" /\ pc' = [pc EXCEPT ![t] = "granted"]
        /\ seen[t] = "Connected" /\ generation = lease[t]
        /\ generation' = generation
    BY <1>3 DEF CurrentLoadGeneration, Goto, IsCurrent
  <2>2. Up
    BY <2>1 DEF EpochInv, SeenInv, Leased
  <2>3. ctxEpoch[t] = epoch
    BY <1>1, <1>3 DEF GrantedOnCapturedConnection
  <2>4. GrantedTo[t] = 0 /\ GrantedTo' = [GrantedTo EXCEPT ![t] = epoch]
    BY <1>1, <2>1, <2>3
  <2>5. Abstract!Grant(t)
    BY <1>1, <2>1, <2>2, <2>4 DEF Abstract!Grant
  <2>6. QED
    BY <2>5 DEF Abstract!Next
<1>4. CASE MarkPoisonedBump(t)
  <2>1. /\ pc[t] = "poisonBump" /\ pc' = [pc EXCEPT ![t] = "leased"]
        /\ generation' = generation + 1
    BY <1>4 DEF MarkPoisonedBump, Goto
  <2>2. GrantedTo' = GrantedTo
    BY <1>1, <2>1
  <2>3. Up /\ ~Up'
    BY <1>1, <2>1 DEF EpochInv, PoisonInv, Leased
  <2>4. Abstract!End
    BY <1>1, <2>2, <2>3 DEF Abstract!End
  <2>5. QED
    BY <2>4 DEF Abstract!Next
<1>5. CASE /\ pc[t] # "granted" /\ pc'[t] # "granted" /\ ~MarkPoisonedBump(t)
  <2>1. pc' = [pc EXCEPT ![t] = pc'[t]] /\ generation' = generation
    BY <1>5 DEF RequestStep, AcquireLoadState, AcquireLoadGeneration,
     AcquireNested, CurrentLoadState, CurrentLoadGeneration, ExchangeOk,
     MarkPoisonedSwap, ReleaseRequest, Goto
  <2>2. GrantedTo' = GrantedTo
    BY <1>1, <1>5, <2>1
  <2>3. QED
    BY <1>1, <2>1, <2>2
<1>6. QED
  BY <1>2, <1>3, <1>4, <1>5 DEF RequestStep, AcquireLoadState,
     AcquireLoadGeneration, AcquireNested, CurrentLoadState, ExchangeOk,
     MarkPoisonedSwap, MarkPoisonedBump, ReleaseRequest, Goto

\* A lifecycle step establishes a connection when none is up and nobody is on
\* the last one, ends the one that is up, or is invisible.
LEMMA LifecycleRefines ==
  ASSUME SessionInv, EpochInv, NEW t \in Threads, LifecycleStep(t)
  PROVE  Abstract!Next \/ UNCHANGED <<epoch, Up, GrantedTo>>
PROOF
<1>. USE DEF SessionInv, TypeOK, Up, GrantedTo
<1>1. GrantedTo' = GrantedTo
  BY DEF LifecycleStep, AcquireLifecycle, BeginConnectBump,
     BeginConnectStore, FinishConnect, DisconnectLoad, DisconnectBump,
     DisconnectStore, ReleaseLifecycle, Goto, Waiting, history
<1>2. CASE FinishConnect(t) /\ epoch' # epoch
  <2>1. /\ epoch' = epoch + 1 /\ connGen' = generation /\ generation' = generation
        /\ pc[t] = "connFinish"
    BY <1>2 DEF FinishConnect
  <2>2. ~Up /\ Up'
    BY <2>1 DEF GenerationInv, Connecting
  <2>3. \A u \in Threads : GrantedTo[u] = 0
    BY <2>1, ThreadAssumption
    DEF GateInv, Lifecycle, ConnectSteps, Requesting, Leased
  <2>4. Abstract!Establish
    BY <1>1, <2>1, <2>2, <2>3 DEF Abstract!Establish
  <2>5. QED
    BY <2>4 DEF Abstract!Next
<1>3. CASE BeginConnectBump(t) \/ DisconnectBump(t)
  <2>1. epoch' = epoch /\ connGen' = connGen /\ generation' = generation + 1
    BY <1>3 DEF BeginConnectBump, DisconnectBump, history
  <2>2. ~Up'
    BY <2>1 DEF GenerationInv
  <2>3. CASE Up
    <3>1. Abstract!End
      BY <1>1, <2>1, <2>2, <2>3 DEF Abstract!End
    <3>2. QED
      BY <3>1 DEF Abstract!Next
  <2>4. CASE ~Up
    BY <1>1, <2>1, <2>2, <2>4
  <2>5. QED
    BY <2>3, <2>4
<1>4. CASE UNCHANGED <<epoch, connGen, generation>>
  BY <1>1, <1>4
<1>5. QED
  BY <1>2, <1>3, <1>4 DEF LifecycleStep, AcquireLifecycle, BeginConnectStore,
     FinishConnect, DisconnectLoad, DisconnectStore, ReleaseLifecycle, history

\* What a caller begins is invisible to the abstract session.
LEMMA BeginRefines ==
  ASSUME SessionInv, NEW t \in Threads, Begin(t)
  PROVE  UNCHANGED <<epoch, Up, GrantedTo>>
PROOF
<1>1. UNCHANGED <<epoch, connGen, generation>>
  BY DEF Begin, CaptureContext, AcquireShared, WantConnect, WantDisconnect, history
<1>2. GrantedTo' = GrantedTo
  BY DEF SessionInv, TypeOK, GrantedTo, Begin, CaptureContext, AcquireShared,
     WantConnect, WantDisconnect, Goto, history
<1>3. QED
  BY <1>1, <1>2 DEF Up

\* The two atomics and the gate implement the abstract session, for any number
\* of threads and reconnects: every interleaving of the loads and stores of
\* AcquireRequest, isCurrent, MarkPoisoned, BeginConnect and Disconnect is one
\* of connections that come one after the other, each with its own requests.
THEOREM SessionRefinement == Spec => ImplementsAbstractSession
PROOF
<1>1. Init => EpochInv
  BY DEF Init, EpochInv, Leased
<1>2. Init => Abstract!Init
  BY DEF Init, Abstract!Init
<1>3. ASSUME SessionInv, EpochInv, SessionInv', [Next]_vars
      PROVE  [Abstract!Next]_(Abstract!vars)
  <2>1. CASE UNCHANGED vars
    BY <2>1 DEF vars, Abstract!vars
  <2>2. CASE Next
    <3>1. PICK t \in Threads : RequestStep(t) \/ LifecycleStep(t) \/ Begin(t)
      BY <2>2 DEF Next
    <3>2. Abstract!Next \/ UNCHANGED <<epoch, Up, GrantedTo>>
      BY <1>3, <3>1, RequestRefines, LifecycleRefines, BeginRefines
    <3>3. QED
      BY <3>2 DEF Abstract!vars, Up, GrantedTo
  <2>3. QED
    BY <1>3, <2>1, <2>2
<1>4. QED
  BY <1>1, <1>2, <1>3, EpochStep, SessionInvariance, PTL
  DEF Spec, ImplementsAbstractSession, Abstract!Spec
=============================================================================
