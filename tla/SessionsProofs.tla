----------------------------- MODULE SessionsProofs -----------------------------
(***************************************************************************)
(* Proofs about Sessions: for any script that starts with a prompt, the    *)
(* session and the main loop share thread_and_lock, the thread pool and,   *)
(* for a final test, the device locks soundly, although nothing but the    *)
(* flag and the first prompt keeps them apart; as long as the flag is the  *)
(* session's own, that is.  The lemmas of ThreadLocksProofs say what one   *)
(* step does to the locks.                                                 *)
(***************************************************************************)
EXTENDS Sessions, ThreadLocksProofs

(* An ECAL, or a final test whose flag nobody else resets before it issues  *)
(* its last command.                                                        *)
FlagIsItsOwn == Ecal \/ SeeReflIsLast

LEMMA CallersAre == Main \in Callers /\ Ft \in Callers /\ Main # Ft /\ Callers = {Main, Ft}
  BY SessionConstantsOK

LEMMA RequestTypes ==
  /\ NoRequest \in Request /\ Requests \subseteq Request
  /\ NoRequest.name = "other" /\ NoRequest.devs = {}
  /\ SessionReq \in Request /\ SessionReq.devs \subseteq Devices /\ SessionReq.name = "other"
  /\ Other({Sbc}, TRUE) \in Request /\ Other({Sbc}, TRUE).name = "other"
  BY ConstantsOK, SessionConstantsOK DEF NoRequest, Other, Request, Sbc, Devices

(* The fields of the session's present step. *)
LEMMA StepType ==
  ASSUME spos \in 1 .. Len(Script)
  PROVE  /\ Step.op \in {"prompt", "cmd", "connect", "lock", "unlock"}
         /\ Step.req \in Request /\ Step.devs \subseteq Devices
         /\ spos \in DOMAIN Script
         /\ spos + 1 \in 1 .. Len(Script) + 1
         /\ Len(Script) \in Nat
<1> DEFINE Steps == [op : {"prompt", "cmd", "connect", "lock", "unlock"},
                     req : Request, devs : SUBSET Devices, opt : BOOLEAN]
<1>1. Script \in Seq(Steps)
  BY SessionConstantsOK
<1>2. Script[spos] \in Steps /\ Len(Script) \in Nat /\ spos \in DOMAIN Script
  <2> HIDE DEF Steps
  <2> QED
    BY <1>1
<1>3. QED
  BY <1>2 DEF Step

LEMMA FirstIsPrompt == ASSUME spos = 1, spos <= Len(Script) PROVE Step.op = "prompt"
  BY SessionConstantsOK DEF Step

LEMMA IssuesType ==
  ASSUME spos \in 1 .. Len(Script) PROVE Issues \in Request
  BY RequestTypes, StepType DEF Issues

LEMMA LenNat == Len(Script) \in Nat
  BY SessionConstantsOK

LEMMA TypeIs == SessionInv => STypeOK /\ TypeOK
  BY DEF SessionInv, STypeOK

LEMMA SlotZero == 0 \in Slots
  BY ConstantsOK DEF Slots

LEMMA InitSessionInv == SInit => SessionInv
<1> SUFFICES ASSUME SInit PROVE SessionInv
  OBVIOUS
<1>1. STypeOK
  <2>1. Len(Script) \in Nat
    BY SessionConstantsOK
  <2>2. 1 \in 1 .. Len(Script) + 1
    BY <2>1
  <2>3. QED
    BY <2>2, InitTypeOK, RequestTypes, SlotZero DEF SInit, STypeOK
<1>2. SessionSound /\ StepMatches /\ FlagStands /\ MainDiverts
  BY CallersAre, RequestTypes
  DEF SInit, Init, SessionSound, StepMatches, FlagStands, MainDiverts, Inside, Opened,
      IsSeeRefl
<1>3. SharedSlots
  BY DEF SInit, Init, SharedSlots, MarkIsStale, Live
<1>4. QED
  BY <1>1, <1>2, <1>3 DEF SessionInv

(* Until its last command has been accepted, the session has started no     *)
(* see_refl.                                                                *)
LEMMA NotYetOwn ==
  ASSUME SessionInv, SeeReflIsLast, Inside(Ft) PROVE ~OwnSeeRefl
<1>1. spc = "issued" /\ spos <= Len(Script) /\ Step.op \in {"cmd", "connect"}
  BY DEF SessionInv, SessionSound, StepMatches
<1>2. spos \in DOMAIN Script /\ spos \in Nat
  BY <1>1, StepType DEF SessionInv, STypeOK
<1>3. SUFFICES ASSUME NEW i \in DOMAIN Script, IsSeeReflStep(i), Accepted(i) PROVE FALSE
  BY DEF OwnSeeRefl
<1>4. spos <= i /\ i \in Nat
  BY <1>1, <1>2, <1>3, SessionConstantsOK DEF SeeReflIsLast, Step
<1>5. QED
  BY <1>1, <1>2, <1>3, <1>4 DEF Accepted

(* The argument in short: inside thread_and_lock the session is past its    *)
(* first prompt, and then main has nothing left to process.                 *)
LEMMA AtMostOneInside == FlagIsItsOwn /\ SessionInv => OneInside
<1> SUFFICES ASSUME FlagIsItsOwn, SessionInv, Inside(Ft) PROVE ~Inside(Main)
  BY CallersAre DEF OneInside, Inside
<1>1. spc = "issued" /\ spos <= Len(Script) /\ Step.op \in {"cmd", "connect"}
  BY DEF SessionInv, SessionSound, StepMatches
<1>2. spos \in Int /\ spos >= 1
  BY DEF SessionInv, STypeOK
<1>3. spos > 1
  BY <1>1, <1>2, FirstIsPrompt
<1>4. Ecal \/ ~OwnSeeRefl
  BY NotYetOwn DEF FlagIsItsOwn
<1>5. QED
  BY <1>1, <1>3, <1>4 DEF SessionInv, MainDiverts, MainIdle, Inside, Opened

-----------------------------------------------------------------------------
(* What the steps do to the variables of ThreadLocks                        *)

LEMMA LockingType == ASSUME TypeOK, NEW c \in Callers, Locking(c) PROVE TypeOK'
<1>1. CASE Claim(c, FreeCells)
  BY <1>1, ClaimTypeOK DEF FreeCells
<1>2. CASE CheckDevice(c) \/ ScanPool(c) \/ LockDevice(c) \/ Spawn(c)
  <2>1. [Next]_vars
    BY <1>2 DEF Next, ThreadAndLock
  <2>2. QED
    BY <2>1, StepTypeOK
<1>3. QED
  BY <1>1, <1>2 DEF Locking

(* Steps that leave the pool and the callers alone.                         *)
Aside ==
  /\ UNCHANGED <<poolVars, callVars, wslot, cleanVars>>
  /\ \A t \in Threads : Live(t)' <=> Live(t)

LEMMA UnchangedAside ==
  ASSUME TypeOK, UNCHANGED vars
  PROVE  TypeOK' /\ (UNCHANGED cleanVars => Aside)
  BY DEF TypeOK, Aside, Live, vars, callVars, workVars, poolVars

LEMMA LeaveAside ==
  ASSUME TypeOK, SessionSound, Opened, NEW S \in SUBSET Devices, Leave(S)
  PROVE  TypeOK' /\ Aside
<1>1. TypeOK'
  BY DEF TypeOK, Leave, callVars, poolVars
<1>2. Aside
  BY DEF TypeOK, SessionSound, Leave, Aside, Live
<1>3. QED
  BY <1>1, <1>2

LEMMA DevsType ==
  ASSUME TypeOK, NEW t, NEW S \in SUBSET Devices, wreq' = [wreq EXCEPT ![t].devs = S]
  PROVE  wreq' \in [Threads -> Request]
<1>1. \A r \in Request : [r EXCEPT !.devs = S] \in Request
  BY DEF Request
<1>2. wreq' = [wreq EXCEPT ![t] = [wreq[t] EXCEPT !.devs = S]]
  OBVIOUS
<1> DEFINE r == [wreq[t] EXCEPT !.devs = S]
<1>3. t \in Threads => r \in Request
  BY <1>1 DEF TypeOK
<1>4. wreq' = [wreq EXCEPT ![t] = r]
  BY <1>2
<1> HIDE DEF r
<1>5. QED
  BY <1>3, <1>4 DEF TypeOK

LEMMA SetLocksAside ==
  ASSUME STypeOK, SessionSound, SetOwn \/ GiveBack
  PROVE  TypeOK' /\ Aside
<1>1. TypeOK
  BY DEF STypeOK
<1>2. session \in Threads
  BY DEF SetOwn, GiveBack, At, SessionSound, Opened
<1>3. CASE SetOwn
  <2>1. Step.devs \subseteq Devices
    BY <1>3, StepType DEF SetOwn, At, STypeOK
  <2>2. lock' \in [Devices -> {0, 1, 2}]
    BY <1>1, <1>3 DEF SetOwn, SetLocks, TypeOK
  <2>3. wreq' \in [Threads -> Request]
    <3> DEFINE S == IF Step.op = "lock" THEN wreq[session].devs \cup Step.devs
                    ELSE wreq[session].devs \ Step.devs
    <3>1. S \in SUBSET Devices /\ wreq' = [wreq EXCEPT ![session].devs = S]
      BY <1>1, <1>2, <1>3, <2>1 DEF SetOwn, TypeOK, Request
    <3> HIDE DEF S
    <3>2. QED
      BY <1>1, <3>1, DevsType
  <2>4. TypeOK'
    BY <1>1, <1>3, <2>2, <2>3 DEF SetOwn, TypeOK, callVars, poolVars
  <2>5. QED
    BY <1>3, <2>4 DEF SetOwn, Aside, Live
<1>4. CASE GiveBack
  <2>1. lock' \in [Devices -> {0, 1, 2}]
    BY <1>1, <1>4 DEF GiveBack, SetLocks, TypeOK
  <2>2. wreq' \in [Threads -> Request]
    <3>1. PICK d \in Devices : wreq' = [wreq EXCEPT ![session].devs = @ \ {d}]
      BY <1>4 DEF GiveBack
    <3>2. /\ wreq' = [wreq EXCEPT ![session].devs = wreq[session].devs \ {d}]
          /\ wreq[session].devs \ {d} \in SUBSET Devices
      BY <1>1, <1>2, <3>1 DEF TypeOK, Request
    <3>3. QED
      BY <1>1, <3>2, DevsType
  <2>3. TypeOK'
    BY <1>1, <1>4, <2>1, <2>2 DEF GiveBack, TypeOK, callVars, poolVars
  <2>4. QED
    BY <1>4, <2>3 DEF GiveBack, Aside, Live
<1>5. QED
  BY <1>3, <1>4

LEMMA WorkerAside ==
  ASSUME TypeOK, NEW t \in Threads, UNCHANGED cleanVars,
         \/ \E d \in Devices : LoseDevice(t, d)
         \/ ConnectSbc(t) \/ TempUnlock(t) \/ Relock(t) \/ Finish(t) \/ UnlockDevice(t)
  PROVE  TypeOK' /\ Aside
<1>1. TypeOK'
  <2>1. [Next]_vars
    BY DEF Next, UnthreadAndUnlock
  <2>2. QED
    BY <2>1, StepTypeOK
<1>2. Aside
  BY DEF TypeOK, Aside, Live, LoseDevice, ConnectSbc, TempUnlock, Relock, Finish,
         UnlockDevice, workVars
<1>3. QED
  BY <1>1, <1>2

LEMMA SetDoneType == ASSUME TypeOK, NEW t \in Threads, SetDone(t) PROVE TypeOK'
<1>1. [Next]_vars
  BY DEF Next, UnthreadAndUnlock
<1>2. QED
  BY <1>1, StepTypeOK

LEMMA XlAside ==
  ASSUME TypeOK, NEW d \in Devices,
         (AcceptXl3(d) /\ UNCHANGED sessVars) \/ CloseAnyXl3(d)
  PROVE  TypeOK' /\ Aside
<1>1. TypeOK'
  BY DEF AcceptXl3, CloseAnyXl3, TypeOK, callVars, workVars, poolVars
<1>2. QED
  BY <1>1 DEF AcceptXl3, CloseAnyXl3, Aside, Live, workVars, sessVars

(* What a step can do to the pool.                                          *)
LEMMA StepKinds ==
  ASSUME SessionInv, [SNext]_allVars
  PROVE  /\ TypeOK'
         /\ \/ \E c \in Callers : Locking(c)
            \/ \E c \in Callers, r \in Request : Call(c, r) /\ UNCHANGED cleanVars
            \/ \E t \in Threads : SetDone(t) /\ UNCHANGED cleanVars
            \/ (\E s \in Slots : FreeCell(s)) \/ ForgetCell \/ ResetDone
            \/ Aside
<1> USE CallersAre, TypeIs
<1>1. CASE MainLoop
  <2>1. CASE ProcessLine
    BY <2>1, CallTypeOK DEF ProcessLine, STypeOK
  <2>2. CASE \E d \in Devices : (AcceptXl3(d) /\ UNCHANGED sessVars) \/ CloseAnyXl3(d)
    BY <2>2, XlAside
  <2>3. CASE (\E r \in Requests : ReadLine(r)) \/ DivertLine
    <3>1. UNCHANGED vars /\ UNCHANGED cleanVars
      BY <2>3 DEF ReadLine, DivertLine
    <3>2. QED
      BY <3>1, UnchangedAside
  <2>4. CASE \E s \in Slots : FreeCell(s)
    <3>1. UNCHANGED vars
      BY <2>4 DEF FreeCell
    <3>2. QED
      BY <2>4, <3>1, UnchangedAside
  <2>5. CASE ForgetCell \/ ResetDone
    <3>1. TypeOK'
      BY <2>5 DEF ForgetCell, ResetDone, TypeOK, callVars, workVars
    <3>2. QED
      BY <2>5, <3>1
  <2>6. QED
    BY <1>1, <2>1, <2>2, <2>3, <2>4, <2>5, SessionConstantsOK DEF MainLoop
<1>2. CASE Locking(Main) \/ Locking(Ft)
  BY <1>2, LockingType
<1>3. CASE \E t \in Threads : Worker(t)
  <2>1. PICK t \in Threads : Worker(t)
    BY <1>3
  <2>2. UNCHANGED cleanVars
    BY <2>1 DEF Worker, sessVars
  <2>3. CASE SetDone(t)
    BY <2>2, <2>3, SetDoneType
  <2>4. CASE ~SetDone(t)
    <3>1. \/ \E d \in Devices : LoseDevice(t, d)
          \/ ConnectSbc(t) \/ TempUnlock(t) \/ Relock(t) \/ Finish(t) \/ UnlockDevice(t)
      BY <2>1, <2>4, SessionConstantsOK DEF Worker, UnthreadAndUnlock
    <3>2. QED
      BY <2>2, <3>1, WorkerAside
  <2>5. QED
    BY <2>3, <2>4
<1>4. CASE \E t \in Threads : SeeRefl(t)
  <2>1. PICK t \in Threads : SeeRefl(t)
    BY <1>4
  <2>2. UNCHANGED cleanVars /\ (UNCHANGED vars \/ Finish(t))
    BY <2>1 DEF SeeRefl, SeeReflStarts, SeeReflAsks, SeeReflAnswered, SeeReflEnds,
                SeeReflFails, SeeReflReturns
  <2>3. QED
    BY <2>2, UnchangedAside, WorkerAside
<1>5. CASE Unthread
  <2>1. session \in Threads /\ UNCHANGED cleanVars
    BY <1>5 DEF Unthread, STypeOK
  <2>2. QED
    BY <1>5, <2>1, WorkerAside, SetDoneType DEF Unthread
<1>6. CASE \/ \E t \in Threads : Open(t)
           \/ Ask \/ WaitForAnswer \/ Connected \/ Issued \/ Waited \/ UNCHANGED allVars
  <2>1. UNCHANGED vars /\ UNCHANGED cleanVars
    BY <1>6
    DEF Open, Ask, WaitForAnswer, Connected, Issued, Waited, allVars, sessVars
  <2>2. QED
    BY <2>1, UnchangedAside
<1>7. CASE SetOwn \/ GiveBack
  BY <1>7, SetLocksAside DEF SessionInv
<1>8. CASE Issue
  <2>1. spos \in 1 .. Len(Script)
    <3>1. spos \in 1 .. Len(Script) + 1 /\ spos <= Len(Script)
      BY <1>8 DEF Issue, At, STypeOK
    <3>2. QED
      BY <3>1, LenNat
  <2>2. Call(Ft, Issues)
    BY <1>8 DEF Issue, At, Issues
  <2>3. UNCHANGED cleanVars
    BY <1>8 DEF Issue
  <2>4. QED
    BY <2>1, <2>2, <2>3, IssuesType, CallTypeOK
<1>9. CASE Answer \/ GiveUp \/ End \/ EndWithoutFec
  <2>1. Opened /\ SessionSound
    BY <1>9 DEF Answer, GiveUp, End, EndWithoutFec, AtEnd, Opened, SessionInv
  <2>2. CASE UNCHANGED vars /\ UNCHANGED cleanVars
    BY <2>2, UnchangedAside
  <2>3. CASE ~(UNCHANGED vars /\ UNCHANGED cleanVars)
    <3>1. Answer => Step.devs \subseteq Devices
      BY StepType DEF Answer, SessionInv, STypeOK, StepMatches
    <3>2. \E S \in SUBSET Devices : Leave(S)
      BY <1>9, <2>3, <3>1, RequestTypes DEF Answer, GiveUp, End, EndWithoutFec
    <3>3. QED
      BY <2>1, <3>2, LeaveAside
  <2>4. QED
    BY <2>2, <2>3
<1>10. QED
  BY <1>1, <1>2, <1>3, <1>4, <1>5, <1>6, <1>7, <1>8, <1>9 DEF SNext, Session

-----------------------------------------------------------------------------
(* The slots: one lemma per kind of step                                    *)

\* MarkIsStale after the step, of a slot named in the state before it.
StaleAfter(s) == thread_done'[s] => mpc' = "nulled" /\ s = mslot'

LEMMA AsideSlots == ASSUME TypeOK, SharedSlots, Aside PROVE SharedSlots'
  BY DEF TypeOK, SharedSlots, MarkIsStale, Aside, Live, poolVars, callVars, cleanVars

LEMMA CallSlots ==
  ASSUME TypeOK, SharedSlots, NEW c \in Callers, NEW r \in Request,
         Call(c, r), UNCHANGED cleanVars
  PROVE  SharedSlots'
  BY DEF TypeOK, SharedSlots, MarkIsStale, Call, Live, poolVars, workVars, cleanVars

LEMMA ReturnSlots ==
  ASSUME TypeOK, SharedSlots, NEW c \in Callers, NEW code, Return(c, code),
         UNCHANGED <<workVars, poolVars, cleanVars>>
  PROVE  SharedSlots'
  BY DEF TypeOK, SharedSlots, MarkIsStale, Return, Live, poolVars, workVars, cleanVars

LEMMA CheckSlots ==
  ASSUME TypeOK, SharedSlots, NEW c \in Callers, CheckDevice(c) \/ LockDevice(c),
         UNCHANGED cleanVars
  PROVE  SharedSlots'
<1>1. CASE \E code \in Results : CheckDevice(c) /\ Return(c, code)
  BY <1>1, ReturnSlots DEF CheckDevice
<1>2. CASE UNCHANGED <<cpc, cslot, cthr, workVars, poolVars>>
  BY <1>2 DEF SharedSlots, MarkIsStale, Live, poolVars, workVars, cleanVars
<1>3. QED
  BY <1>1, <1>2 DEF CheckDevice, LockDevice, Results

LEMMA ScanSlots ==
  ASSUME TypeOK, SharedSlots, NEW c \in Callers, ScanPool(c), UNCHANGED cleanVars
  PROVE  SharedSlots'
<1>1. CASE Return(c, -4)
  BY <1>1, ReturnSlots DEF ScanPool
<1>2. CASE ~Return(c, -4)
  <2>1. PICK s \in FreeSlots : /\ cslot' = [cslot EXCEPT ![c] = s]
                              /\ cpc' = [cpc EXCEPT ![c] = "claim"]
    BY <1>2 DEF ScanPool, IsFirst
  <2>2. cpc[c] = "check" /\ UNCHANGED <<cthr, workVars, poolVars>>
    BY <1>2 DEF ScanPool
  <2>3. QED
    BY <2>1, <2>2
    DEF TypeOK, SharedSlots, MarkIsStale, FreeSlots, Live, poolVars, workVars, cleanVars
<1>3. QED
  BY <1>1, <1>2

\* The slot's mark may be stale, and the cell may be the one just freed.
LEMMA ClaimSlots ==
  ASSUME OneInside, TypeOK, SharedSlots, NEW c \in Callers, Claim(c, FreeCells),
         UNCHANGED cleanVars
  PROVE  SharedSlots'
<1>1. PICK t \in FreeCells : /\ thread_pool' = [thread_pool EXCEPT ![cslot[c]] = t]
                            /\ cthr' = [cthr EXCEPT ![c] = t]
  BY DEF Claim
<1>2. /\ cpc[c] = "claim" /\ cpc' = [cpc EXCEPT ![c] = "lock"]
      /\ UNCHANGED <<cslot, thread_done, wpc, wslot, mpc, mslot>>
  BY DEF Claim, workVars, cleanVars
<1>3. /\ t \in Threads /\ t # NoThread /\ ~Live(t)
      /\ \A s \in Slots : thread_pool[s] = t => mpc = "freed" /\ s = mslot
  BY <1>1, ConstantsOK DEF FreeCells, Live
<1>4. /\ cslot[c] \in Slots /\ thread_pool[cslot[c]] = NoThread /\ MarkIsStale(cslot[c])
      /\ \A k \in Callers \ {c} : cpc[k] = "idle"
  BY <1>2 DEF OneInside, TypeOK, SharedSlots
<1>5. \A s \in Slots : thread_pool'[s] = IF s = cslot[c] THEN t ELSE thread_pool[s]
  BY <1>1 DEF TypeOK
<1>6. \A s \in Slots : StaleAfter(s) <=> MarkIsStale(s)
  BY <1>2 DEF MarkIsStale, StaleAfter
<1>7. \A k \in Callers :
        /\ cpc'[k] = "claim" => thread_pool'[cslot'[k]] = NoThread
        /\ cpc'[k] = "lock" => /\ cthr'[k] \in Threads /\ ~Live(cthr'[k])
                               /\ thread_pool'[cslot'[k]] = cthr'[k]
                               /\ StaleAfter(cslot'[k])
        /\ cpc'[k] # "lock" => cthr'[k] = NoThread
  <2> TAKE k \in Callers
  <2>1. CASE k = c
    BY <1>1, <1>2, <1>3, <1>4, <1>5, <1>6, <2>1 DEF TypeOK
  <2>2. CASE k # c
    BY <1>1, <1>2, <1>4, <2>2 DEF TypeOK, SharedSlots
  <2>3. QED
    BY <2>1, <2>2
<1>8. \A u \in Threads : Live(u)' => thread_pool'[wslot'[u]] = u /\ StaleAfter(wslot'[u])
  BY <1>2, <1>4, <1>5, <1>6, ConstantsOK DEF SharedSlots, Live, TypeOK
<1>9. \A s \in Slots : thread_pool'[s] = NoThread => StaleAfter(s)
  BY <1>3, <1>5, <1>6 DEF SharedSlots
<1>10. mpc' = "freed" => thread_done'[mslot'] /\ thread_pool'[mslot'] # NoThread
  <2>1. SUFFICES ASSUME mpc = "freed" PROVE thread_done[mslot] /\ thread_pool'[mslot] # NoThread
    BY <1>2
  <2>2. thread_done[mslot] /\ thread_pool[mslot] # NoThread
    BY <2>1 DEF SharedSlots
  <2>3. CASE mslot \in Slots
    BY <1>3, <1>5, <2>2, <2>3
  <2>4. CASE mslot \notin Slots
    BY <1>1, <1>4, <2>2, <2>4 DEF TypeOK
  <2>5. QED
    BY <2>3, <2>4
<1>11. \A s, r \in Slots :
         thread_pool'[s] = thread_pool'[r] /\ s # r =>
           thread_pool'[s] = NoThread \/ (mpc' = "freed" /\ mslot' \in {s, r})
  BY <1>2, <1>3, <1>5 DEF SharedSlots
<1>12. QED
  BY <1>2, <1>7, <1>8, <1>9, <1>10, <1>11 DEF SharedSlots, MarkIsStale, StaleAfter, Live

LEMMA SpawnSlots ==
  ASSUME OneInside, TypeOK, SharedSlots, NEW c \in Callers, Spawn(c), UNCHANGED cleanVars
  PROVE  SharedSlots'
<1>1. /\ cpc[c] = "lock" /\ cthr[c] \in Threads /\ ~Live(cthr[c])
      /\ thread_pool[cslot[c]] = cthr[c] /\ MarkIsStale(cslot[c])
  BY DEF Spawn, SharedSlots
<1>2. \A k \in Callers : cpc'[k] = "idle" /\ cthr'[k] = NoThread
  BY <1>1 DEF OneInside, Spawn, Return, TypeOK, SharedSlots
<1>3. UNCHANGED <<thread_pool, thread_done, mpc, mslot>>
  BY DEF Spawn, poolVars, cleanVars
<1>4. \A t \in Threads :
        /\ Live(t)' <=> Live(t) \/ t = cthr[c]
        /\ wslot'[t] = IF t = cthr[c] THEN cslot[c] ELSE wslot[t]
  BY <1>1 DEF Spawn, Live, TypeOK
<1>5. \A s : StaleAfter(s) <=> MarkIsStale(s)
  BY <1>3 DEF MarkIsStale, StaleAfter
<1>6. \A t \in Threads : Live(t)' => thread_pool[wslot'[t]] = t /\ MarkIsStale(wslot'[t])
  BY <1>1, <1>4 DEF SharedSlots
<1>7. QED
  BY <1>2, <1>3, <1>5, <1>6 DEF SharedSlots, MarkIsStale, StaleAfter, Live

LEMMA SetDoneSlots ==
  ASSUME TypeOK, SharedSlots, NEW t \in Threads, SetDone(t), UNCHANGED cleanVars
  PROVE  SharedSlots'
<1>1. /\ Live(t) /\ thread_pool[wslot[t]] = t /\ wslot[t] \in Slots /\ t # NoThread
      /\ UNCHANGED <<callVars, thread_pool, mpc, mslot>>
      /\ thread_done' = [thread_done EXCEPT ![wslot[t]] = TRUE]
  BY ConstantsOK DEF SetDone, Live, SharedSlots, TypeOK, cleanVars
<1>2. \A u \in Threads : Live(u)' => Live(u) /\ u # t /\ wslot'[u] = wslot[u]
  BY DEF SetDone, Live, TypeOK
<1>3. \A s \in Slots : s # wslot[t] => (StaleAfter(s) <=> MarkIsStale(s))
  BY <1>1 DEF MarkIsStale, StaleAfter, TypeOK
<1>4. \A u \in Threads : Live(u)' => thread_pool'[wslot'[u]] = u /\ StaleAfter(wslot'[u])
  <2> TAKE u \in Threads
  <2> HAVE Live(u)'
  <2>1. Live(u) /\ u # t /\ wslot'[u] = wslot[u] /\ thread_pool[wslot[u]] = u /\ wslot[u] \in Slots
    BY <1>2 DEF SharedSlots, TypeOK
  <2>2. wslot[u] # wslot[t] /\ MarkIsStale(wslot[u])
    BY <1>1, <2>1 DEF SharedSlots
  <2>3. StaleAfter(wslot[u])
    BY <1>1, <2>1, <2>2 DEF MarkIsStale, StaleAfter, TypeOK
  <2>4. QED
    BY <1>1, <2>1, <2>3 DEF MarkIsStale, StaleAfter
<1>5. \A c \in Callers : cpc[c] = "lock" =>
        ~Live(cthr[c])' /\ cslot[c] \in Slots /\ cslot[c] # wslot[t]
  <2> TAKE c \in Callers
  <2> HAVE cpc[c] = "lock"
  <2>1. cthr[c] \in Threads /\ ~Live(cthr[c]) /\ thread_pool[cslot[c]] = cthr[c]
    BY DEF SharedSlots
  <2>2. cthr'[c] = cthr[c] /\ cslot[c] \in Slots
    BY <1>1 DEF callVars, TypeOK
  <2>3. QED
    BY <1>1, <1>2, <2>1, <2>2
<1>6. \A c \in Callers : cpc[c] = "lock" => StaleAfter(cslot[c])
  BY <1>1, <1>5 DEF SharedSlots, MarkIsStale, StaleAfter, TypeOK
<1>7. \A s \in Slots : thread_pool[s] = NoThread => StaleAfter(s)
  BY <1>1, <1>3 DEF SharedSlots
<1>8. mpc = "freed" => thread_done'[mslot]
  BY <1>1 DEF SharedSlots, TypeOK
<1>9. QED
  BY <1>1, <1>4, <1>5, <1>6, <1>7, <1>8 DEF SharedSlots, callVars, MarkIsStale, StaleAfter, Live

\* Main has seen no stale mark: it resets each before it looks for the next.
LEMMA FreeCellSlots ==
  ASSUME TypeOK, SharedSlots, NEW s \in Slots, FreeCell(s)
  PROVE  /\ SharedSlots'
         /\ thread_pool[s] # NoThread /\ ~Live(thread_pool[s])
         /\ \A c \in Callers : cthr[c] # thread_pool[s]
<1>1. mpc = "loop" /\ thread_done[s] /\ mpc' = "freed" /\ mslot' = s /\ UNCHANGED vars
  BY DEF FreeCell, MainReady
<1>2. UNCHANGED <<thread_pool, thread_done, cpc, cslot, cthr, wpc, wslot>>
  BY <1>1 DEF vars, poolVars, callVars, workVars
<1>3. \A r : MarkIsStale(r) => ~thread_done[r]
  BY <1>1 DEF MarkIsStale, StaleAfter
<1>4. thread_pool[s] \in Threads /\ thread_pool[s] # NoThread
  BY <1>1, <1>3, ConstantsOK DEF SharedSlots, TypeOK
<1>5. ~Live(thread_pool[s])
  BY <1>1, <1>3, <1>4 DEF SharedSlots, TypeOK
<1>6. \A c \in Callers : cthr[c] # thread_pool[s]
  <2> TAKE c \in Callers
  <2>1. CASE cpc[c] = "lock"
    BY <1>1, <1>3, <1>4, <2>1 DEF SharedSlots, TypeOK
  <2>2. CASE cpc[c] # "lock"
    BY <1>4, <2>2 DEF SharedSlots
  <2>3. QED
    BY <2>1, <2>2
<1>7. \A r : MarkIsStale(r) => StaleAfter(r)
  BY <1>2, <1>3 DEF MarkIsStale, StaleAfter
<1>8. SharedSlots'
  BY <1>1, <1>2, <1>4, <1>7 DEF SharedSlots, Live, MarkIsStale, StaleAfter
<1>9. QED
  BY <1>4, <1>5, <1>6, <1>8

LEMMA ForgetCellSlots ==
  ASSUME STypeOK, SharedSlots, ForgetCell PROVE SharedSlots'
<1>1. /\ mpc = "freed" /\ mpc' = "nulled" /\ mslot' = mslot /\ mslot \in Slots
      /\ thread_pool' = [thread_pool EXCEPT ![mslot] = NoThread]
      /\ UNCHANGED <<thread_done, cpc, cslot, cthr, wpc, wslot>>
  BY DEF ForgetCell, callVars, workVars, STypeOK
<1>2. TypeOK /\ thread_done[mslot]
  BY <1>1 DEF STypeOK, SharedSlots
<1>3. \A s \in Slots : thread_pool'[s] = IF s = mslot THEN NoThread ELSE thread_pool[s]
  BY <1>1, <1>2 DEF TypeOK
<1>4. \A s : (MarkIsStale(s) => s # mslot /\ StaleAfter(s)) /\ StaleAfter(mslot)
  BY <1>1, <1>2 DEF MarkIsStale, StaleAfter
<1>5. \A c \in Callers : cpc[c] = "lock" => thread_pool'[cslot[c]] = cthr[c] /\ StaleAfter(cslot[c])
  BY <1>2, <1>3, <1>4 DEF SharedSlots, TypeOK
<1>6. \A c \in Callers : cpc[c] = "claim" => thread_pool'[cslot[c]] = NoThread
  BY <1>2, <1>3 DEF SharedSlots, TypeOK
<1>7. \A t \in Threads : Live(t) => thread_pool'[wslot[t]] = t /\ StaleAfter(wslot[t])
  BY <1>2, <1>3, <1>4 DEF SharedSlots, TypeOK
<1>8. \A s \in Slots : thread_pool'[s] = NoThread => StaleAfter(s)
  BY <1>3, <1>4 DEF SharedSlots
<1>9. \A s, r \in Slots :
        thread_pool'[s] = thread_pool'[r] /\ s # r => thread_pool'[s] = NoThread
  BY <1>1, <1>3 DEF SharedSlots
<1>10. QED
  BY <1>1, <1>5, <1>6, <1>7, <1>8, <1>9 DEF SharedSlots, Live, MarkIsStale, StaleAfter

LEMMA ResetDoneSlots ==
  ASSUME STypeOK, SharedSlots, ResetDone PROVE SharedSlots'
<1>1. /\ mpc = "nulled" /\ mpc' = "loop" /\ mslot \in Slots
      /\ thread_done' = [thread_done EXCEPT ![mslot] = FALSE]
      /\ UNCHANGED <<thread_pool, cpc, cslot, cthr, wpc, wslot>>
  BY DEF ResetDone, callVars, workVars, STypeOK
<1>2. TypeOK
  BY DEF STypeOK
<1>3. \A s \in Slots : MarkIsStale(s) => ~thread_done'[s]
  BY <1>1, <1>2 DEF MarkIsStale, StaleAfter, TypeOK
<1>4. \A s \in Slots : MarkIsStale(s) => StaleAfter(s)
  BY <1>3 DEF MarkIsStale, StaleAfter
<1>5. QED
  BY <1>1, <1>2, <1>4 DEF SharedSlots, TypeOK, Live, MarkIsStale, StaleAfter

LEMMA StepSlots ==
  ASSUME FlagIsItsOwn, SessionInv, [SNext]_allVars
  PROVE  SharedSlots'
<1>1. OneInside /\ STypeOK /\ TypeOK /\ SharedSlots
  BY AtMostOneInside, TypeIs DEF SessionInv
<1>2. ASSUME NEW c \in Callers, Locking(c) PROVE SharedSlots'
  <2>1. UNCHANGED cleanVars
    BY <1>2 DEF Locking, sessVars
  <2>2. QED
    BY <1>1, <1>2, <2>1, CheckSlots, ScanSlots, ClaimSlots, SpawnSlots DEF Locking
<1>3. QED
  BY <1>1, <1>2, StepKinds, CallSlots, SetDoneSlots, FreeCellSlots, ForgetCellSlots,
     ResetDoneSlots, AsideSlots

-----------------------------------------------------------------------------
(* What the steps do to the session                                         *)

SessionTypes ==
  /\ running_final_test \in BOOLEAN /\ running_ecal \in BOOLEAN
  /\ reading_from_tut \in BOOLEAN
  /\ session \in Threads \cup {NoThread}
  /\ spc \in {"none", "open", "step", "asking", "waiting", "woken", "issued", "wait",
              "over", "dead"}
  /\ spos \in 1 .. Len(Script) + 1
  /\ refl \in [Threads -> {"none", "flagged", "waiting", "woken", "shown"}]
  /\ line \in Request
  /\ mpc \in {"loop", "freed", "nulled"} /\ mslot \in Slots

\* SessionSound, in two parts.
ThreadSound ==
  /\ spc = "none" => session = NoThread /\ spos = 1
  /\ spc = "over" /\ session # NoThread => wpc[session] = "end"
  /\ Opened => session \in Threads /\ wpc[session] = "run" /\ ~IsSeeRefl(session)
  /\ spc = "open" => spos = 1
  /\ Inside(Ft) => spc = "issued"

ReflSound == \A t \in Threads : refl[t] # "none" => wpc[t] = "run" /\ IsSeeRefl(t)

Control == ThreadSound /\ StepMatches

LEMMA InvControl ==
  /\ SessionInv <=> /\ TypeOK /\ SessionTypes /\ Control /\ ReflSound
                    /\ FlagStands /\ MainDiverts /\ SharedSlots
  /\ STypeOK <=> TypeOK /\ SessionTypes
  BY DEF SessionInv, STypeOK, SessionTypes, Control, SessionSound, ThreadSound, ReflSound

(* A thread that runs see_refl is not the session's.                        *)
LEMMA SeeReflIsOther ==
  ASSUME SessionInv, NEW t \in Threads, SeeRefl(t)
  PROVE  t # session /\ IsSeeRefl(t) /\ wpc[t] = "run"
<1>1. wpc[t] = "run" /\ IsSeeRefl(t)
  BY InvControl
  DEF SeeRefl, SeeReflStarts, SeeReflAsks, SeeReflAnswered, SeeReflEnds, SeeReflFails,
      SeeReflReturns, ReflSound
<1>2. t # session
  BY <1>1, InvControl, ConstantsOK DEF Control, ThreadSound, Opened
<1>3. QED
  BY <1>1, <1>2

LEMMA StepTypes ==
  ASSUME SessionInv, [SNext]_allVars PROVE SessionTypes'
<1>1. SessionTypes
  BY InvControl
<1>2. CASE MainLoop
  <2>1. CASE \E r \in Requests : ReadLine(r)
    BY <1>1, <2>1, RequestTypes DEF ReadLine, SessionTypes, flags, cleanVars
  <2>2. CASE ProcessLine
    BY <1>1, <2>2, RequestTypes DEF ProcessLine, SessionTypes, flags, cleanVars
  <2>3. CASE DivertLine
    BY <1>1, <2>3 DEF DivertLine, SessionTypes, flags, cleanVars
  <2>4. CASE (\E s \in Slots : FreeCell(s)) \/ ForgetCell \/ ResetDone
    BY <1>1, <2>4, SlotZero DEF FreeCell, ForgetCell, ResetDone, SessionTypes, flags
  <2>5. CASE UNCHANGED sessVars
    BY <1>1, <2>5 DEF SessionTypes, sessVars, flags, cleanVars
  <2>6. QED
    BY <1>2, <2>1, <2>2, <2>3, <2>4, <2>5 DEF MainLoop, CloseAnyXl3
<1>3. CASE \/ Locking(Main) \/ Locking(Ft) \/ UNCHANGED allVars
           \/ \E t \in Threads : Worker(t)
  <2>1. UNCHANGED sessVars
    BY <1>3 DEF Locking, Worker, allVars
  <2>2. QED
    BY <1>1, <2>1 DEF SessionTypes, sessVars, flags, cleanVars
<1>4. CASE \E t \in Threads : SeeRefl(t)
  BY <1>1, <1>4
  DEF SeeRefl, SeeReflStarts, SeeReflAsks, SeeReflAnswered, SeeReflEnds, SeeReflFails,
      SeeReflReturns, SessionTypes, flags, cleanVars
<1>5. CASE Session /\ ~Locking(Ft)
  <2>1. running_final_test' \in BOOLEAN /\ running_ecal' \in BOOLEAN
    BY <1>1, <1>5
    DEF Session, Open, GiveBack, Ask, WaitForAnswer, Answer, Issue, Connected, Issued,
        GiveUp, Waited, SetOwn, End, EndWithoutFec, Unthread, SetFlag, SessionTypes, flags
  <2>2. /\ reading_from_tut' \in BOOLEAN
        /\ session' \in Threads \cup {NoThread}
        /\ UNCHANGED <<refl, line, mpc, mslot>>
    BY <1>1, <1>5
    DEF Session, Open, GiveBack, Ask, WaitForAnswer, Answer, Issue, Connected, Issued,
        GiveUp, Waited, SetOwn, End, EndWithoutFec, Leave, Unthread, SessionTypes, cleanVars
  <2>3. spc' \in {"none", "open", "step", "asking", "waiting", "woken", "issued", "wait",
                  "over", "dead"}
    BY <1>1, <1>5
    DEF Session, Open, GiveBack, Ask, WaitForAnswer, Answer, Issue, Connected, Issued,
        GiveUp, Waited, SetOwn, End, EndWithoutFec, Leave, Unthread, Continue, SessionTypes
  <2>4. spos' \in 1 .. Len(Script) + 1
    <3>1. spos' = spos \/ (spos <= Len(Script) /\ spos' = spos + 1)
      BY <1>5, InvControl
      DEF Session, Open, GiveBack, Ask, WaitForAnswer, Answer, Issue, Connected, Issued,
          GiveUp, Waited, SetOwn, End, EndWithoutFec, Leave, Unthread, Continue, At,
          Control, StepMatches
    <3>2. QED
      BY <1>1, <3>1, LenNat DEF SessionTypes
  <2>5. QED
    BY <1>1, <2>1, <2>2, <2>3, <2>4 DEF SessionTypes
<1>6. QED
  BY <1>2, <1>3, <1>4, <1>5 DEF SNext, Session

(* Steps of the other threads, and of thread_and_lock on the session's      *)
(* behalf: the session stays where it is.                                   *)
Keeps(t) == wpc'[t] = wpc[t] /\ wreq'[t].name = wreq[t].name

LEMMA OthersKeepControl ==
  ASSUME SessionInv, UNCHANGED <<session, spc, spos>>,
         session \in Threads => Keeps(session),
         Inside(Ft)' => Inside(Ft)
  PROVE  Control'
<1>1. Control /\ SessionTypes /\ NoThread \notin Threads
  BY InvControl, ConstantsOK
<1>2. ThreadSound'
  BY <1>1 DEF Control, ThreadSound, SessionTypes, Opened, IsSeeRefl, Keeps
<1>3. StepMatches'
  BY <1>1 DEF Control, StepMatches, Step
<1>4. QED
  BY <1>2, <1>3 DEF Control

LEMMA LockingStays ==
  ASSUME SessionInv, NEW c \in Callers, Locking(c)
  PROVE  /\ UNCHANGED sessVars
         /\ cpc[c] # "idle"
         /\ \A k \in Callers \ {c} : cpc'[k] = cpc[k] /\ creq'[k] = creq[k]
         /\ Inside(Ft)' => Inside(Ft)
         /\ \A t \in Threads : Live(t) => Keeps(t)
<1>1. UNCHANGED sessVars /\ cpc[c] # "idle"
  BY DEF Locking, CheckDevice, ScanPool, Claim, LockDevice, Spawn
<1>2. \A k \in Callers \ {c} : cpc'[k] = cpc[k] /\ creq'[k] = creq[k]
  BY TypeIs DEF Locking, CheckDevice, ScanPool, Claim, LockDevice, Spawn, Return, TypeOK
<1>3. \A t \in Threads : Live(t) => Keeps(t)
  <2>1. CASE Spawn(c)
    BY <2>1, TypeIs DEF Spawn, SessionInv, SharedSlots, Live, Keeps, TypeOK
  <2>2. CASE ~Spawn(c)
    BY <2>2 DEF Locking, CheckDevice, ScanPool, Claim, LockDevice, workVars, Keeps
  <2>3. QED
    BY <2>1, <2>2
<1>4. QED
  BY <1>1, <1>2, <1>3, CallersAre DEF Inside

LEMMA SessionLives ==
  ASSUME SessionInv, session \in Threads PROVE Live(session)
  BY InvControl, ConstantsOK DEF Control, ThreadSound, Opened, Live

LEMMA CallerKeepsControl ==
  ASSUME SessionInv, NEW c \in Callers, Locking(c)
  PROVE  Control'
<1>1. session \in Threads => Keeps(session)
  BY LockingStays, SessionLives
<1>2. QED
  BY <1>1, LockingStays, OthersKeepControl DEF sessVars

LEMMA WorkerStays ==
  ASSUME SessionInv, NEW t \in Threads, Worker(t)
  PROVE  /\ UNCHANGED <<callVars, sessVars>> /\ t # session
         /\ \A u \in Threads \ {t} : wpc'[u] = wpc[u] /\ wreq'[u] = wreq[u]
         /\ wreq'[t] \in {wreq[t], NoRequest}
         /\ wpc[t] = "run" /\ IsSeeRefl(t) => Keeps(t)
<1>1. UNCHANGED <<callVars, sessVars>> /\ t # session
  BY DEF Worker, LoseDevice, ConnectSbc, TempUnlock, Relock, Finish, UnthreadAndUnlock,
         UnlockDevice, SetDone
<1>2. /\ \A u \in Threads \ {t} : wpc'[u] = wpc[u] /\ wreq'[u] = wreq[u]
      /\ wreq'[t] \in {wreq[t], NoRequest}
  BY TypeIs
  DEF Worker, LoseDevice, ConnectSbc, TempUnlock, Relock, Finish, UnthreadAndUnlock,
      UnlockDevice, SetDone, TypeOK, workVars
<1>3. wpc[t] = "run" /\ IsSeeRefl(t) => Keeps(t)
  BY DEF Worker, LoseDevice, UnthreadAndUnlock, UnlockDevice, SetDone, workVars, Keeps
<1>4. QED
  BY <1>1, <1>2, <1>3

LEMMA WorkerKeepsControl ==
  ASSUME SessionInv, NEW t \in Threads, Worker(t)
  PROVE  Control'
<1>1. session \in Threads => Keeps(session)
  BY WorkerStays DEF Keeps
<1>2. QED
  BY <1>1, WorkerStays, OthersKeepControl DEF callVars, sessVars, Inside

LEMMA SeeReflStays ==
  ASSUME SessionInv, NEW t \in Threads, SeeRefl(t)
  PROVE  /\ UNCHANGED <<callVars, poolVars, lock, running_ecal, session, spc, spos, line, cleanVars>>
         /\ wreq' = wreq
         /\ \A u \in Threads \ {t} : wpc'[u] = wpc[u] /\ refl'[u] = refl[u]
         /\ refl'[t] # "none" => wpc'[t] = "run"
<1>1. wpc[t] = "run" /\ TypeOK /\ SessionTypes
  BY SeeReflIsOther, InvControl
<1>2. CASE SeeReflReturns(t)
  BY <1>1, <1>2
  DEF SeeReflReturns, Finish, SeeRefl, SeeReflStarts, SeeReflAsks, SeeReflAnswered,
      SeeReflEnds, SeeReflFails, TypeOK, SessionTypes
<1>3. CASE ~SeeReflReturns(t)
  <2>1. UNCHANGED <<vars, running_ecal, session, spc, spos, line, cleanVars>>
    BY <1>3
    DEF SeeRefl, SeeReflStarts, SeeReflAsks, SeeReflAnswered, SeeReflEnds, SeeReflFails,
        flags
  <2>2. \A u \in Threads \ {t} : refl'[u] = refl[u]
    BY <1>1, <1>3
    DEF SeeRefl, SeeReflStarts, SeeReflAsks, SeeReflAnswered, SeeReflEnds, SeeReflFails,
        SessionTypes
  <2>3. QED
    BY <1>1, <2>1, <2>2 DEF vars, workVars
<1>4. QED
  BY <1>2, <1>3

LEMMA SeeReflKeepsControl ==
  ASSUME SessionInv, NEW t \in Threads, SeeRefl(t)
  PROVE  Control'
<1>1. session \in Threads => Keeps(session)
  BY SeeReflStays, SeeReflIsOther DEF Keeps
<1>2. QED
  BY <1>1, SeeReflStays, OthersKeepControl DEF callVars, Inside

LEMMA MainKeepsControl ==
  ASSUME SessionInv, MainLoop
  PROVE  Control'
<1>1. Control /\ TypeOK
  BY InvControl
<1>2. CASE DivertLine /\ spc' # spc
  <2>1. /\ spc = "waiting" /\ spc' = "woken" /\ UNCHANGED <<wpc, wreq, cpc, session, spos>>
    BY <1>2 DEF DivertLine, vars, callVars, workVars
  <2>2. QED
    BY <1>1, <2>1
    DEF Control, ThreadSound, StepMatches, Inside, Step, Opened, IsSeeRefl
<1>3. CASE ProcessLine
  <2>1. UNCHANGED <<wpc, wreq, session, spc, spos>> /\ cpc'[Ft] = cpc[Ft]
    BY <1>1, <1>3, CallersAre DEF ProcessLine, Call, workVars, TypeOK
  <2>2. QED
    BY <2>1, OthersKeepControl DEF Keeps, Inside
<1>4. CASE ~ProcessLine /\ ~(DivertLine /\ spc' # spc)
  <2>1. UNCHANGED <<callVars, workVars, session, spc, spos>>
    BY <1>4
    DEF MainLoop, ReadLine, DivertLine, FreeCell, ForgetCell, ResetDone, AcceptXl3,
        CloseAnyXl3, vars, sessVars
  <2>2. QED
    BY <2>1, OthersKeepControl DEF callVars, workVars, Keeps, Inside
<1>5. QED
  BY <1>2, <1>3, <1>4

(* The session's own steps.                                                 *)
LEMMA LeaveControl ==
  ASSUME SessionInv, Opened, ~Inside(Ft), NEW S, Leave(S)
  PROVE  Control'
<1>1. Control /\ TypeOK
  BY InvControl
<1>2. /\ spc' = "over" /\ wpc'[session] = "end"
      /\ UNCHANGED <<cpc, session, spos>>
  BY <1>1 DEF Leave, callVars, Control, ThreadSound, TypeOK
<1>3. QED
  BY <1>1, <1>2
  DEF Control, ThreadSound, StepMatches, Inside, Opened

LEMMA SessionKeepsControl ==
  ASSUME SessionInv, Session
  PROVE  Control'
<1>1. Control /\ TypeOK /\ SessionTypes
  BY InvControl
<1>2. spos \in Nat /\ Len(Script) \in Nat /\ NoThread \notin Threads
  BY <1>1, LenNat, ConstantsOK DEF SessionTypes
<1> USE DEF Control, ThreadSound, StepMatches, Inside, Opened
<1>3. CASE \E t \in Threads : Open(t)
  <2>1. PICK t \in Threads : Open(t)
    BY <1>3
  <2>2. /\ spc = "none" /\ session' = t /\ wpc[t] = "run" /\ wreq[t] = SessionReq
        /\ spc' = "open"
        /\ UNCHANGED <<wpc, wreq, cpc, spos>>
    BY <2>1 DEF Open, vars, callVars, workVars
  <2>3. ~IsSeeRefl(t)'
    BY <2>2, RequestTypes DEF IsSeeRefl
  <2>4. QED
    BY <1>1, <1>2, <2>2, <2>3
<1>4. CASE GiveBack
  <2>1. /\ spc = "open" /\ spc' \in {"open", "step"}
        /\ wreq'[session].name = wreq[session].name
        /\ UNCHANGED <<wpc, cpc, session, spos>>
    BY <1>1, <1>4 DEF GiveBack, callVars, TypeOK
  <2>2. QED
    BY <1>1, <2>1 DEF IsSeeRefl
<1>5. CASE Ask \/ WaitForAnswer
  <2>1. /\ spc = "asking" \/ (spc = "step" /\ spos <= Len(Script) /\ Step.op = "prompt")
        /\ spc' \in {"asking", "waiting"}
        /\ UNCHANGED <<wpc, wreq, cpc, session, spos>>
    <3>1. CASE Ask
      BY <3>1 DEF Ask, At, vars, callVars, workVars
    <3>2. CASE WaitForAnswer
      BY <1>1, <3>2 DEF WaitForAnswer, vars, callVars, workVars
    <3>3. QED
      BY <1>5, <3>1, <3>2
  <2>2. QED
    BY <1>1, <2>1 DEF Step, IsSeeRefl
<1>6. CASE Answer /\ Continue /\ UNCHANGED <<vars, session>>
  <2>1. /\ spc = "woken" /\ spc' = "step"
        /\ UNCHANGED <<wpc, wreq, cpc, session>>
    BY <1>6 DEF Answer, Continue, vars, callVars, workVars
  <2>2. QED
    BY <1>1, <2>1 DEF IsSeeRefl
<1>7. CASE Connected \/ SetOwn
  <2>1. /\ spc = "step" /\ spc' = "step" /\ UNCHANGED <<wpc, cpc, session>>
    BY <1>7 DEF Connected, SetOwn, At, Continue, vars, callVars, workVars
  <2>2. wreq'[session].name = wreq[session].name
    <3>1. CASE Connected
      BY <3>1 DEF Connected, vars, workVars
    <3>2. CASE SetOwn
      BY <1>1, <2>1, <3>2 DEF SetOwn, TypeOK
    <3>3. QED
      BY <1>7, <3>1, <3>2
  <2>3. QED
    BY <1>1, <2>1, <2>2 DEF IsSeeRefl
<1>8. CASE Issue
  <2>1. spc = "step" /\ spc' = "issued" /\ spos <= Len(Script) /\ Step.op \in {"cmd", "connect"}
    BY <1>8 DEF Issue, At
  <2>2. UNCHANGED <<wpc, wreq, session, spos>>
    BY <1>8 DEF Issue, Call, workVars
  <2>3. QED
    BY <1>1, <2>1, <2>2 DEF Step, IsSeeRefl
<1>9. CASE Issued
  <2>1. /\ spc = "issued" /\ cpc[Ft] = "idle" /\ spc' \in {"wait", "step"}
        /\ UNCHANGED <<wpc, wreq, cpc, session, spos>>
    BY <1>9 DEF Issued, vars, callVars, workVars
  <2>2. QED
    BY <1>1, <2>1 DEF Step, IsSeeRefl
<1>10. CASE GiveUp /\ ~Ecal
  <2>1. /\ spc = "issued" /\ cpc[Ft] = "idle" /\ spc' = "dead"
        /\ UNCHANGED <<wpc, wreq, cpc, session, spos>>
    BY <1>10 DEF GiveUp, vars, callVars, workVars
  <2>2. QED
    BY <1>1, <2>1 DEF Step, IsSeeRefl
<1>11. CASE Waited
  <2>1. /\ spc = "wait" /\ spc' = "step" /\ UNCHANGED <<wpc, wreq, cpc, session>>
    BY <1>11 DEF Waited, Continue, vars, callVars, workVars
  <2>2. QED
    BY <1>1, <2>1 DEF IsSeeRefl
<1>12. CASE \/ Answer /\ Leave(Step.devs)
            \/ GiveUp /\ Ecal
            \/ End \/ EndWithoutFec
  <2>1. Opened /\ ~Inside(Ft) /\ \E S : Leave(S)
    BY <1>1, <1>12 DEF Answer, GiveUp, End, EndWithoutFec, AtEnd
  <2>2. QED
    BY <2>1, LeaveControl
<1>13. CASE Unthread
  <2>1. /\ spc = "over" /\ spc' = "over" /\ session \in Threads
        /\ (session' = NoThread) \/ (session' = session /\ wpc' = wpc)
        /\ UNCHANGED cpc
    <3>1. session \in Threads
      BY <1>1, <1>13 DEF Unthread, SessionTypes
    <3>2. CASE UnlockDevice(session) /\ UNCHANGED session
      BY <1>13, <3>1, <3>2 DEF Unthread, UnlockDevice, callVars
    <3>3. CASE SetDone(session) /\ session' = NoThread
      BY <1>13, <3>1, <3>3 DEF Unthread, SetDone, callVars
    <3>4. QED
      BY <1>13, <3>2, <3>3 DEF Unthread
  <2>2. QED
    BY <1>1, <2>1
<1>14. CASE Locking(Ft)
  BY <1>14, CallersAre, CallerKeepsControl
<1>15. QED
  BY <1>3, <1>4, <1>5, <1>6, <1>7, <1>8, <1>9, <1>10, <1>11, <1>12, <1>13, <1>14
  DEF Session, Answer

LEMMA StepControl == ASSUME SessionInv, [SNext]_allVars PROVE Control'
<1>1. CASE UNCHANGED allVars
  BY <1>1, OthersKeepControl DEF allVars, vars, sessVars, callVars, workVars, Keeps, Inside
<1>2. CASE SNext
  BY <1>2, CallersAre, MainKeepsControl, CallerKeepsControl, WorkerKeepsControl,
     SeeReflKeepsControl, SessionKeepsControl
  DEF SNext
<1>3. QED
  BY <1>1, <1>2

(* The session's own steps, and what they do not touch.                     *)
LEMMA SessionStepStays ==
  ASSUME SessionInv, Session, ~Locking(Ft)
  PROVE  /\ UNCHANGED <<refl, line, cleanVars>> /\ cpc'[Main] = cpc[Main]
         /\ creq'[Main] = creq[Main]
         /\ \A t \in Threads :
              refl[t] # "none" \/ (t # session /\ t # session') =>
                wpc'[t] = wpc[t] /\ wreq'[t] = wreq[t]
         /\ \A t \in Threads : wreq'[t].name \in {wreq[t].name, "other"}
<1>1. TypeOK /\ Control /\ ReflSound /\ SessionTypes
  BY InvControl
<1>2. CASE GiveBack \/ SetOwn
  <2>1. /\ UNCHANGED <<callVars, wpc, refl, line, cleanVars>>
        /\ session \in Threads /\ ~IsSeeRefl(session)
        /\ \A t \in Threads \ {session} : wreq'[t] = wreq[t]
        /\ wreq'[session].name = wreq[session].name
    <3>1. session \in Threads /\ ~IsSeeRefl(session)
      BY <1>1, <1>2 DEF GiveBack, SetOwn, At, Control, ThreadSound, Opened
    <3>2. CASE GiveBack
      BY <1>1, <3>1, <3>2 DEF GiveBack, TypeOK
    <3>3. CASE SetOwn
      BY <1>1, <3>1, <3>3 DEF SetOwn, TypeOK
    <3>4. QED
      BY <1>2, <3>1, <3>2, <3>3
  <2>2. QED
    BY <1>1, <2>1 DEF ReflSound, callVars
<1>3. CASE Issue
  <2>1. cpc'[Main] = cpc[Main] /\ creq'[Main] = creq[Main] /\ UNCHANGED workVars
    BY <1>1, <1>3, CallersAre DEF Issue, Call, TypeOK
  <2>2. QED
    BY <1>3, <2>1 DEF Issue, workVars
<1>4. CASE UNCHANGED vars /\ UNCHANGED <<refl, line, cleanVars>>
  BY <1>4 DEF vars, callVars, workVars
<1>5. CASE \E S : Leave(S) /\ Opened
  <2>1. /\ UNCHANGED <<callVars, wreq, refl, line, cleanVars>> /\ ~IsSeeRefl(session)
        /\ \A t \in Threads \ {session} : wpc'[t] = wpc[t]
    BY <1>1, <1>5 DEF Leave, Control, ThreadSound, TypeOK
  <2>2. QED
    BY <1>1, <2>1 DEF ReflSound, callVars
<1>6. CASE Unthread
  <2>1. spc = "over" /\ session \in Threads /\ wpc[session] = "end"
    BY <1>1, <1>6 DEF Unthread, SessionTypes, Control, ThreadSound
  <2>2. /\ UNCHANGED <<callVars, refl, line, cleanVars>>
        /\ \A t \in Threads \ {session} : wpc'[t] = wpc[t] /\ wreq'[t] = wreq[t]
        /\ wreq'[session] \in {wreq[session], NoRequest}
    BY <1>1, <1>6, <2>1 DEF Unthread, UnlockDevice, SetDone, TypeOK
  <2>3. QED
    BY <1>1, <2>1, <2>2, RequestTypes DEF ReflSound, callVars
<1>7. QED
  BY <1>2, <1>3, <1>4, <1>5, <1>6
  DEF Session, Open, Ask, WaitForAnswer, Answer, Connected, Issued, GiveUp, Waited, End,
      EndWithoutFec, AtEnd, Opened

LEMMA StepRefl == ASSUME SessionInv, [SNext]_allVars PROVE ReflSound'
<1>1. ReflSound /\ TypeOK
  BY InvControl
<1>2. SUFFICES ASSUME NEW t \in Threads, refl'[t] # "none"
               PROVE  wpc'[t] = "run" /\ wreq'[t].name = "see_refl"
  BY DEF ReflSound, IsSeeRefl
<1>3. refl[t] # "none" => wpc[t] = "run" /\ wreq[t].name = "see_refl" /\ Live(t)
  BY <1>1 DEF ReflSound, IsSeeRefl, Live
<1>4. CASE MainLoop
  <2>1. UNCHANGED workVars /\ refl[t] # "none"
    <3>1. UNCHANGED workVars
      BY <1>4
      DEF MainLoop, ReadLine, ProcessLine, Call, DivertLine, FreeCell, ForgetCell,
          ResetDone, AcceptXl3, CloseAnyXl3, vars
    <3>2. CASE DivertLine
      <4>1. refl' = refl \/ \E u \in Threads : /\ refl[u] = "waiting"
                                               /\ refl' = [refl EXCEPT ![u] = "woken"]
        BY <3>2 DEF DivertLine
      <4>2. refl \in [Threads -> {"none", "flagged", "waiting", "woken", "shown"}]
        BY InvControl DEF SessionTypes
      <4>3. QED
        BY <1>2, <3>1, <4>1, <4>2
    <3>3. CASE ~DivertLine
      <4>1. refl' = refl
        BY <1>4, <3>3
        DEF MainLoop, ReadLine, ProcessLine, FreeCell, ForgetCell, ResetDone, CloseAnyXl3,
            sessVars
      <4>2. QED
        BY <1>2, <3>1, <4>1
    <3>4. QED
      BY <3>1, <3>2, <3>3
  <2>2. QED
    BY <1>3, <2>1 DEF workVars
<1>5. CASE Locking(Main) \/ Locking(Ft)
  BY <1>2, <1>3, <1>5, LockingStays, CallersAre DEF Keeps, sessVars
<1>6. ASSUME NEW u \in Threads, Worker(u) PROVE wpc'[t] = "run" /\ wreq'[t].name = "see_refl"
  BY <1>2, <1>3, <1>6, WorkerStays DEF Keeps, sessVars, IsSeeRefl
<1>7. ASSUME NEW u \in Threads, SeeRefl(u) PROVE wpc'[t] = "run" /\ wreq'[t].name = "see_refl"
  BY <1>2, <1>3, <1>7, SeeReflStays, SeeReflIsOther DEF IsSeeRefl
<1>8. CASE Session /\ ~Locking(Ft)
  BY <1>2, <1>3, <1>8, SessionStepStays
<1>9. CASE UNCHANGED allVars
  BY <1>2, <1>3, <1>9 DEF allVars, vars, sessVars, workVars
<1>10. QED
  BY <1>4, <1>5, <1>6, <1>7, <1>8, <1>9 DEF SNext, Session


-----------------------------------------------------------------------------
(* The flag                                                                 *)

(* What the rest of the program leaves to the session: all but the answer   *)
(* to its prompt.                                                           *)
LEMMA OtherSteps ==
  ASSUME SessionInv, [SNext]_allVars, ~Session
  PROVE  /\ UNCHANGED <<session, spos, running_ecal>>
         /\ cpc'[Ft] = cpc[Ft] /\ creq'[Ft] = creq[Ft] /\ result'[Ft] = result[Ft]
         /\ spc' = spc \/ (DivertLine /\ spc = "waiting" /\ spc' = "woken")
<1>1. TypeOK /\ ~Locking(Ft)
  BY TypeIs DEF Session
<1>2. CASE UNCHANGED allVars
  BY <1>2 DEF allVars, vars, sessVars, flags, callVars
<1>3. CASE MainLoop
  <2>1. CASE ProcessLine
    BY <1>1, <2>1, CallersAre DEF ProcessLine, Call, TypeOK, flags
  <2>2. CASE DivertLine
    BY <2>2 DEF DivertLine, vars, callVars, flags
  <2>3. CASE ~ProcessLine /\ ~DivertLine
    BY <1>3, <2>3
    DEF MainLoop, ReadLine, FreeCell, ForgetCell, ResetDone, AcceptXl3, CloseAnyXl3, vars,
        sessVars, flags, callVars
  <2>4. QED
    BY <2>1, <2>2, <2>3
<1>4. CASE Locking(Main)
  <2>1. UNCHANGED sessVars /\ cpc'[Ft] = cpc[Ft] /\ creq'[Ft] = creq[Ft]
    BY <1>4, LockingStays, CallersAre
  <2>2. result'[Ft] = result[Ft]
    BY <1>1, <1>4, CallersAre
    DEF Locking, CheckDevice, ScanPool, Claim, LockDevice, Spawn, Return, TypeOK
  <2>3. QED
    BY <2>1, <2>2 DEF sessVars, flags
<1>5. ASSUME NEW t \in Threads, Worker(t)
      PROVE  UNCHANGED <<callVars, session, spos, spc, running_ecal>>
  BY <1>5, WorkerStays DEF sessVars, flags
<1>6. ASSUME NEW t \in Threads, SeeRefl(t)
      PROVE  UNCHANGED <<callVars, session, spos, spc, running_ecal>>
  BY <1>6, SeeReflStays
<1>7. QED
  BY <1>2, <1>3, <1>4, <1>5, <1>6 DEF SNext, callVars

(* The session goes forward.                                                *)
LEMMA SessionForward ==
  ASSUME SessionInv, Session, ~Locking(Ft)
  PROVE  /\ spos \in Nat /\ spos' \in {spos, spos + 1}
         /\ spos' # spos => spc \in {"woken", "step", "wait"} /\ spc' = "step"
         /\ spc = "wait" =>
              /\ spc' = "step"
              /\ Step.op # "connect" => spos' = spos + 1
         /\ spc = "issued" =>
              /\ spos' = spos
              /\ cpc[Ft] = "idle" /\ cpc'[Ft] = cpc[Ft] /\ result'[Ft] = result[Ft]
              /\ result[Ft] = 0 => spc' = "wait"
         /\ spc = "over" => spc' = "over"
         /\ spc = "none" => spc' = "open"
<1>1. SessionTypes /\ Control /\ spos \in Nat
  BY InvControl, LenNat DEF SessionTypes
<1>2. spos' \in {spos, spos + 1}
  BY DEF Session, Open, GiveBack, Ask, WaitForAnswer, Answer, Issue, Connected, Issued,
         GiveUp, Waited, SetOwn, End, EndWithoutFec, Leave, Unthread, Continue
<1>3. spos' # spos => spc \in {"woken", "step", "wait"} /\ spc' = "step"
  BY DEF Session, Open, GiveBack, Ask, WaitForAnswer, Answer, Issue, Connected, Issued,
         GiveUp, Waited, SetOwn, End, EndWithoutFec, Leave, Unthread, Continue, At
<1>4. ASSUME spc = "wait"
      PROVE  spc' = "step" /\ (Step.op # "connect" => spos' = spos + 1)
  <2>1. Waited
    BY <1>4 DEF Session, Open, GiveBack, Ask, WaitForAnswer, Answer, Issue, Connected,
                Issued, GiveUp, SetOwn, End, EndWithoutFec, AtEnd, Unthread, At
  <2>2. QED
    BY <2>1 DEF Waited, Continue
<1>5. ASSUME spc = "issued"
      PROVE  /\ spos' = spos
             /\ cpc[Ft] = "idle" /\ cpc'[Ft] = cpc[Ft] /\ result'[Ft] = result[Ft]
             /\ result[Ft] = 0 => spc' = "wait"
  <2>1. Issued \/ GiveUp
    BY <1>5 DEF Session, Open, GiveBack, Ask, WaitForAnswer, Answer, Issue, Connected,
                Waited, SetOwn, End, EndWithoutFec, AtEnd, Unthread, At
  <2>2. spos' = spos /\ cpc[Ft] = "idle" /\ UNCHANGED callVars
    BY <2>1 DEF Issued, GiveUp, Leave, vars
  <2>3. result[Ft] = 0 => spc' = "wait"
    BY <2>1 DEF Issued, GiveUp, GivesUp
  <2>4. QED
    BY <2>2, <2>3 DEF callVars
<1>6. spc = "over" => spc' = "over"
  BY DEF Session, Open, GiveBack, Ask, WaitForAnswer, Answer, Issue, Connected, Issued,
         GiveUp, Waited, SetOwn, End, EndWithoutFec, AtEnd, Leave, Unthread, At
<1>7. spc = "none" => spc' = "open"
  <2>1. spc = "none" => session = NoThread
    BY <1>1 DEF Control, ThreadSound
  <2>2. QED
    BY <2>1 DEF Session, Open, GiveBack, Ask, WaitForAnswer, Answer, Issue, Connected,
                Issued, GiveUp, Waited, SetOwn, End, EndWithoutFec, AtEnd, Leave, Unthread, At
<1>8. QED
  BY <1>1, <1>2, <1>3, <1>4, <1>5, <1>6, <1>7

(* What the session's see_refl has started never counts as not started.     *)
LEMMA OwnStays == ASSUME SessionInv, [SNext]_allVars, OwnSeeRefl PROVE OwnSeeRefl'
<1>1. PICK i \in DOMAIN Script : IsSeeReflStep(i) /\ Accepted(i)
  BY DEF OwnSeeRefl
<1>2. SUFFICES Accepted(i)'
  BY <1>1 DEF OwnSeeRefl, IsSeeReflStep
<1>3. spos \in Nat /\ i \in Nat
  BY InvControl, LenNat, SessionConstantsOK DEF SessionTypes
<1>4. CASE UNCHANGED <<spc, spos>> /\ cpc'[Ft] = cpc[Ft] /\ result'[Ft] = result[Ft]
  BY <1>1, <1>4 DEF Accepted, Inside
<1>5. CASE spos' \in {spos, spos + 1} /\ i < spos
  BY <1>3, <1>5 DEF Accepted
<1>6. ASSUME i = spos, i >= spos
      PROVE  Step.op = "cmd" /\ (spc = "wait" \/ (spc = "issued" /\ cpc[Ft] = "idle" /\ result[Ft] = 0))
  BY <1>1, <1>3, <1>6 DEF Accepted, IsSeeReflStep, Step, Inside
<1>7. CASE ~Session
  <2>1. spos' = spos /\ cpc'[Ft] = cpc[Ft] /\ result'[Ft] = result[Ft]
        /\ (spc' = spc \/ spc = "waiting")
    BY <1>7, OtherSteps
  <2>2. CASE i < spos
    BY <1>5, <2>1, <2>2
  <2>3. CASE ~(i < spos)
    <3>1. i = spos
      BY <1>1, <2>3 DEF Accepted
    <3>2. spc # "waiting"
      BY <1>3, <1>6, <3>1
    <3>3. QED
      BY <1>4, <2>1, <3>2
  <2>4. QED
    BY <2>2, <2>3
<1>8. CASE Locking(Ft)
  <2>1. UNCHANGED <<spc, spos>> /\ cpc[Ft] # "idle"
    BY <1>8, LockingStays, CallersAre DEF sessVars
  <2>2. spc = "issued"
    BY <2>1, InvControl DEF Control, ThreadSound, Inside
  <2>3. i < spos
    BY <1>1, <2>1, <2>2 DEF Accepted, Inside
  <2>4. QED
    BY <1>5, <2>1, <2>3
<1>9. CASE Session /\ ~Locking(Ft)
  <2>1. CASE i < spos
    BY <1>5, <1>9, <2>1, SessionForward
  <2>2. CASE ~(i < spos)
    <3>1. i = spos /\ i >= spos
      BY <1>1, <1>3, <2>2 DEF Accepted
    <3>2. CASE spc = "wait"
      <4>1. spos' = spos + 1
        BY <1>6, <1>9, <3>1, <3>2, SessionForward
      <4>2. i < spos'
        BY <1>3, <3>1, <4>1
      <4>3. QED
        BY <4>2 DEF Accepted
    <3>3. CASE spc = "issued"
      <4>1. spc' = "wait" /\ spos' = spos
        BY <1>6, <1>9, <3>1, <3>3, SessionForward
      <4>2. QED
        BY <3>1, <4>1 DEF Accepted
    <3>4. QED
      BY <1>6, <3>1, <3>2, <3>3
  <2>3. QED
    BY <2>1, <2>2
<1>10. QED
  BY <1>7, <1>8, <1>9

(* An ECAL's flag: only the session writes it.                              *)
LEMMA StepEcalFlag ==
  ASSUME SessionInv, [SNext]_allVars, Ecal, Opened' PROVE running_ecal'
<1>1. Opened => running_ecal
  BY DEF SessionInv, FlagStands
<1>2. CASE ~Session
  <2>1. running_ecal' = running_ecal /\ (spc' = spc \/ spc = "waiting")
    BY <1>2, OtherSteps
  <2>2. QED
    BY <1>1, <2>1 DEF Opened
<1>3. CASE Locking(Ft)
  BY <1>1, <1>3, LockingStays, CallersAre DEF sessVars, flags, Opened
<1>4. CASE Session /\ ~Locking(Ft)
  <2>1. CASE \E t \in Threads : Open(t)
    BY <2>1 DEF Open, SetFlag
  <2>2. CASE ~\E t \in Threads : Open(t)
    <3>1. Opened
      BY <1>4, <2>2 DEF Session, GiveBack, Ask, WaitForAnswer, Answer, Issue, Connected,
            Issued, GiveUp, Waited, SetOwn, End, EndWithoutFec, AtEnd, Unthread, At, Opened
    <3>2. running_ecal' = running_ecal
      BY <1>4, <2>2 DEF Session, GiveBack, Ask, WaitForAnswer, Answer, Issue, Connected,
            Issued, GiveUp, Waited, SetOwn, End, EndWithoutFec, Leave, Unthread, Opened, flags
    <3>3. QED
      BY <1>1, <3>1, <3>2
  <2>3. QED
    BY <2>1, <2>2
<1>5. QED
  BY <1>2, <1>3, <1>4

(* Nobody but the session issues a see_refl.                                *)
LEMMA StepRequests ==
  ASSUME SessionInv, [SNext]_allVars, ~Ecal, SeeReflIsLast
  PROVE  /\ line'.name # "see_refl" /\ creq'[Main].name # "see_refl"
         /\ Inside(Ft)' => creq'[Ft] = Issues'
<1>1. /\ line.name # "see_refl" /\ creq[Main].name # "see_refl"
      /\ Inside(Ft) => creq[Ft] = Issues
      /\ TypeOK
  BY TypeIs DEF SessionInv, FlagStands
<1>2. line'.name # "see_refl" /\ creq'[Main].name # "see_refl"
  <2>1. CASE MainLoop
    <3>1. CASE \E r \in Requests : ReadLine(r)
      BY <1>1, <3>1 DEF ReadLine, SeeReflIsLast, vars, callVars
    <3>2. CASE ProcessLine
      BY <1>1, <3>2, RequestTypes, CallersAre DEF ProcessLine, Call, TypeOK
    <3>3. CASE ~(\E r \in Requests : ReadLine(r)) /\ ~ProcessLine
      BY <1>1, <2>1, <3>3
      DEF MainLoop, DivertLine, FreeCell, ForgetCell, ResetDone, AcceptXl3, CloseAnyXl3,
          vars, sessVars, callVars
    <3>4. QED
      BY <3>1, <3>2, <3>3
  <2>2. CASE Locking(Main)
    <3>1. creq'[Main] \in {creq[Main], NoRequest} /\ line' = line
      BY <1>1, <2>2, CallersAre
      DEF Locking, CheckDevice, ScanPool, Claim, LockDevice, Spawn, Return, TypeOK, sessVars
    <3>2. QED
      BY <1>1, <3>1, RequestTypes
  <2>3. CASE Locking(Ft)
    BY <1>1, <2>3, LockingStays, CallersAre DEF sessVars
  <2>4. CASE Session /\ ~Locking(Ft)
    BY <1>1, <2>4, SessionStepStays
  <2>5. CASE (\E t \in Threads : Worker(t) \/ SeeRefl(t)) \/ UNCHANGED allVars
    BY <1>1, <2>5, WorkerStays, SeeReflStays DEF callVars, sessVars, allVars, vars
  <2>6. QED
    BY <2>1, <2>2, <2>3, <2>4, <2>5 DEF SNext
<1>3. ASSUME Inside(Ft)' PROVE creq'[Ft] = Issues'
  <2>1. CASE ~Session
    BY <1>1, <1>3, <2>1, OtherSteps DEF Inside, Issues, Step
  <2>2. CASE Locking(Ft)
    <3>1. UNCHANGED spos /\ cpc[Ft] # "idle"
      BY <2>2, LockingStays, CallersAre DEF sessVars
    <3>2. creq'[Ft] = creq[Ft]
      BY <1>1, <1>3, <2>2, CallersAre
      DEF Locking, CheckDevice, ScanPool, Claim, LockDevice, Spawn, Return, Inside, TypeOK
    <3>3. QED
      BY <1>1, <3>1, <3>2 DEF Inside, Issues, Step
  <2>3. CASE Issue
    BY <1>1, <2>3, CallersAre DEF Issue, Call, At, Issues, Step, TypeOK
  <2>4. CASE Session /\ ~Locking(Ft) /\ ~Issue
    <3>1. UNCHANGED callVars
      BY <2>4
      DEF Session, Open, GiveBack, Ask, WaitForAnswer, Answer, Connected, Issued, GiveUp,
          Waited, SetOwn, End, EndWithoutFec, Leave, Unthread, UnlockDevice, SetDone, vars
    <3>2. Inside(Ft) /\ spc = "issued"
      BY <1>3, <3>1, InvControl DEF callVars, Inside, Control, ThreadSound
    <3>3. QED
      BY <2>4, <3>2, SessionForward DEF Inside
  <2>5. QED
    BY <2>1, <2>2, <2>3, <2>4
<1>4. QED
  BY <1>2, <1>3

(* A see_refl that runs during a final test is the session's own.           *)
LEMMA StepSeeRefl ==
  ASSUME SessionInv, [SNext]_allVars, ~Ecal, SeeReflIsLast, NEW t \in Threads, IsSeeRefl(t)'
  PROVE  OwnSeeRefl' \/ spc' = "over"
<1>1. /\ \A u \in Threads : IsSeeRefl(u) => OwnSeeRefl \/ spc = "over"
      /\ creq[Main].name # "see_refl" /\ (Inside(Ft) => creq[Ft] = Issues)
  BY DEF SessionInv, FlagStands
<1>2. spc = "over" => spc' = "over"
  <2>1. CASE ~Session
    BY <2>1, OtherSteps
  <2>2. CASE Locking(Ft)
    BY <2>2, LockingStays, CallersAre DEF sessVars
  <2>3. QED
    BY <2>1, <2>2, SessionForward
<1>3. CASE IsSeeRefl(t)
  BY <1>1, <1>2, <1>3, OwnStays
<1>4. ASSUME ~IsSeeRefl(t) PROVE Spawn(Main) \/ (Locking(Ft) /\ Spawn(Ft))
  <2>1. CASE Locking(Main) \/ Locking(Ft)
    <3>1. CASE Spawn(Main) \/ (Locking(Ft) /\ Spawn(Ft))
      BY <3>1
    <3>2. CASE ~Spawn(Main) /\ ~(Locking(Ft) /\ Spawn(Ft))
      <4>1. wreq' = wreq
        BY <2>1, <3>2 DEF Locking, CheckDevice, ScanPool, Claim, LockDevice, workVars
      <4>2. QED
        BY <1>4, <4>1 DEF IsSeeRefl
    <3>3. QED
      BY <3>1, <3>2
  <2>2. CASE MainLoop \/ UNCHANGED allVars
    <3>1. wreq' = wreq
      BY <2>2
      DEF MainLoop, ReadLine, ProcessLine, Call, DivertLine, FreeCell, ForgetCell,
          ResetDone, AcceptXl3, CloseAnyXl3, allVars, vars, workVars
    <3>2. QED
      BY <1>4, <3>1 DEF IsSeeRefl
  <2>3. ASSUME NEW u \in Threads, Worker(u) PROVE FALSE
    <3>1. wreq'[t] \in {wreq[t], NoRequest}
      BY <2>3, WorkerStays
    <3>2. QED
      BY <1>4, <3>1, RequestTypes DEF IsSeeRefl
  <2>4. ASSUME NEW u \in Threads, SeeRefl(u) PROVE FALSE
    BY <1>4, <2>4, SeeReflStays DEF IsSeeRefl
  <2>5. CASE Session /\ ~Locking(Ft)
    <3>1. wreq'[t].name \in {wreq[t].name, "other"}
      BY <2>5, SessionStepStays
    <3>2. QED
      BY <1>4, <3>1 DEF IsSeeRefl
  <2>6. QED
    BY <2>1, <2>2, <2>3, <2>4, <2>5 DEF SNext
<1>5. ASSUME NEW c \in Callers, Spawn(c), ~IsSeeRefl(t) PROVE creq[c].name = "see_refl"
  <2>1. wreq' = [wreq EXCEPT ![cthr[c]] = creq[c]]
    BY <1>5 DEF Spawn
  <2>2. wreq'[t] \in {wreq[t], creq[c]}
    BY <2>1, TypeIs DEF TypeOK
  <2>3. QED
    BY <1>5, <2>2 DEF IsSeeRefl
<1>6. CASE Locking(Ft) /\ Spawn(Ft) /\ ~IsSeeRefl(t)
  <2>1. UNCHANGED <<spc, spos>> /\ Inside(Ft)
    BY <1>6, LockingStays, CallersAre DEF sessVars, Inside
  <2>2. cpc'[Ft] = "idle" /\ result'[Ft] = 0
    BY <1>6, TypeIs, CallersAre DEF Spawn, Return, TypeOK
  <2>3. creq[Ft] = Issues /\ creq[Ft].name = "see_refl"
    BY <1>1, <1>5, <1>6, <2>1, CallersAre
  <2>4. spc = "issued" /\ Step.op \in {"cmd", "connect"} /\ spos <= Len(Script)
    BY <2>1, InvControl DEF Control, ThreadSound, StepMatches
  <2>5. Step.op = "cmd" /\ Step.req.name = "see_refl"
    BY <2>3, <2>4, RequestTypes DEF Issues
  <2>6. spos \in DOMAIN Script
    <3>1. spos \in 1 .. Len(Script)
      BY <2>4, InvControl, LenNat DEF SessionTypes
    <3>2. QED
      BY <3>1, StepType
  <2>7. IsSeeReflStep(spos) /\ Accepted(spos)'
    BY <2>1, <2>2, <2>4, <2>5 DEF IsSeeReflStep, Accepted, Inside, Step
  <2>8. QED
    BY <2>1, <2>6, <2>7 DEF OwnSeeRefl, IsSeeReflStep, Accepted, Inside
<1>7. QED
  BY <1>1, <1>3, <1>4, <1>5, <1>6, CallersAre

LEMMA StepFinalFlag ==
  ASSUME SessionInv, [SNext]_allVars, ~Ecal, SeeReflIsLast, Opened', ~OwnSeeRefl'
  PROVE  running_final_test'
<1>1. ~OwnSeeRefl
  BY OwnStays
<1>2. /\ Opened => running_final_test
      /\ \A t \in Threads : IsSeeRefl(t) => spc = "over"
  BY <1>1 DEF SessionInv, FlagStands
<1>3. CASE \E t \in Threads : SeeRefl(t)
  <2>1. PICK t \in Threads : SeeRefl(t)
    BY <1>3
  <2>2. spc = "over" /\ spc' = spc
    BY <1>2, <2>1, SeeReflIsOther, SeeReflStays
  <2>3. QED
    BY <2>2 DEF Opened
<1>4. CASE Session /\ ~Locking(Ft)
  <2>1. CASE \E t \in Threads : Open(t)
    BY <2>1 DEF Open, SetFlag
  <2>2. CASE ~\E t \in Threads : Open(t)
    <3>1. Opened
      BY <1>4, <2>2 DEF Session, GiveBack, Ask, WaitForAnswer, Answer, Issue, Connected,
            Issued, GiveUp, Waited, SetOwn, End, EndWithoutFec, AtEnd, Unthread, At, Opened
    <3>2. running_final_test' = running_final_test
      BY <1>4, <2>2 DEF Session, GiveBack, Ask, WaitForAnswer, Answer, Issue, Connected,
            Issued, GiveUp, Waited, SetOwn, End, EndWithoutFec, Leave, Unthread, Opened, flags
    <3>3. QED
      BY <1>2, <3>1, <3>2
  <2>3. QED
    BY <2>1, <2>2
<1>5. CASE ~(\E t \in Threads : SeeRefl(t)) /\ ~(Session /\ ~Locking(Ft))
  <2>1. running_final_test' = running_final_test
    BY <1>5
    DEF SNext, MainLoop, ReadLine, ProcessLine, DivertLine, FreeCell, ForgetCell, ResetDone,
        CloseAnyXl3, Worker, Locking, sessVars, flags, allVars
  <2>2. Opened
    <3>1. CASE ~Session
      <4>1. spc' = spc \/ spc = "waiting"
        BY <3>1, OtherSteps
      <4>2. QED
        BY <4>1 DEF Opened
    <3>2. CASE Locking(Ft)
      BY <3>2 DEF Locking, sessVars, Opened
    <3>3. QED
      BY <1>5, <3>1, <3>2
  <2>3. QED
    BY <1>2, <2>1, <2>2
<1>6. QED
  BY <1>3, <1>4, <1>5

LEMMA StepFlag == ASSUME FlagIsItsOwn, SessionInv, [SNext]_allVars PROVE FlagStands'
  BY StepEcalFlag, StepRequests, StepSeeRefl, StepFinalFlag DEF FlagIsItsOwn, FlagStands

LEMMA StepDiverts == ASSUME FlagIsItsOwn, SessionInv, [SNext]_allVars PROVE MainDiverts'
<1>1. SUFFICES ASSUME Opened', Ecal \/ ~OwnSeeRefl', spos' > 1 \/ spc' = "woken"
               PROVE  cpc'[Main] = "idle" /\ line' = NoRequest
  BY DEF MainDiverts, MainIdle
<1>2. Ecal \/ ~OwnSeeRefl
  BY <1>1, OwnStays
<1>3. Control /\ SessionTypes /\ TypeOK /\ MainDiverts /\ FlagStands
  BY InvControl
<1>4. CASE Opened /\ (spos > 1 \/ spc = "woken")
  <2>1. MainIdle /\ Diverting
    BY <1>2, <1>3, <1>4 DEF MainDiverts, FlagStands, Diverting
  <2>2. CASE MainLoop
    <3>1. ~(\E r \in Requests : ReadLine(r)) /\ ~ProcessLine
      BY <2>1 DEF ReadLine, ProcessLine, MainIdle
    <3>2. UNCHANGED <<cpc, line>>
      BY <2>2, <3>1
      DEF MainLoop, DivertLine, FreeCell, ForgetCell, ResetDone, AcceptXl3, CloseAnyXl3,
          vars, sessVars, callVars
    <3>3. QED
      BY <2>1, <3>2 DEF MainIdle
  <2>3. CASE Locking(Main) \/ Locking(Ft)
    BY <2>1, <2>3, LockingStays, CallersAre DEF MainIdle, sessVars
  <2>4. CASE Session /\ ~Locking(Ft)
    BY <2>1, <2>4, SessionStepStays DEF MainIdle
  <2>5. CASE (\E t \in Threads : Worker(t) \/ SeeRefl(t)) \/ UNCHANGED allVars
    BY <2>1, <2>5, WorkerStays, SeeReflStays DEF callVars, sessVars, allVars, vars, MainIdle
  <2>6. QED
    BY <2>2, <2>3, <2>4, <2>5 DEF SNext
<1>5. CASE ~(Opened /\ (spos > 1 \/ spc = "woken"))
  <2>1. CASE ~Session
    <3>1. spos' = spos /\ (spc' = spc \/ (DivertLine /\ spc = "waiting" /\ spc' = "woken"))
      BY <2>1, OtherSteps
    <3>2. DivertLine
      BY <1>1, <1>5, <3>1 DEF Opened
    <3>3. QED
      BY <3>2 DEF DivertLine, MainReady, MainIdle, vars, callVars
  <2>2. CASE Locking(Ft)
    BY <1>1, <1>5, <2>2, LockingStays, CallersAre DEF sessVars, Opened
  <2>3. CASE Session /\ ~Locking(Ft)
    <3>1. Opened
      <4>1. spc # "over"
        BY <1>1, <2>3, SessionForward DEF Opened
      <4>2. spc # "none"
        <5>1. spc = "none" => spc' = "open" /\ spos' = spos /\ spos = 1
          BY <1>3, <2>3, SessionForward DEF Control, ThreadSound
        <5>2. QED
          BY <1>1, <5>1
      <4>3. QED
        BY <4>1, <4>2 DEF Opened
    <3>2. spc # "woken" /\ ~(spos > 1)
      BY <1>5, <3>1
    <3>3. spc' # "woken"
      BY <2>3, <3>2 DEF Session, Open, GiveBack, Ask, WaitForAnswer, Answer, Issue,
            Connected, Issued, GiveUp, Waited, SetOwn, End, EndWithoutFec, Leave, Unthread,
            Continue, Locking, sessVars
    <3>4. spos' # spos
      BY <1>1, <3>2, <3>3
    <3>5. Connected \/ Waited \/ SetOwn
      BY <2>3, <3>2, <3>4 DEF Session, Open, GiveBack, Ask, WaitForAnswer, Answer, Issue,
            Issued, GiveUp, End, EndWithoutFec, Leave, Unthread
    <3>6. spos <= Len(Script) /\ Step.op # "prompt"
      BY <1>3, <3>5 DEF Connected, Waited, SetOwn, At, Control, StepMatches
    <3>7. spos = 1
      <4>1. spos \in Int /\ spos >= 1
        BY <1>3, LenNat DEF SessionTypes
      <4>2. QED
        BY <3>2, <4>1
    <3>8. QED
      BY <3>6, <3>7, FirstIsPrompt
  <2>4. QED
    BY <2>1, <2>2, <2>3
<1>6. QED
  BY <1>4, <1>5

LEMMA StepSessionInv == FlagIsItsOwn /\ SessionInv /\ [SNext]_allVars => SessionInv'
<1> SUFFICES ASSUME FlagIsItsOwn, SessionInv, [SNext]_allVars PROVE SessionInv'
  OBVIOUS
<1>1. TypeOK' /\ SessionTypes' /\ Control' /\ ReflSound'
  BY StepKinds, StepTypes, StepControl, StepRefl
<1>2. FlagStands' /\ MainDiverts' /\ SharedSlots'
  BY StepFlag, StepDiverts, StepSlots
<1>3. STypeOK'
  BY <1>1 DEF STypeOK, SessionTypes
<1>4. SessionSound' /\ StepMatches'
  BY <1>1 DEF Control, SessionSound, ThreadSound, ReflSound
<1>5. QED
  BY <1>2, <1>3, <1>4 DEF SessionInv

-----------------------------------------------------------------------------
(* SessionInv holds: with cleanup_threads taken store by store and see_refl *)
(* writing the final test's flag, the control of the session, the flag, the *)
(* diversion of main's input and the slots of thread_pool keep fitting      *)
(* together, for every script and every number of devices and slots.        *)
THEOREM SessionInvHolds == FlagIsItsOwn => (SafeSSpec => []SessionInv)
<1> SUFFICES ASSUME FlagIsItsOwn PROVE SafeSSpec => []SessionInv
  OBVIOUS
<1>1. SessionInv /\ [SNext]_allVars => SessionInv'
  BY StepSessionInv
<1>2. SInit => SessionInv
  BY InitSessionInv
<1>3. QED
  BY <1>1, <1>2, PTL DEF SafeSSpec

(* The variables of Sessions keep their types.                              *)
THEOREM SessionTypeCorrect == FlagIsItsOwn => (SafeSSpec => []STypeOK)
<1>1. SessionInv => STypeOK
  BY TypeIs
<1>2. QED
  BY <1>1, SessionInvHolds, PTL

(* The session and main are never inside thread_and_lock at the same time,  *)
(* though the mutex of thread_and_lock is commented out.                    *)
THEOREM OneCallerHolds == FlagIsItsOwn => (SafeSSpec => []OneCallerAtATime)
<1> SUFFICES ASSUME FlagIsItsOwn PROVE SafeSSpec => []OneCallerAtATime
  OBVIOUS
<1>1. SessionInv => OneCallerAtATime
  BY AtMostOneInside, CallersAre DEF OneInside, OneCallerAtATime, Inside
<1>2. QED
  BY <1>1, SessionInvHolds, PTL

(* cleanup_threads frees only cells of threads that have ended, though the  *)
(* session may claim the slot, and even the cell, between its stores.       *)
THEOREM SessionFreesOnlyDead == FlagIsItsOwn => (SafeSSpec => FreesOnlyDead)
<1> SUFFICES ASSUME FlagIsItsOwn PROVE SafeSSpec => FreesOnlyDead
  OBVIOUS
<1>1. SessionInv /\ [SNext]_allVars =>
        [mpc = "loop" /\ mpc' = "freed" =>
           /\ thread_pool[mslot'] # NoThread
           /\ ~Live(thread_pool[mslot'])
           /\ \A c \in Callers : cthr[c] # thread_pool[mslot']]_allVars
  <2> SUFFICES ASSUME SessionInv, [SNext]_allVars, mpc = "loop", mpc' = "freed"
               PROVE  /\ thread_pool[mslot'] # NoThread
                      /\ ~Live(thread_pool[mslot'])
                      /\ \A c \in Callers : cthr[c] # thread_pool[mslot']
    OBVIOUS
  <2>1. mpc' # mpc
    OBVIOUS
  <2>2. PICK s \in Slots : FreeCell(s)
    <3>1. CASE MainLoop
      BY <2>1, <3>1 DEF MainLoop, ReadLine, ProcessLine, DivertLine, FreeCell, ForgetCell,
            ResetDone, AcceptXl3, CloseAnyXl3, sessVars, cleanVars
    <3>2. CASE ~MainLoop
      <4>1. UNCHANGED cleanVars
        BY <3>2, WorkerStays, SeeReflStays, SessionStepStays, LockingStays, CallersAre
        DEF SNext, sessVars, allVars
      <4>2. QED
        BY <2>1, <4>1 DEF cleanVars
    <3>3. QED
      BY <3>1, <3>2
  <2>3. mslot' = s
    BY <2>2 DEF FreeCell
  <2>4. QED
    BY <2>2, <2>3, TypeIs, FreeCellSlots DEF SessionInv
<1>2. QED
  BY <1>1, SessionInvHolds, PTL DEF SafeSSpec, FreesOnlyDead


-----------------------------------------------------------------------------
(* The locks, for a session that sets only locks it has waited for          *)

LEMMA InitFinal == SInit => FinalTestInv
<1> SUFFICES ASSUME SInit PROVE FinalTestInv
  OBVIOUS
<1>1. LockInv
  BY InitIInv DEF SInit, IInv
<1>2. EndsInOrder /\ IssuedOnly /\ SettledExclusive
  BY CallersAre DEF SInit, Init, EndsInOrder, IssuedOnly, SettledExclusive, Inside
<1>3. QED
  BY <1>1, <1>2 DEF FinalTestInv

(* Before its first answer the session has waited for nothing.              *)
Asking1st == SessionInv /\ spos = 1

LEMMA NothingSettledYet == Asking1st => IssuedOnly /\ SettledExclusive
<1> SUFFICES ASSUME SessionInv, spos = 1 PROVE IssuedOnly /\ SettledExclusive
  BY DEF Asking1st
<1>1. Settled = {}
  BY DEF Settled
<1>2. spc \notin {"issued", "wait"}
  BY FirstIsPrompt DEF SessionInv, StepMatches
<1>3. ~Inside(Ft)
  BY <1>2 DEF SessionInv, SessionSound
<1>4. QED
  BY <1>1, <1>2, <1>3 DEF IssuedOnly, SettledExclusive

LEMMA NothingSettledYetNext == Asking1st' => IssuedOnly' /\ SettledExclusive'
<1>1. Asking1st => IssuedOnly /\ SettledExclusive
  BY NothingSettledYet
<1>2. QED
  BY <1>1, PTL

(* Only a command is waited for on the session's devices.                   *)
LEMMA SettledSame ==
  ASSUME SessionInv, spos' = spos \/ (spos' = spos + 1 /\ Step.op # "cmd")
  PROVE  Settled' = Settled
<1>1. spos \in Nat /\ spos >= 1
  BY DEF SessionInv, STypeOK
<1>2. CASE spos' = spos
  BY <1>2 DEF Settled
<1>3. CASE spos' = spos + 1 /\ Step.op # "cmd"
  <2>1. 1 .. spos' - 1 = (1 .. spos - 1) \cup {spos}
    BY <1>1, <1>3
  <2>2. QED
    BY <1>3, <2>1 DEF Settled, Step
<1>4. QED
  BY <1>2, <1>3

LEMMA GiveBackLocks ==
  ASSUME SessionInv, LockInv, GiveBack
  PROVE  LockInv'
<1>1. PICK d \in Devices : /\ d \in wreq[session].devs
                          /\ lock' = [e \in Devices |-> IF e = d THEN 0 ELSE lock[e]]
                          /\ wreq' = [wreq EXCEPT ![session].devs = @ \ {d}]
  BY DEF GiveBack, SetLocks, IsFirst
<1>2. session \in Threads /\ wpc[session] = "run" /\ UNCHANGED <<callVars, wpc, wtodo>>
  BY DEF GiveBack, SessionInv, SessionSound, Opened
<1>3. d \in Owned(session)
  BY <1>1, <1>2 DEF Owned
<1>4. \A t \in Threads : Owned(t)' = Owned(t) \ {d}
  BY <1>1, <1>2, <1>3
  DEF Owned, LockInv, MutualExclusion, SessionInv, STypeOK, TypeOK, Request
<1>5. \A c \in Callers : Held(c)' = Held(c) /\ d \notin Held(c)
  BY <1>2, <1>3 DEF Held, LockInv, HeldNotOwned, callVars
<1>6. \A e \in Devices : lock'[e] = IF e = d THEN 0 ELSE lock[e]
  BY <1>1
<1>7. MutualExclusion' /\ HeldNotOwned'
  BY <1>4, <1>5 DEF LockInv, MutualExclusion, HeldNotOwned
<1>8. LockedIffOwned'
  BY <1>4, <1>5, <1>6 DEF LockInv, LockedIffOwned
<1>9. CallerLocks'
  BY <1>2, <1>6
  DEF LockInv, CallerLocks, callVars, SessionInv, STypeOK, TypeOK, Request
<1>10. QED
  BY <1>7, <1>8, <1>9 DEF LockInv

LEMMA SetOwnLocks ==
  ASSUME LocksWhatItSettled, SessionInv, ~OwnSeeRefl, LockInv, SettledExclusive, SetOwn
  PROVE  LockInv'
<1>1. /\ spc = "step" /\ spos \in 1 .. Len(Script) /\ spos \in DOMAIN Script
      /\ Step.op \in {"lock", "unlock"} /\ Step.devs \subseteq Devices
  BY StepType, SessionConstantsOK DEF SetOwn, At, SessionInv, STypeOK
<1>2. Step.op = "lock" /\ Step.devs \subseteq Settled
  BY <1>1 DEF LocksWhatItSettled, Step, Settled
<1>3. /\ lock' = [e \in Devices |-> IF e \in Step.devs THEN 1 ELSE lock[e]]
      /\ wreq' = [wreq EXCEPT ![session].devs = @ \cup Step.devs]
      /\ UNCHANGED <<callVars, wpc, wtodo>>
  BY <1>2 DEF SetOwn, SetLocks
<1>4. Opened /\ session \in Threads /\ wpc[session] = "run"
  BY <1>1 DEF SessionInv, SessionSound, Opened
<1>5. \A t \in Threads :
        Owned(t)' = IF t = session THEN Owned(t) \cup Step.devs ELSE Owned(t)
  BY <1>3, <1>4 DEF Owned, SessionInv, STypeOK, TypeOK, Request
<1>6. \A t \in Threads \ {session} : Owned(t) \cap Step.devs = {}
  BY <1>1, <1>2, <1>4 DEF SettledExclusive
<1>7. \A c \in Callers : cpc[c] = "idle"
  <2>1. spos > 1
    BY <1>1, <1>2, FirstIsPrompt
  <2>2. QED
    BY <1>1, <1>4, <2>1, CallersAre
    DEF SessionInv, SessionSound, MainDiverts, MainIdle, Inside
<1>8. \A c \in Callers : Held(c)' = {} /\ Held(c) = {}
  BY <1>3, <1>7 DEF Held, callVars
<1>9. MutualExclusion' /\ HeldNotOwned'
  BY <1>5, <1>6, <1>8 DEF LockInv, MutualExclusion, HeldNotOwned
<1>10. LockedIffOwned'
  BY <1>1, <1>3, <1>4, <1>5, <1>8 DEF LockInv, LockedIffOwned
<1>11. CallerLocks'
  BY <1>3, <1>7 DEF LockInv, CallerLocks, callVars
<1>12. QED
  BY <1>9, <1>10, <1>11 DEF LockInv

LEMMA SessionStepLocks ==
  ASSUME FlagIsItsOwn, LocksWhatItSettled, SessionInv, ~OwnSeeRefl, LockInv,
         SettledExclusive, [SNext]_allVars, spc' # "over"
  PROVE  LockInv'
<1>1. OneInside /\ TypeOK /\ NewThreads
  BY AtMostOneInside, TypeIs DEF SessionInv, SharedSlots, NewThreads
<1>2. ASSUME NEW c \in Callers, NEW r \in Request, Call(c, r) PROVE LockInv'
  BY <1>1, <1>2, LocksCall
<1>3. ASSUME NEW c \in Callers, Locking(c) PROVE LockInv'
  BY <1>1, <1>3, LocksCheckDevice, LocksScanPool, LocksClaim, LocksLockDevice, LocksSpawn
  DEF Locking
<1>4. CASE UNCHANGED <<lock, callVars, workVars>>
  BY <1>1, <1>4, LocksSame
<1>5. CASE MainLoop
  <2>1. ProcessLine => Call(Main, line) /\ line \in Request
    BY InvControl DEF ProcessLine, SessionTypes
  <2>2. ProcessLine \/ UNCHANGED <<lock, callVars, workVars>>
    BY <1>5
    DEF MainLoop, ReadLine, DivertLine, FreeCell, ForgetCell, ResetDone, AcceptXl3,
        CloseAnyXl3, vars, poolVars
  <2>3. QED
    BY <1>2, <1>4, <2>1, <2>2, CallersAre
<1>6. ASSUME NEW t \in Threads, Worker(t) PROVE LockInv'
  <2>1. CASE TempUnlock(t) \/ Relock(t) \/ Finish(t) \/ UnthreadAndUnlock(t)
    BY <1>1, <2>1, WorkerLocks
  <2>2. CASE ~(TempUnlock(t) \/ Relock(t) \/ Finish(t) \/ UnthreadAndUnlock(t))
    BY <1>4, <1>6, <2>2 DEF Worker, LoseDevice, ConnectSbc
  <2>3. QED
    BY <2>1, <2>2
<1>7. ASSUME NEW t \in Threads, SeeRefl(t) PROVE LockInv'
  <2>1. CASE Finish(t)
    BY <1>1, <2>1, LocksFinish
  <2>2. CASE ~Finish(t)
    <3>1. UNCHANGED vars
      BY <1>7, <2>2 DEF SeeRefl, SeeReflStarts, SeeReflAsks, SeeReflAnswered, SeeReflEnds,
                        SeeReflFails, SeeReflReturns
    <3>2. QED
      BY <1>4, <3>1 DEF vars
  <2>3. QED
    BY <2>1, <2>2
<1>8. CASE Issue
  <2>1. spos \in 1 .. Len(Script)
    <3>1. spos \in 1 .. Len(Script) + 1 /\ spos <= Len(Script)
      BY <1>8 DEF Issue, At, SessionInv, STypeOK
    <3>2. QED
      BY <3>1, LenNat
  <2>2. Call(Ft, Issues)
    BY <1>8 DEF Issue, At, Issues
  <2>3. QED
    BY <1>2, <2>1, <2>2, IssuesType, CallersAre
<1>9. CASE \/ \E t \in Threads : Open(t)
           \/ Ask \/ WaitForAnswer \/ Answer \/ Connected \/ Issued \/ GiveUp \/ Waited
           \/ UNCHANGED allVars
  <2>1. UNCHANGED vars
    BY <1>9
    DEF Open, Ask, WaitForAnswer, Answer, Connected, Issued, GiveUp, Waited, Leave, allVars
  <2>2. QED
    BY <1>4, <2>1 DEF vars
<1>10. ~End /\ ~EndWithoutFec /\ ~Unthread
  BY DEF End, EndWithoutFec, Leave, Unthread
<1>11. QED
  BY <1>3, <1>5, <1>6, <1>7, <1>8, <1>9, <1>10, CallersAre, GiveBackLocks, SetOwnLocks
  DEF SNext, Session

(* A session that has not ended has not ended before, and keeps its thread. *)
LEMMA SessionStays ==
  ASSUME SessionInv, [SNext]_allVars, spc' # "over"
  PROVE  spc # "over" /\ (session = NoThread \/ session' = session)
<1>1. CASE ~Session
  BY <1>1, OtherSteps
<1>2. CASE Locking(Ft)
  BY <1>2 DEF Locking, sessVars
<1>3. CASE Session /\ ~Locking(Ft)
  <2>1. spc # "over"
    BY <1>3, SessionForward
  <2>2. CASE \E t \in Threads : Open(t)
    BY <2>2 DEF Open, SessionInv, SessionSound
  <2>3. CASE ~\E t \in Threads : Open(t)
    BY <1>3, <2>1, <2>3
    DEF Session, GiveBack, Ask, WaitForAnswer, Answer, Issue, Connected, Issued, GiveUp,
        Waited, SetOwn, End, EndWithoutFec, Leave, Unthread
  <2>4. QED
    BY <2>1, <2>2, <2>3
<1>4. QED
  BY <1>1, <1>2, <1>3

(* The workers' devices go back in their order.                             *)
LEMMA StepEndsInOrder ==
  ASSUME SessionInv, EndsInOrder, [SNext]_allVars, spc' # "over"
  PROVE  EndsInOrder'
<1>1. (session = NoThread \/ session' = session) /\ NoThread \notin Threads
  BY SessionStays, ConstantsOK
<1> SUFFICES ASSUME NEW t \in Threads, t # session, wpc'[t] = "end"
             PROVE  /\ wtodo'[t] \subseteq wreq'[t].devs
                    /\ \A d \in wreq'[t].devs \ wtodo'[t], e \in wtodo'[t] : d < e
  BY <1>1 DEF EndsInOrder
<1>2. TypeOK
  BY DEF SessionInv, STypeOK
<1>3. CASE Finish(t)
  BY <1>2, <1>3 DEF Finish, TypeOK
<1>4. CASE UnlockDevice(t)
  <2>1. PICK d \in Devices : IsFirst(d, wtodo[t]) /\ wtodo' = [wtodo EXCEPT ![t] = @ \ {d}]
    BY <1>4 DEF UnlockDevice
  <2>2. /\ wtodo[t] \subseteq wreq[t].devs /\ wreq[t].devs \subseteq Devices
        /\ \A f \in wreq[t].devs \ wtodo[t], e \in wtodo[t] : f < e
    BY <1>2, <1>4 DEF UnlockDevice, EndsInOrder, TypeOK, Request
  <2>3. wtodo'[t] = wtodo[t] \ {d} /\ wreq' = wreq
    BY <1>2, <1>4, <2>1 DEF UnlockDevice, TypeOK
  <2>4. \A e \in wtodo[t] \ {d} : d < e
    BY <2>1, <2>2 DEF IsFirst, Devices
  <2>5. QED
    BY <2>2, <2>3, <2>4
<1>5. CASE wpc[t] = "end" /\ wtodo'[t] = wtodo[t] /\ wreq'[t] = wreq[t]
  BY <1>5 DEF EndsInOrder
<1>6. CASE \E u \in Threads : Worker(u)
  BY <1>2, <1>3, <1>4, <1>5, <1>6
  DEF Worker, LoseDevice, ConnectSbc, TempUnlock, Relock, Finish, UnthreadAndUnlock,
      UnlockDevice, SetDone, TypeOK, workVars
<1>7. ASSUME NEW c \in Callers, Locking(c)
      PROVE  wpc[t] = "end" /\ wtodo'[t] = wtodo[t] /\ wreq'[t] = wreq[t]
  <2>1. CASE Spawn(c)
    BY <1>2, <2>1 DEF Spawn, TypeOK, SessionInv, SharedSlots, Live
  <2>2. CASE ~Spawn(c)
    BY <1>7, <2>2 DEF Locking, CheckDevice, ScanPool, Claim, LockDevice, workVars
  <2>3. QED
    BY <2>1, <2>2
<1>8. CASE MainLoop \/ UNCHANGED allVars
  BY <1>5, <1>8
  DEF MainLoop, ReadLine, ProcessLine, Call, DivertLine, FreeCell, ForgetCell, ResetDone,
      AcceptXl3, CloseAnyXl3, vars, workVars, allVars
<1>9. ASSUME NEW u \in Threads, SeeRefl(u)
      PROVE  Finish(t) \/ (wpc[t] = "end" /\ wtodo'[t] = wtodo[t] /\ wreq'[t] = wreq[t])
  <2>1. UNCHANGED workVars \/ Finish(u)
    BY <1>9 DEF SeeRefl, SeeReflStarts, SeeReflAsks, SeeReflAnswered, SeeReflEnds,
                SeeReflFails, SeeReflReturns, vars
  <2>2. CASE UNCHANGED workVars
    BY <2>2 DEF workVars
  <2>3. CASE Finish(u) /\ u # t
    <3>1. wtodo' = [wtodo EXCEPT ![u] = wreq[u].devs] /\ wpc' = [wpc EXCEPT ![u] = "end"]
          /\ wreq' = wreq
      BY <2>3 DEF Finish
    <3>2. wtodo'[t] = wtodo[t] /\ wpc'[t] = wpc[t]
      BY <1>2, <2>3, <3>1 DEF TypeOK
    <3>3. QED
      BY <3>1, <3>2
  <2>4. QED
    BY <2>1, <2>2, <2>3
<1>10. CASE Session /\ ~Locking(Ft)
  <2>1. \A u \in Threads \ {session} :
          u # session' => wpc'[u] = wpc[u] /\ wtodo'[u] = wtodo[u] /\ wreq'[u] = wreq[u]
    BY <1>1, <1>2, <1>10
    DEF Session, Open, GiveBack, Ask, WaitForAnswer, Answer, Issue, Call, Connected, Issued,
        GiveUp, Waited, SetOwn, End, EndWithoutFec, Leave, Unthread, vars, workVars, TypeOK
  <2>2. CASE t # session'
    BY <1>5, <2>1, <2>2
  <2>3. CASE t = session'
    <3>1. \E u \in Threads : Open(u)
      BY <1>1, <1>10, <2>3
      DEF Session, GiveBack, Ask, WaitForAnswer, Answer, Issue, Connected, Issued,
          GiveUp, Waited, SetOwn, End, EndWithoutFec, Leave, Unthread
    <3>2. wpc'[t] = "run"
      BY <2>3, <3>1 DEF Open, vars, workVars
    <3>3. QED
      BY <3>2
  <2>4. QED
    BY <2>2, <2>3
<1>11. QED
  BY <1>3, <1>5, <1>6, <1>7, <1>8, <1>9, <1>10, CallersAre DEF SNext, Session, EndsInOrder, workVars

(* A step of another thread that starts no command.                         *)
Quiet ==
  /\ UNCHANGED <<session, spos, cpc, creq, result>>
  /\ \A t \in Threads \ {session} :
       Owned(t)' \subseteq Owned(t) /\ (Owned(t)' # {} => wreq'[t] = wreq[t])

LEMMA QuietKeepsSettled ==
  ASSUME SessionInv, IssuedOnly, SettledExclusive, ~OwnSeeRefl, Quiet,
         UNCHANGED spc \/ (spc \in {"step", "asking", "waiting", "woken"}
                           /\ spc' \in {"step", "asking", "waiting", "woken"})
  PROVE  IssuedOnly' /\ SettledExclusive'
<1>1. Settled' = Settled /\ Issues' = Issues /\ Inside(Ft)' = Inside(Ft)
  BY SettledSame DEF Quiet, Issues, Step, Inside
<1>2. \A t \in Threads \ {session} :
        Owned(t)' \cap Settled # {} => Owned(t) \cap Settled # {} /\ wreq'[t] = wreq[t]
  BY DEF Quiet
<1>3. spc' = spc \/ spc' \notin {"issued", "wait"}
  OBVIOUS
<1>4. IssuedOnly'
  BY <1>1, <1>2, <1>3 DEF Quiet, IssuedOnly
<1>5. spc' \in {"step", "asking", "waiting", "woken"} =>
        spc \in {"step", "asking", "waiting", "woken"}
  OBVIOUS
<1>6. SettledExclusive'
  BY <1>1, <1>2, <1>5 DEF Quiet, SettledExclusive
<1>7. QED
  BY <1>4, <1>6

LEMMA WorkerQuiet ==
  ASSUME SessionInv, NEW t \in Threads, Worker(t)
  PROVE  Quiet /\ UNCHANGED spc
<1>1. TypeOK
  BY DEF SessionInv, STypeOK
<1>2. UNCHANGED <<sessVars, callVars>>
  BY WorkerStays
<1>3. \A u \in Threads \ {t} : wpc'[u] = wpc[u] /\ wreq'[u] = wreq[u] /\ wtodo'[u] = wtodo[u]
  BY <1>1
  DEF Worker, LoseDevice, ConnectSbc, TempUnlock, Relock, Finish, UnthreadAndUnlock,
      UnlockDevice, SetDone, TypeOK, workVars
<1>4. Owned(t)' \subseteq Owned(t) /\ (Owned(t)' # {} => wreq'[t] = wreq[t])
  BY <1>1
  DEF Worker, LoseDevice, ConnectSbc, TempUnlock, Relock, Finish, UnthreadAndUnlock,
      UnlockDevice, SetDone, TypeOK, workVars, Owned
<1>5. \A u \in Threads \ {t} : Owned(u)' = Owned(u)
  BY <1>3 DEF Owned
<1>6. QED
  BY <1>2, <1>3, <1>4, <1>5 DEF Quiet, sessVars, callVars

LEMMA SeeReflQuiet ==
  ASSUME SessionInv, NEW t \in Threads, SeeRefl(t)
  PROVE  Quiet /\ UNCHANGED spc
<1>1. TypeOK
  BY TypeIs
<1>2. UNCHANGED <<session, spos, spc, callVars, wreq>>
  BY SeeReflStays
<1>3. UNCHANGED workVars \/ Finish(t)
  BY DEF SeeRefl, SeeReflStarts, SeeReflAsks, SeeReflAnswered, SeeReflEnds, SeeReflFails,
         SeeReflReturns, vars
<1>4. \A u \in Threads : Owned(u)' \subseteq Owned(u)
  <2>1. CASE Finish(t)
    BY <1>1, <2>1 DEF Finish, Owned, TypeOK
  <2>2. CASE UNCHANGED workVars
    BY <2>2 DEF Owned, workVars
  <2>3. QED
    BY <1>3, <2>1, <2>2
<1>5. QED
  BY <1>2, <1>4 DEF Quiet, callVars

LEMMA SameQuiet ==
  ASSUME UNCHANGED <<callVars, workVars, session, spos>>
  PROVE  Quiet
  BY DEF Quiet, Owned, callVars, workVars

(* What waiting for the devices of a command shows: the command has given   *)
(* back all of its devices, for it gives them back in their order.          *)
LEMMA WaitedSettles ==
  ASSUME LocksWhatItSettled, SessionInv, LockInv, EndsInOrder, IssuedOnly, Waited,
         NEW t \in Threads \ {session}, NEW d \in Owned(t)
  PROVE  d \notin Settled /\ d \notin WaitFor
<1>1. TypeOK /\ spc = "wait" /\ spos \in 1 .. Len(Script) /\ spos \in DOMAIN Script
  BY SessionConstantsOK DEF Waited, SessionInv, STypeOK, StepMatches
<1>2. /\ \A e \in WaitFor : lock[e] = 0
      /\ Step.op \in {"cmd", "connect"} /\ Step.devs \subseteq Devices
  BY <1>1, StepType DEF Waited, SessionInv, StepMatches
<1>3. WaitFor \subseteq Devices
  BY <1>2, ConstantsOK DEF WaitFor, Sbc, Devices
<1>4. \A e \in Owned(t) : e \in Devices /\ e \notin WaitFor
  <2>1. Owned(t) \subseteq Devices
    BY <1>1 DEF Owned, TypeOK, Request
  <2>2. QED
    BY <1>2, <1>3, <2>1 DEF LockInv, LockedIffOwned
<1>5. ASSUME d \in Settled PROVE FALSE
  <2>1. wreq[t] = Issues
    BY <1>1, <1>5 DEF IssuedOnly
  <2>2. /\ wpc[t] \in {"run", "yield"} => Owned(t) = Issues.devs
        /\ wpc[t] = "end" => Owned(t) = wtodo[t] /\ wtodo[t] \subseteq Issues.devs
        /\ wpc[t] \in {"run", "yield", "end"}
    BY <2>1 DEF Owned, EndsInOrder
  <2>3. d \in Issues.devs
    BY <2>2
  <2>4. Step.op = "cmd" /\ Issues = Step.req
    BY <1>2, <1>4, <2>3 DEF Issues, WaitFor, Other
  <2>5. PICK e \in Issues.devs \cap Step.devs : d <= e
    BY <1>1, <2>3, <2>4 DEF LocksWhatItSettled, Step
  <2>6. e \notin Owned(t)
    BY <1>4, <2>4, <2>5 DEF WaitFor
  <2>7. wpc[t] = "end" /\ d \in wtodo[t] /\ e \in wreq[t].devs \ wtodo[t]
    BY <2>1, <2>2, <2>5, <2>6
  <2>8. e < d
    BY <2>7 DEF EndsInOrder
  <2>9. d \in Int /\ e \in Int
    BY <1>2, <1>4, <2>5 DEF Devices
  <2>10. QED
    BY <2>5, <2>8, <2>9
<1>6. QED
  BY <1>4, <1>5

(* The session's own steps, once it has had its first answer.               *)
LEMMA SessionSettles ==
  ASSUME LocksWhatItSettled, SessionInv, ~OwnSeeRefl, LockInv, EndsInOrder, IssuedOnly,
         SettledExclusive, Session, spos > 1, spc # "over", spc' # "over"
  PROVE  IssuedOnly' /\ SettledExclusive'
<1> DEFINE Between == {"step", "asking", "waiting", "woken"}
<1>1. TypeOK /\ spos \in Nat /\ Len(Script) \in Nat
  BY LenNat DEF SessionInv, STypeOK
<1>2. spc # "issued" => ~Inside(Ft)
  BY DEF SessionInv, SessionSound
<1>3. CASE (\E t \in Threads : Open(t)) \/ GiveBack
  <2>1. spos = 1
    BY <1>3 DEF Open, GiveBack, SessionInv, SessionSound
  <2>2. QED
    BY <2>1
<1>4. CASE Ask \/ WaitForAnswer
  <2>1. /\ UNCHANGED <<callVars, workVars, session, spos>>
        /\ spc \in Between /\ spc' \in Between
    BY <1>4 DEF Ask, WaitForAnswer, At, vars
  <2>2. QED
    BY <2>1, SameQuiet, QuietKeepsSettled
<1>5. CASE Answer \/ Connected \/ SetOwn
  <2>1. /\ spc \in Between /\ spc' = "step" /\ spos' = spos + 1 /\ Step.op # "cmd"
        /\ UNCHANGED <<cpc, wpc, wtodo, session>>
        /\ \A t \in Threads \ {session} : wreq'[t] = wreq[t]
    <3>1. CASE Answer
      BY <3>1
      DEF Answer, Continue, Leave, SessionInv, StepMatches, vars, callVars, workVars
    <3>2. CASE Connected
      BY <3>2 DEF Connected, At, Continue, vars, callVars, workVars
    <3>3. CASE SetOwn
      BY <1>1, <3>3 DEF SetOwn, At, Continue, callVars, TypeOK
    <3>4. QED
      BY <1>5, <3>1, <3>2, <3>3
  <2>2. Settled' = Settled
    BY <2>1, SettledSame
  <2>3. \A t \in Threads \ {session} : Owned(t)' = Owned(t)
    BY <2>1 DEF Owned
  <2>4. ~Inside(Ft)'
    BY <1>2, <2>1 DEF Inside
  <2>5. QED
    BY <1>1, <2>1, <2>2, <2>3, <2>4 DEF IssuedOnly, SettledExclusive
<1>6. CASE Issue
  <2>1. /\ spc = "step" /\ spc' = "issued" /\ Call(Ft, Issues)
        /\ UNCHANGED <<workVars, session, spos>>
    BY <1>6 DEF Issue, At, Issues, Call
  <2>2. /\ Settled' = Settled /\ Issues' = Issues /\ creq'[Ft] = Issues
        /\ \A t \in Threads : Owned(t)' = Owned(t)
    BY <1>1, <2>1, SettledSame, CallersAre
    DEF Call, Issues, Step, Owned, workVars, TypeOK
  <2>3. \A t \in Threads \ {session} : Owned(t)' \cap Settled' = {}
    BY <1>1, <2>1, <2>2 DEF SettledExclusive
  <2>4. QED
    BY <2>1, <2>2, <2>3 DEF IssuedOnly, SettledExclusive
<1>7. CASE Issued
  <2>1. /\ spc = "issued" /\ ~Inside(Ft) /\ ~Inside(Ft)'
        /\ spc' = IF result[Ft] = 0 THEN "wait" ELSE "step"
        /\ UNCHANGED <<workVars, session, spos>>
    BY <1>7 DEF Issued, Inside, vars, callVars
  <2>2. /\ Settled' = Settled /\ Issues' = Issues
        /\ \A t \in Threads : Owned(t)' = Owned(t) /\ wreq'[t] = wreq[t]
    BY <2>1, SettledSame DEF Issues, Step, Owned, workVars
  <2>3. QED
    BY <2>1, <2>2 DEF IssuedOnly, SettledExclusive
<1>8. CASE GiveUp
  <2>1. spc' = "dead" /\ ~Inside(Ft)'
    BY <1>8 DEF GiveUp, Leave, Inside, vars, callVars
  <2>2. QED
    BY <2>1 DEF IssuedOnly, SettledExclusive
<1>9. CASE Waited
  <2>1. /\ spc = "wait" /\ spc' = "step" /\ UNCHANGED <<cpc, workVars, session>>
        /\ spos' \in {spos, spos + 1}
    BY <1>9 DEF Waited, Continue, vars, callVars
  <2>2. Settled' \subseteq Settled \cup WaitFor
    <3>1. CASE Step.op = "connect"
      <4>1. spos' = spos
        BY <1>9, <3>1 DEF Waited
      <4>2. QED
        BY <4>1, SettledSame
    <3>2. CASE Step.op # "connect"
      <4>1. 1 .. spos' - 1 = (1 .. spos - 1) \cup {spos}
        BY <1>1, <1>9, <3>2 DEF Waited, Continue
      <4>2. QED
        BY <3>2, <4>1 DEF Settled, WaitFor, Step
    <3>3. QED
      BY <3>1, <3>2
  <2>3. \A t \in Threads \ {session} : Owned(t)' \cap Settled' = {}
    <3>1. \A t \in Threads : Owned(t)' = Owned(t)
      BY <2>1 DEF Owned, workVars
    <3>2. \A t \in Threads \ {session} : Owned(t) \cap (Settled \cup WaitFor) = {}
      BY <1>9, WaitedSettles
    <3>3. QED
      BY <2>2, <3>1, <3>2
  <2>4. ~Inside(Ft)'
    BY <1>2, <2>1 DEF Inside
  <2>5. QED
    BY <2>1, <2>3, <2>4 DEF IssuedOnly, SettledExclusive
<1>10. CASE Locking(Ft)
  <2>1. Inside(Ft) /\ UNCHANGED sessVars
    BY <1>10, LockingStays, CallersAre DEF Inside
  <2>2. /\ spc = "issued" /\ spc' = "issued" /\ session' = session /\ creq[Ft] = Issues
        /\ Settled' = Settled /\ Issues' = Issues
    BY <1>2, <1>10, <2>1, SettledSame DEF IssuedOnly, Issues, Step, sessVars
  <2>3. \A t \in Threads \ {session} : Owned(t) \cap Settled = {}
    BY <2>1, <2>2 DEF IssuedOnly
  <2>4. CASE Spawn(Ft)
    <3>1. /\ cpc'[Ft] = "idle" /\ result'[Ft] = 0
          /\ wpc' = [wpc EXCEPT ![cthr[Ft]] = "run"]
          /\ wreq' = [wreq EXCEPT ![cthr[Ft]] = Issues] /\ wtodo' = wtodo
      BY <1>1, <2>2, <2>4, CallersAre DEF Spawn, Return, TypeOK
    <3>2. \A t \in Threads :
            \/ t = cthr[Ft] /\ wreq'[t] = Issues
            \/ Owned(t)' = Owned(t) /\ wreq'[t] = wreq[t]
      BY <1>1, <3>1 DEF Owned, TypeOK
    <3>3. QED
      BY <2>2, <2>3, <3>1, <3>2 DEF IssuedOnly, SettledExclusive, Inside
  <2>5. CASE ~Spawn(Ft)
    <3>1. UNCHANGED workVars /\ (cpc'[Ft] # "idle" => creq'[Ft] = creq[Ft])
      BY <1>1, <1>10, <2>5, CallersAre
      DEF Locking, CheckDevice, ScanPool, Claim, LockDevice, Return, TypeOK
    <3>2. \A t \in Threads : Owned(t)' = Owned(t)
      BY <3>1 DEF Owned, workVars
    <3>3. QED
      BY <2>2, <2>3, <3>1, <3>2 DEF IssuedOnly, SettledExclusive, Inside
  <2>6. QED
    BY <2>4, <2>5
<1>11. CASE Unthread \/ End \/ EndWithoutFec
  BY <1>11 DEF Unthread, End, EndWithoutFec, Leave
<1>12. QED
  BY <1>3, <1>4, <1>5, <1>6, <1>7, <1>8, <1>9, <1>10, <1>11 DEF Session

LEMMA StepSettled ==
  ASSUME LocksWhatItSettled, SessionInv, SessionInv', ~OwnSeeRefl, LockInv, EndsInOrder,
         IssuedOnly, SettledExclusive, [SNext]_allVars, spc' # "over"
  PROVE  IssuedOnly' /\ SettledExclusive'
<1>1. spc # "over" /\ spos \in Nat /\ spos' \in Nat /\ spos >= 1
  BY SessionStays DEF SessionInv, STypeOK
<1>2. CASE spos' = 1
  BY <1>2, NothingSettledYetNext DEF Asking1st
<1>3. CASE \E t \in Threads : Worker(t) \/ SeeRefl(t)
  BY <1>3, WorkerQuiet, SeeReflQuiet, QuietKeepsSettled
<1>4. CASE UNCHANGED allVars
  BY <1>4, SameQuiet, QuietKeepsSettled DEF allVars, vars, sessVars
<1>5. CASE Session /\ spos > 1
  BY <1>1, <1>5, SessionSettles
<1>6. CASE Session /\ spos = 1 /\ spos' # 1
  <2>1. Answer /\ Continue /\ UNCHANGED <<vars, session>>
    <3>1. spc \in {"issued", "wait"} => FALSE
      BY <1>6, FirstIsPrompt DEF SessionInv, StepMatches
    <3>2. spos <= Len(Script) => Step.op = "prompt"
      BY <1>6, FirstIsPrompt
    <3>3. QED
      BY <1>6, <3>1, <3>2
      DEF Session, Open, GiveBack, Ask, WaitForAnswer, Answer, Leave, Issue, Connected, At,
          Issued, GiveUp, Waited, SetOwn, End, EndWithoutFec, AtEnd, Unthread, Locking, sessVars
  <2>2. spc = "woken" /\ spc' = "step" /\ spos' = spos + 1 /\ Step.op # "cmd"
    BY <2>1 DEF Answer, Continue, SessionInv, StepMatches
  <2>3. Settled' = {}
    <3>1. Settled' = Settled
      BY <2>2, SettledSame
    <3>2. QED
      BY <1>6, <3>1 DEF Settled
  <2>4. ~Inside(Ft)'
    BY <2>1, <2>2 DEF SessionInv, SessionSound, Inside, vars, callVars
  <2>5. QED
    BY <2>2, <2>3, <2>4 DEF IssuedOnly, SettledExclusive
<1>7. CASE (MainLoop \/ Locking(Main)) /\ spos' # 1
  <2>1. spos' = spos
    <3>1. CASE MainLoop
      BY <3>1 DEF MainLoop, ReadLine, ProcessLine, DivertLine, FreeCell, ForgetCell,
                  ResetDone, CloseAnyXl3, sessVars
    <3>2. CASE Locking(Main)
      BY <3>2 DEF Locking, sessVars
    <3>3. QED
      BY <1>7, <3>1, <3>2
  <2>2. spc # "none" /\ spos > 1
    BY <1>1, <1>7, <2>1 DEF SessionInv, SessionSound
  <2>3. MainIdle
    BY <1>1, <2>2 DEF SessionInv, MainDiverts, Opened
  <2>4. ~Locking(Main) /\ ~ProcessLine
    BY <2>3, LockingStays, CallersAre DEF MainIdle, ProcessLine
  <2>5. /\ UNCHANGED <<callVars, workVars, session, spos>>
        /\ (spc' = spc) \/ (spc = "waiting" /\ spc' = "woken")
    BY <1>7, <2>4
    DEF MainLoop, ReadLine, DivertLine, FreeCell, ForgetCell, ResetDone, AcceptXl3,
        CloseAnyXl3, sessVars, vars
  <2>6. QED
    BY <2>5, SameQuiet, QuietKeepsSettled
<1>8. QED
  BY <1>1, <1>2, <1>3, <1>4, <1>5, <1>6, <1>7 DEF SNext

LEMMA StepFinal ==
  ASSUME FlagIsItsOwn, LocksWhatItSettled, SessionInv, SessionInv', FinalTestInv,
         [SNext]_allVars
  PROVE  FinalTestInv'
<1> SUFFICES ASSUME spc' # "over", ~OwnSeeRefl'
             PROVE  LockInv' /\ EndsInOrder' /\ IssuedOnly' /\ SettledExclusive'
  BY DEF FinalTestInv
<1>1. ~OwnSeeRefl
  BY OwnStays
<1>2. LockInv /\ EndsInOrder /\ IssuedOnly /\ SettledExclusive
  BY <1>1, SessionStays DEF FinalTestInv
<1>3. QED
  BY <1>1, <1>2, SessionStepLocks, StepEndsInOrder, StepSettled

(* Until a final test ends or starts its see_refl, the daemon's locks are   *)
(* as sound as without it: they exclude, and a device is locked exactly     *)
(* while a thread answers for it.                                           *)
THEOREM FinalTestKeepsLocks ==
  FlagIsItsOwn /\ LocksWhatItSettled => (SafeSSpec => []FinalTestInv)
<1> SUFFICES ASSUME FlagIsItsOwn, LocksWhatItSettled PROVE SafeSSpec => []FinalTestInv
  OBVIOUS
<1>1. SessionInv /\ SessionInv' /\ FinalTestInv /\ [SNext]_allVars => FinalTestInv'
  BY StepFinal
<1>2. QED
  BY <1>1, InitFinal, SessionInvHolds, PTL DEF SafeSSpec

(* Until it starts its see_refl, a final test never works on a device       *)
(* beside a command: neither beside its previous one nor beside one that    *)
(* main had accepted before it.                                             *)
THEOREM SettledExclusiveHolds ==
  FlagIsItsOwn /\ LocksWhatItSettled => (SafeSSpec => []SettledExclusive)
<1>1. FinalTestInv => SettledExclusive
  BY DEF FinalTestInv, SettledExclusive
<1>2. QED
  BY <1>1, FinalTestKeepsLocks, PTL
=============================================================================
