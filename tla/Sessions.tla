-------------------------------- MODULE Sessions --------------------------------
(***************************************************************************)
(* The interactive sessions final_test and ecal (tests/final_test.c,       *)
(* tests/ecal.c): a worker thread that gives its locks back, diverts the   *)
(* controller's input to its own prompts and issues commands itself, one   *)
(* after another.  It is a second caller of thread_and_lock beside the     *)
(* main loop, so ThreadLocks is instantiated here with Callers = {Main,    *)
(* Ft}, and main's cleanup_threads is taken store by store.                *)
(*                                                                         *)
(* What a session does is a constant, Script: a sequence of steps          *)
(*   prompt   read_from_tut; with opt, an answer "quit" ends the session   *)
(*            and clears the locks of devs                                 *)
(*   cmd      issue req until it is accepted, then wait until the devices  *)
(*            devs are unlocked; with opt, -2 and -3 end the session (only *)
(*            crate_init returns them, the other commands say -1 instead)  *)
(*   connect  sbc_control until the SBC is connected                       *)
(*   lock     set the locks of devs without asking                         *)
(*   unlock   clear them again                                             *)
(* One command is more than its arguments: see_refl also asks the operator *)
(* and sets and resets running_final_test, the final test's own flag.      *)
(*                                                                         *)
(* No macro runs beside the session: run_macro would issue commands        *)
(* without looking at its flag.  Nor is the session "ecal -#", which never *)
(* sets the flag.                                                          *)
(***************************************************************************)
EXTENDS ThreadLocks, Sequences

CONSTANTS
  Ft,          \* the session as a caller of thread_and_lock
  SessionReq,  \* the arguments final_test or ecal is issued with
  Script,
  Ecal,        \* is the session an ECAL, or a final test?
  Faults       \* devices whose connections can be lost

ASSUME SessionConstantsOK ==
  /\ Callers = {Main, Ft} /\ Main # Ft
  /\ SessionReq \in Requests /\ SessionReq.devs # {} /\ SessionReq.name = "other"
  /\ Ecal \in BOOLEAN /\ Faults \subseteq Devices
  /\ Script \in Seq([op : {"prompt", "cmd", "connect", "lock", "unlock"},
                    req : Request, devs : SUBSET Devices, opt : BOOLEAN])
  \* Both sessions ask before they do anything (final_test.c 94, ecal.c 192).
  /\ Script # <<>> => Script[1].op = "prompt"

VARIABLES
  running_final_test, running_ecal,
  reading_from_tut,
  session,           \* the session's thread
  spc, spos,         \* its control state and its place in Script
  refl,              \* control state of a thread that runs see_refl
  line,              \* a command main has read from the controller and will process
  mpc, mslot         \* main's place in cleanup_threads

flags     == <<running_final_test, running_ecal>>
cleanVars == <<mpc, mslot>>
sessVars  == <<flags, reading_from_tut, session, spc, spos, refl, line, cleanVars>>
allVars   == <<vars, sessVars>>

SInit ==
  /\ Init
  /\ running_final_test = FALSE /\ running_ecal = FALSE
  /\ reading_from_tut = FALSE
  /\ session = NoThread
  /\ spc = "none"
  /\ spos = 1
  /\ refl = [t \in Threads |-> "none"]
  /\ line = NoRequest
  /\ mpc = "loop" /\ mslot = 0

Diverting == running_final_test \/ running_ecal

-----------------------------------------------------------------------------
(* thread_and_lock, as called by c                                          *)

\* malloc may also return the cell that cleanup_threads has just freed.
FreeCells ==
  {t \in Threads : /\ wpc[t] = "none"
                   /\ \A s \in Slots : thread_pool[s] = t => mpc = "freed" /\ s = mslot
                   /\ \A c \in Callers : cthr[c] # t}

Locking(c) ==
  /\ CheckDevice(c) \/ ScanPool(c) \/ Claim(c, FreeCells) \/ LockDevice(c) \/ Spawn(c)
  /\ UNCHANGED sessVars

-----------------------------------------------------------------------------
(* The main loop                                                            *)

MainIdle  == cpc[Main] = "idle" /\ line = NoRequest
MainReady == MainIdle /\ mpc = "loop"

SessionIssued ==
  \/ spc # "none"
  \/ \E t \in Threads : wreq[t] = SessionReq

\* Bounds: one session, and no more commands once its thread has ended: what follows
\* is ThreadLocks again.
Within(r) ==
  /\ r = SessionReq => ~SessionIssued
  /\ spc = "over" => session # NoThread

\* read_control_command: the flags are looked at once, when the line arrives ...
ReadLine(r) ==
  /\ MainReady
  /\ ~Diverting
  /\ Within(r)
  /\ line' = r
  /\ UNCHANGED <<vars, flags, reading_from_tut, session, spc, spos, refl, cleanVars>>

\* ... and what follows may happen much later.
ProcessLine ==
  /\ line # NoRequest
  /\ Call(Main, line)
  /\ line' = NoRequest
  /\ UNCHANGED <<flags, reading_from_tut, session, spc, spos, refl, cleanVars>>

\* Bug: the text is appended but nobody is signalled.
DivertWithoutSignal ==
  /\ MainReady /\ Diverting /\ spc = "waiting"
  /\ UNCHANGED allVars

\* A line for a prompt: it is appended to final_test_cmd and the condition variable
\* is signalled, which wakes one thread that waits already.
DivertLine ==
  /\ MainReady
  /\ Diverting
  /\ \/ spc = "waiting" /\ spc' = "woken" /\ UNCHANGED refl
     \/ \E t \in Threads : /\ refl[t] = "waiting"
                           /\ refl' = [refl EXCEPT ![t] = "woken"]
                           /\ UNCHANGED spc
  /\ UNCHANGED <<vars, flags, reading_from_tut, session, spos, line, cleanVars>>

\* While a thread reads a prompt, main also reads the locked XL3s.
CloseAnyXl3(d) ==
  /\ d # Sbc /\ (lock[d] # 1 \/ reading_from_tut)
  /\ up[d]
  /\ up' = [up EXCEPT ![d] = FALSE]
  /\ UNCHANGED <<callVars, workVars, poolVars, lock, sessVars>>

\* cleanup_threads, a slot that is marked done: its cell is freed, ...
FreeCell(s) ==
  /\ MainReady
  /\ thread_done[s]
  /\ mpc' = "freed" /\ mslot' = s
  /\ UNCHANGED <<vars, flags, reading_from_tut, session, spc, spos, refl, line>>

\* ... then forgotten, ...
ForgetCell ==
  /\ mpc = "freed"
  /\ mpc' = "nulled"
  /\ thread_pool' = [thread_pool EXCEPT ![mslot] = NoThread]
  /\ UNCHANGED <<callVars, workVars, thread_done, lock, up, flags, reading_from_tut, session,
                 spc, spos, refl, line, mslot>>

\* Bug: the mark stays.
KeepDone ==
  /\ mpc = "nulled"
  /\ mpc' = "loop" /\ mslot' = 0
  /\ UNCHANGED <<vars, flags, reading_from_tut, session, spc, spos, refl, line>>

\* ... and the mark is reset, though the session may have claimed the slot meanwhile.
ResetDone ==
  /\ mpc = "nulled"
  /\ mpc' = "loop" /\ mslot' = 0
  /\ thread_done' = [thread_done EXCEPT ![mslot] = FALSE]
  /\ UNCHANGED <<callVars, workVars, thread_pool, lock, up, flags, reading_from_tut, session,
                 spc, spos, refl, line>>

MainLoop ==
  \/ \E r \in Requests : ReadLine(r)
  \/ ProcessLine
  \/ DivertLine
  \/ \E s \in Slots : FreeCell(s)
  \/ ForgetCell \/ ResetDone
  \/ MainReady /\ \E d \in Devices : AcceptXl3(d) /\ UNCHANGED sessVars
  \/ MainReady /\ \E d \in Faults : CloseAnyXl3(d)

-----------------------------------------------------------------------------
(* Ordinary workers, and see_refl                                           *)

IsSeeRefl(t) == wreq[t].name = "see_refl"

Worker(t) ==
  /\ t # session /\ wreq[t] # SessionReq
  /\ \/ \E d \in Faults : LoseDevice(t, d)
     \/ ~IsSeeRefl(t) /\ (ConnectSbc(t) \/ TempUnlock(t) \/ Relock(t) \/ Finish(t))
     \/ UnthreadAndUnlock(t)
  /\ UNCHANGED sessVars

SeeReflStarts(t) ==
  /\ wpc[t] = "run" /\ IsSeeRefl(t) /\ refl[t] = "none"
  /\ refl' = [refl EXCEPT ![t] = "flagged"]
  /\ running_final_test' = TRUE
  /\ UNCHANGED <<vars, running_ecal, reading_from_tut, session, spc, spos, line, cleanVars>>

\* read_from_tut; bound: one channel, of the 512 that it may ask about.
SeeReflAsks(t) ==
  /\ refl[t] = "flagged"
  /\ refl' = [refl EXCEPT ![t] = "waiting"]
  /\ reading_from_tut' = TRUE
  /\ UNCHANGED <<vars, flags, session, spc, spos, line, cleanVars>>

\* unthread_and_unlock is called.
SeeReflReturns(t) ==
  /\ Finish(t)
  /\ refl' = [refl EXCEPT ![t] = "none"]
  /\ UNCHANGED <<running_ecal, session, spc, spos, line, cleanVars>>

\* The answer may be "quit".
SeeReflAnswered(t) ==
  /\ refl[t] = "woken"
  /\ reading_from_tut' = FALSE
  /\ \/ /\ refl' = [refl EXCEPT ![t] = "shown"]
        /\ UNCHANGED <<vars, flags, session, spc, spos, line, cleanVars>>
     \/ running_final_test' = FALSE /\ SeeReflReturns(t)

\* The last channel has been shown, or none was asked for.
SeeReflEnds(t) ==
  /\ refl[t] \in {"flagged", "shown"}
  /\ running_final_test' = FALSE
  /\ SeeReflReturns(t)
  /\ UNCHANGED reading_from_tut

\* Too many errors: the flag stays set.
SeeReflFails(t) ==
  /\ refl[t] \in {"flagged", "shown"}
  /\ SeeReflReturns(t)
  /\ UNCHANGED <<running_final_test, reading_from_tut>>

SeeRefl(t) ==
  \/ SeeReflStarts(t) \/ SeeReflAsks(t) \/ SeeReflAnswered(t)
  \/ SeeReflEnds(t) \/ SeeReflFails(t)

-----------------------------------------------------------------------------
(* The session's thread: pt_final_test, pt_ecal                             *)

SetLocks(S, v) == lock' = [d \in Devices |-> IF d \in S THEN v ELSE lock[d]]

SetFlag(v) ==
  IF Ecal THEN running_ecal' = v /\ UNCHANGED running_final_test
  ELSE running_final_test' = v /\ UNCHANGED running_ecal

\* The flag is set, and the locks taken for the session are given back
\* one after the other.  wreq keeps the devices whose locks it holds.
Open(t) ==
  /\ spc = "none" /\ wpc[t] = "run" /\ wreq[t] = SessionReq
  /\ session' = t
  /\ SetFlag(TRUE)
  /\ spc' = "open"
  /\ UNCHANGED <<vars, reading_from_tut, spos, refl, line, cleanVars>>

GiveBack ==
  /\ spc = "open"
  /\ \E d \in Devices :
       /\ IsFirst(d, wreq[session].devs)
       /\ SetLocks({d}, 0)
       /\ wreq' = [wreq EXCEPT ![session].devs = @ \ {d}]
       /\ spc' = IF wreq[session].devs = {d} THEN "step" ELSE "open"
  /\ UNCHANGED <<callVars, wpc, wtodo, wslot, wyield, poolVars, up,
                 flags, reading_from_tut, session, spos, refl, line, cleanVars>>

Step == Script[spos]
At(op) == spc = "step" /\ spos <= Len(Script) /\ Step.op = op
Continue == spc' = "step" /\ spos' = spos + 1

\* Bug: does not wait for the condition variable.
AskWithoutWaiting ==
  /\ At("prompt")
  /\ reading_from_tut' = TRUE
  /\ spc' = "woken"
  /\ UNCHANGED <<vars, flags, session, spos, refl, line, cleanVars>>

\* read_from_tut
Ask ==
  /\ At("prompt")
  /\ reading_from_tut' = TRUE
  /\ spc' = "asking"
  /\ UNCHANGED <<vars, flags, session, spos, refl, line, cleanVars>>

WaitForAnswer ==
  /\ spc = "asking"
  /\ spc' = "waiting"
  /\ UNCHANGED <<vars, flags, reading_from_tut, session, spos, refl, line, cleanVars>>

\* unthread_and_unlock on the devices S, by the session.
Leave(S) ==
  /\ wpc' = [wpc EXCEPT ![session] = "end"]
  /\ wtodo' = [wtodo EXCEPT ![session] = S]
  /\ spc' = "over"
  /\ UNCHANGED <<callVars, wreq, wslot, wyield, poolVars, lock, up, session, spos, refl,
                 line, cleanVars>>

Answer ==
  /\ spc = "woken"
  /\ reading_from_tut' = FALSE
  /\ \/ Continue /\ UNCHANGED <<vars, flags, session, refl, line, cleanVars>>
     \/ Step.opt /\ SetFlag(FALSE) /\ Leave(Step.devs)

Issue ==
  /\ \/ At("cmd") /\ Call(Ft, Step.req)
     \/ At("connect") /\ ~up[Sbc] /\ Call(Ft, Other({Sbc}, TRUE))
  /\ spc' = "issued"
  /\ UNCHANGED <<flags, reading_from_tut, session, spos, refl, line, cleanVars>>

Connected ==
  /\ At("connect") /\ up[Sbc]
  /\ Continue
  /\ UNCHANGED <<vars, flags, reading_from_tut, session, refl, line, cleanVars>>

GivesUp == Step.op = "cmd" /\ Step.opt /\ result[Ft] \in {-2, -3}

Issued ==
  /\ spc = "issued" /\ cpc[Ft] = "idle"
  /\ ~GivesUp
  /\ spc' = IF result[Ft] = 0 THEN "wait" ELSE "step"
  /\ UNCHANGED <<vars, flags, reading_from_tut, session, spos, refl, line, cleanVars>>

\* final_test just returns, with its flag set.
GiveUp ==
  /\ spc = "issued" /\ cpc[Ft] = "idle"
  /\ GivesUp
  /\ IF Ecal THEN SetFlag(FALSE) /\ Leave(SessionReq.devs) /\ UNCHANGED reading_from_tut
     ELSE /\ spc' = "dead"
          /\ UNCHANGED <<vars, flags, reading_from_tut, session, spos, refl, line, cleanVars>>

WaitFor == IF Step.op = "connect" THEN {Sbc} ELSE Step.devs

\* Bug: goes on while the command still runs.
NotWaited ==
  /\ spc = "wait"
  /\ IF Step.op = "connect" THEN spc' = "step" /\ UNCHANGED spos ELSE Continue
  /\ UNCHANGED <<vars, flags, reading_from_tut, session, refl, line, cleanVars>>

\* while (xl3_lock[..] != 0){}
Waited ==
  /\ spc = "wait"
  /\ \A d \in WaitFor : lock[d] = 0
  /\ IF Step.op = "connect" THEN spc' = "step" /\ UNCHANGED spos ELSE Continue
  /\ UNCHANGED <<vars, flags, reading_from_tut, session, refl, line, cleanVars>>

SetOwn ==
  /\ At("lock") \/ At("unlock")
  /\ SetLocks(Step.devs, IF Step.op = "lock" THEN 1 ELSE 0)
  /\ wreq' = [wreq EXCEPT ![session].devs =
                IF Step.op = "lock" THEN @ \cup Step.devs ELSE @ \ Step.devs]
  /\ Continue
  /\ UNCHANGED <<callVars, wpc, wtodo, wslot, wyield, poolVars, up,
                 flags, reading_from_tut, session, refl, line, cleanVars>>

AtEnd == spc = "step" /\ spos > Len(Script)

\* The flag is reset first, then unthread_and_unlock is called.
End ==
  /\ AtEnd
  /\ SetFlag(FALSE) /\ Leave(SessionReq.devs)
  /\ UNCHANGED reading_from_tut

\* The two exits of ecal without a FEC document (814-825): the flag stays set.
EndWithoutFec ==
  /\ Ecal /\ AtEnd
  /\ Leave(SessionReq.devs)
  /\ UNCHANGED <<flags, reading_from_tut>>

\* unthread_and_unlock; with its last step the session's cell is free for others.
Unthread ==
  /\ spc = "over" /\ session # NoThread
  /\ \/ UnlockDevice(session) /\ UNCHANGED session
     \/ SetDone(session) /\ session' = NoThread
  /\ UNCHANGED <<flags, reading_from_tut, spc, spos, refl, line, cleanVars>>

Session ==
  \/ \E t \in Threads : Open(t)
  \/ GiveBack \/ Ask \/ WaitForAnswer \/ Answer \/ Issue \/ Connected
  \/ Issued \/ GiveUp \/ Waited \/ SetOwn \/ End \/ EndWithoutFec
  \/ Unthread
  \/ Locking(Ft)

SNext ==
  \/ MainLoop
  \/ Locking(Main)
  \/ \E t \in Threads : Worker(t)
  \/ \E t \in Threads : SeeRefl(t)
  \/ Session

SafeSSpec == SInit /\ [][SNext]_allVars

(* As in ThreadLocks; besides, the operator answers the prompts, the SBC    *)
(* can be reached, and a session that spins on a lock sees one of the       *)
(* moments at which it is open, if there are ever more of them: commands    *)
(* are typed, the spin loop polls.                                          *)
MainGoesOn == Locking(Main) \/ ProcessLine \/ DivertLine \/ ForgetCell \/ ResetDone

SFairness ==
  /\ WF_allVars(MainGoesOn)
  /\ SF_allVars(\E s \in Slots : FreeCell(s))
  /\ SF_allVars(Session)
  /\ WF_allVars(\E t \in Threads : SeeRefl(t))
  /\ \A t \in Threads : WF_allVars(Worker(t) /\ wpc[t] # "none" /\ ~TempUnlock(t))
  /\ SF_allVars(\E t \in Threads : t # session /\ ConnectSbc(t) /\ UNCHANGED sessVars)

SSpec == SafeSSpec /\ SFairness

-----------------------------------------------------------------------------
(* Properties                                                               *)

STypeOK ==
  /\ TypeOK
  /\ running_final_test \in BOOLEAN /\ running_ecal \in BOOLEAN
  /\ reading_from_tut \in BOOLEAN
  /\ session \in Threads \cup {NoThread}
  /\ spc \in {"none", "open", "step", "asking", "waiting", "woken", "issued", "wait",
              "over", "dead"}
  /\ spos \in 1 .. Len(Script) + 1
  /\ refl \in [Threads -> {"none", "flagged", "waiting", "woken", "shown"}]
  /\ line \in Request
  /\ mpc \in {"loop", "freed", "nulled"} /\ mslot \in Slots

Inside(c) == cpc[c] # "idle"

(* The session and the main loop are never inside thread_and_lock at the    *)
(* same time, though nothing locks it: the session's first command waits    *)
(* for an answer that main can only deliver once it has left it.            *)
OneCallerAtATime == ~(Inside(Main) /\ Inside(Ft))

(* cleanup_threads never frees the cell of a thread that still runs or is   *)
(* about to be created, although the session may claim the slot, and even   *)
(* the cell, while main is between the stores that release them.            *)
FreesOnlyDead ==
  [][mpc = "loop" /\ mpc' = "freed" =>
       /\ thread_pool[mslot'] # NoThread
       /\ ~Live(thread_pool[mslot'])
       /\ \A c \in Callers : cthr[c] # thread_pool[mslot']]_allVars

(* Has thread_and_lock accepted the see_refl that the session issues itself? *)
Accepted(i) ==
  \/ i < spos
  \/ i = spos /\ (spc = "wait" \/ (spc = "issued" /\ ~Inside(Ft) /\ result[Ft] = 0))

IsSeeReflStep(i) == Script[i].op = "cmd" /\ Script[i].req.name = "see_refl"

OwnSeeRefl == \E i \in DOMAIN Script : IsSeeReflStep(i) /\ Accepted(i)

\* Devices the session has waited for since it gave them back.
Settled ==
  {d \in SessionReq.devs :
     \E i \in 1 .. spos - 1 : Script[i].op = "cmd" /\ d \in Script[i].devs}

(* Until a final test starts its see_refl, commands never overlap with the  *)
(* session's own steps: on a device that it has waited for no other thread  *)
(* works when the session goes on, neither its previous command nor one     *)
(* that main had accepted just before the flag was set.                     *)
SettledExclusive ==
  spc \in {"step", "asking", "waiting", "woken"} /\ ~OwnSeeRefl =>
    \A t \in Threads \ {session} : Owned(t) \cap Settled = {}

(* Two commands never work on the same device.                              *)
CommandsExclusive ==
  \A t, u \in Threads \ {session} : t # u => Owned(t) \cap Owned(u) = {}

\* A slot that cleanup_threads will never look at again: its worker finished
\* between pool = NULL and done = 0, and the mark was reset with the slot in use.
Lost(s) ==
  /\ thread_pool[s] # NoThread /\ ~thread_done[s]
  /\ \A t \in Threads : Live(t) => wslot[t] # s
  /\ \A c \in Callers : cpc[c] = "lock" => cslot[c] # s

NoSlotLeft == \A s \in Slots : Lost(s) \/ (session \in Threads /\ s = wslot[session])

(* A session that is answered comes to its end, unless cleanup_threads has  *)
(* lost every slot but the session's.                                       *)
SessionEnds == spc # "none" ~> spc \in {"over", "dead"} \/ NoSlotLeft

-----------------------------------------------------------------------------
(* What makes these properties inductive                                    *)

Opened == spc \notin {"none", "over"}

(* The thread is there from the session's first step to its last, and it    *)
(* calls thread_and_lock only to issue a command.                           *)
SessionSound ==
  /\ spc = "none" => session = NoThread /\ spos = 1
  /\ spc = "over" /\ session # NoThread => wpc[session] = "end"
  /\ Opened => session \in Threads /\ wpc[session] = "run" /\ ~IsSeeRefl(session)
  /\ spc = "open" => spos = 1
  /\ Inside(Ft) => spc = "issued"
  /\ \A t \in Threads : refl[t] # "none" => wpc[t] = "run" /\ IsSeeRefl(t)

(* The session's control state is one that its step of the script has.      *)
StepMatches ==
  /\ spc \in {"asking", "waiting", "woken"} =>
       spos <= Len(Script) /\ Step.op = "prompt"
  /\ spc \in {"issued", "wait", "dead"} =>
       spos <= Len(Script) /\ Step.op \in {"cmd", "connect"}

\* What the session issues at its present step.
Issues == IF Step.op = "connect" THEN Other({Sbc}, TRUE) ELSE Step.req

(* Nobody writes running_ecal but the session; running_final_test is also   *)
(* written by see_refl, which can only be the session's own.                *)
FlagStands ==
  /\ Ecal => (Opened => running_ecal)
  /\ ~Ecal =>
       /\ Opened /\ ~OwnSeeRefl => running_final_test
       /\ line.name # "see_refl" /\ creq[Main].name # "see_refl"
       /\ Inside(Ft) => creq[Ft] = Issues
       /\ \A t \in Threads : IsSeeRefl(t) => OwnSeeRefl \/ spc = "over"

(* Main has delivered the first answer, so it has left whatever command it  *)
(* had read before the flag was set, and it reads no other.                 *)
MainDiverts ==
  Opened /\ (Ecal \/ ~OwnSeeRefl) /\ (spos > 1 \/ spc = "woken") => MainIdle

(* The slots of thread_pool with two callers of thread_and_lock.  A mark    *)
(* may be stale in the one slot that main is about to reset it in, and the  *)
(* cell that main has freed may be found in a second slot.                  *)
MarkIsStale(s) == thread_done[s] => mpc = "nulled" /\ s = mslot

SharedSlots ==
  /\ \A c \in Callers :
       /\ cpc[c] = "claim" => thread_pool[cslot[c]] = NoThread
       /\ cpc[c] = "lock" => /\ cthr[c] \in Threads /\ ~Live(cthr[c])
                             /\ thread_pool[cslot[c]] = cthr[c]
                             /\ MarkIsStale(cslot[c])
       /\ cpc[c] # "lock" => cthr[c] = NoThread
  /\ \A t \in Threads : Live(t) => thread_pool[wslot[t]] = t /\ MarkIsStale(wslot[t])
  /\ \A s \in Slots : thread_pool[s] = NoThread => MarkIsStale(s)
  /\ mpc = "freed" => thread_done[mslot] /\ thread_pool[mslot] # NoThread
  /\ \A s, r \in Slots :
       thread_pool[s] = thread_pool[r] /\ s # r =>
         thread_pool[s] = NoThread \/ (mpc = "freed" /\ mslot \in {s, r})

SessionInv ==
  /\ STypeOK
  /\ SessionSound
  /\ StepMatches
  /\ FlagStands
  /\ MainDiverts
  /\ SharedSlots

(* For a final test that needs that main issues no see_refl and that the    *)
(* session's own is its last command.                                       *)
SeeReflIsLast ==
  /\ \A r \in Requests : r.name # "see_refl"
  /\ \A i, j \in DOMAIN Script :
       IsSeeReflStep(i) /\ Script[j].op \in {"cmd", "connect"} => j <= i

(* What a session does to the locks, final_test that is: ecal also clears   *)
(* locks it has set.  It locks only what it has waited for, and waits for   *)
(* the last device a command unlocks.                                       *)
LocksWhatItSettled ==
  \A i \in DOMAIN Script :
    /\ Script[i].op # "unlock"
    /\ Script[i].op = "lock" =>
         \A d \in Script[i].devs :
           /\ d \in SessionReq.devs
           /\ \E j \in 1 .. i - 1 : Script[j].op = "cmd" /\ d \in Script[j].devs
    /\ Script[i].op = "cmd" =>
         \A d \in Script[i].req.devs :
           \E e \in Script[i].req.devs \cap Script[i].devs : d <= e

(* A worker gives its devices back in their order.                          *)
EndsInOrder ==
  \A t \in Threads \ {session} :
    wpc[t] = "end" =>
      /\ wtodo[t] \subseteq wreq[t].devs
      /\ \A d \in wreq[t].devs \ wtodo[t], e \in wtodo[t] : d < e

(* The one thread that may work where the session has waited before is that *)
(* of the command the session has just issued.                              *)
IssuedOnly ==
  /\ Inside(Ft) => creq[Ft] = Issues
  /\ spc \in {"issued", "wait"} =>
       \A t \in Threads \ {session} :
         Owned(t) \cap Settled # {} =>
           /\ wreq[t] = Issues
           /\ spc = "issued" => ~Inside(Ft) /\ result[Ft] = 0

(* Until it ends or starts its see_refl, a final test keeps all that        *)
(* ThreadLocks says of locks.                                               *)
FinalTestInv ==
  spc # "over" /\ ~OwnSeeRefl =>
    /\ LockInv
    /\ EndsInOrder
    /\ IssuedOnly
    /\ SettledExclusive
=============================================================================
