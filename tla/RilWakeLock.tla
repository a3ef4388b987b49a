----------------------------- MODULE RilWakeLock -----------------------------
(***************************************************************************)
(* The partial wake lock of hal/libril/ril.cpp: it is taken when a message *)
(* goes up to the framework, and given back by the framework's             *)
(* acknowledgement or by a timer.  Each timer is a UserCallbackInfo; a     *)
(* newer one cancels the last one by setting its userParam.  The timeout   *)
(* callback tests its parameter BEFORE it takes s_wakeLockCountMutex, so   *)
(* test and release are two steps.  From version 13 of the vendor library  *)
(* on the grabs are counted; RIL_register sets the version before anything *)
(* is sent, and it stays.                                                  *)
(***************************************************************************)
EXTENDS Integers

CONSTANTS Infos,    \* UserCallbackInfo structures; each is used for one timer
          NoInfo,   \* NULL
          Senders   \* threads that send messages to the framework

ASSUME InfoAssumption == Infos \cap {NoInfo, "idle", "sent"} = {}

VARIABLES
  Counted,                   \* s_callbacksSocket.version >= 13
  s_wakelock_count,
  held,                      \* the kernel holds "radio-interface"
  s_last_wake_timeout_info,
  userParam,                 \* userParam[i] = 1: cancelled
  stage,                     \* where the timer of info i is
  sender                     \* sender[s]: what sender s has still to do

wakeVars == <<Counted, s_wakelock_count, held, s_last_wake_timeout_info, userParam, stage, sender>>

WakeInit ==
  /\ Counted \in BOOLEAN
  /\ s_wakelock_count = 0
  /\ held = FALSE
  /\ s_last_wake_timeout_info = NoInfo
  /\ userParam = [i \in Infos |-> 0]
  /\ stage = [i \in Infos |-> "unused"]
  /\ sender = [s \in Senders |-> "idle"]
-----------------------------------------------------------------------------
\* Setting userParam of the last timer, if there is one.
CancelLast == IF s_last_wake_timeout_info = NoInfo THEN userParam
              ELSE [userParam EXCEPT ![s_last_wake_timeout_info] = 1]

\* grabPartialWakeLock from version 13 on, all of it under the mutex; i is the
\* structure that internalRequestTimedCallback allocates.
grabPartialWakeLock(i) ==
  /\ stage[i] = "unused"
  /\ stage' = [stage EXCEPT ![i] = "armed"]
  /\ held' = TRUE
  /\ s_wakelock_count' = s_wakelock_count + 1
  /\ userParam' = CancelLast
  /\ s_last_wake_timeout_info' = i

\* A response or an indication that must wake the framework up.
SendCounted(s, i) ==
  /\ Counted
  /\ sender[s] = "idle"
  /\ grabPartialWakeLock(i)
  /\ UNCHANGED <<Counted, sender>>

\* The allocation in internalRequestTimedCallback fails: the lock is dropped.
GrabFails(s) ==
  /\ Counted
  /\ sender[s] = "idle"
  /\ held' = FALSE
  /\ UNCHANGED <<Counted, s_wakelock_count, s_last_wake_timeout_info, userParam, stage, sender>>

\* Before version 13: send_unsolResponse takes the lock ...
GrabUncounted(s) ==
  /\ ~ Counted
  /\ sender[s] = "idle"
  /\ held' = TRUE
  /\ sender' = [sender EXCEPT ![s] = "sent"]
  /\ UNCHANGED <<Counted, s_wakelock_count, s_last_wake_timeout_info, userParam, stage>>

\* ... calls the response function, then arms a timer and cancels the last one
\* without any mutex ...
ScheduleTimeout(s, i) ==
  /\ sender[s] = "sent"
  /\ stage[i] = "unused"
  /\ stage' = [stage EXCEPT ![i] = "armed"]
  /\ userParam' = CancelLast
  /\ sender' = [sender EXCEPT ![s] = i]
  /\ UNCHANGED <<Counted, s_wakelock_count, held, s_last_wake_timeout_info>>

\* ... and remembers the new one;
RememberTimeout(s) ==
  /\ sender[s] \in Infos
  /\ s_last_wake_timeout_info' = sender[s]
  /\ sender' = [sender EXCEPT ![s] = "idle"]
  /\ UNCHANGED <<Counted, s_wakelock_count, held, userParam, stage>>

\* or, when the allocation fails, gives the lock back (error_exit).
ScheduleFails(s) ==
  /\ sender[s] = "sent"
  /\ held' = FALSE
  /\ sender' = [sender EXCEPT ![s] = "idle"]
  /\ UNCHANGED <<Counted, s_wakelock_count, s_last_wake_timeout_info, userParam, stage>>

\* Faulty variant of releaseWakeLock: the timer is cancelled although other
\* messages are not acknowledged yet.
releaseWakeLock_CancelAlways ==
  /\ IF Counted /\ s_wakelock_count > 1
       THEN /\ s_wakelock_count' = s_wakelock_count - 1
            /\ held' = held
       ELSE /\ s_wakelock_count' = 0
            /\ held' = FALSE
  /\ userParam' = CancelLast
  /\ UNCHANGED <<Counted, s_last_wake_timeout_info, stage, sender>>

\* responseAcknowledgement of the framework: releaseWakeLock.
releaseWakeLock ==
  /\ IF Counted /\ s_wakelock_count > 1
       THEN /\ s_wakelock_count' = s_wakelock_count - 1
            /\ UNCHANGED <<held, userParam>>
       ELSE /\ s_wakelock_count' = 0
            /\ held' = FALSE
            /\ userParam' = IF Counted THEN CancelLast ELSE userParam
  /\ UNCHANGED <<Counted, s_last_wake_timeout_info, stage, sender>>
-----------------------------------------------------------------------------
\* The event loop fires the timer: userTimerCallback.  cid has an unsigned
\* type, so the test cid >= RIL_URC always holds, and the callback goes to the
\* vendor's enqueue; the lines that forget and free the structure are skipped.
userTimerCallback(i) ==
  /\ stage[i] = "armed"
  /\ stage' = [stage EXCEPT ![i] = "queued"]
  /\ UNCHANGED <<Counted, s_wakelock_count, held, s_last_wake_timeout_info, userParam, sender>>

\* Faulty variant of wakeTimeoutCallback: it takes no notice of its parameter.
wakeTimeoutCallback_Ignores(i) ==
  /\ stage[i] = "queued"
  /\ stage' = [stage EXCEPT ![i] = "done"]
  /\ UNCHANGED <<Counted, s_wakelock_count, held, s_last_wake_timeout_info, userParam, sender>>

\* A vendor thread calls wakeTimeoutCallback(userParam), which tests it ...
wakeTimeoutCallback(i) ==
  /\ stage[i] = "queued"
  /\ stage' = [stage EXCEPT ![i] = IF userParam[i] = 0 THEN "expired" ELSE "done"]
  /\ UNCHANGED <<Counted, s_wakelock_count, held, s_last_wake_timeout_info, userParam, sender>>

\* ... and then, under the mutex, gives the lock back.
TimeoutReleases(i) ==
  /\ stage[i] = "expired"
  /\ stage' = [stage EXCEPT ![i] = "done"]
  /\ s_wakelock_count' = 0
  /\ held' = FALSE
  /\ UNCHANGED <<Counted, s_last_wake_timeout_info, userParam, sender>>

Timer(i) == userTimerCallback(i) \/ wakeTimeoutCallback(i) \/ TimeoutReleases(i)

Sender(s) ==
  \/ \E i \in Infos : SendCounted(s, i) \/ ScheduleTimeout(s, i)
  \/ GrabFails(s) \/ GrabUncounted(s) \/ ScheduleFails(s) \/ RememberTimeout(s)

WakeNext ==
  \/ \E s \in Senders : Sender(s)
  \/ releaseWakeLock
  \/ \E i \in Infos : Timer(i)

WakeSpec == WakeInit /\ [][WakeNext]_wakeVars

\* A sender that holds the lock goes on, and the event loop and the vendor's
\* thread run every timer to its end.
WakeFairness ==
  /\ \A i \in Infos : WF_wakeVars(Timer(i))
  /\ \A s \in Senders :
       WF_wakeVars(RememberTimeout(s) \/ ScheduleFails(s) \/ \E i \in Infos : ScheduleTimeout(s, i))

WakeFairSpec == WakeSpec /\ WakeFairness
-----------------------------------------------------------------------------
\* Types of the variables.
WakeTypeOK ==
  /\ Counted \in BOOLEAN
  /\ s_wakelock_count \in Nat
  /\ held \in BOOLEAN
  /\ s_last_wake_timeout_info \in Infos \cup {NoInfo}
  /\ userParam \in [Infos -> {0, 1}]
  /\ stage \in [Infos -> {"unused", "armed", "queued", "expired", "done"}]
  /\ sender \in [Senders -> {"idle", "sent"} \cup Infos]

\* The timer of info i will still give the lock back.
WillRelease(i) ==
  stage[i] = "expired" \/ (stage[i] \in {"armed", "queued"} /\ userParam[i] = 0)

\* The phone is never kept awake for good: while the lock is held, a timer that
\* nobody has cancelled is on its way, or a sender is about to arm one.  A
\* cancellation always comes with a newer timer or with the release itself.
HeldHasTimer ==
  held => \/ \E i \in Infos : WillRelease(i)
          \/ \E s \in Senders : sender[s] = "sent"

\* From version 13 on the lock is never held with a count of zero: the next
\* acknowledgement would find nothing to count down.
HeldIsCounted == Counted /\ held => s_wakelock_count > 0

\* The lock is given back after the last message, also if the framework never
\* acknowledges.
LockReleased == held ~> ~ held
=============================================================================
