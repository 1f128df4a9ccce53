---------------------------- MODULE D2CMessaging ----------------------------
(***************************************************************************)
(* The device-to-cloud messaging utility (d2c_messaging.cpp) for one       *)
(* message type: the pending-message slot SendAsync fills, the processing  *)
(* context DoWork/ProcessMessage sends from, and the reported-state        *)
(* response callback the IoT Hub client runs on its own thread.  Each      *)
(* function runs under its mutexes, so each is one step; the callback is   *)
(* a separate actor that answers a request the transport accepted.  Types  *)
(* share only s_pendingMessageStoreMutex, so one type shows every          *)
(* interleaving that matters.  Message contents are model values; time is  *)
(* an integer clock.                                                       *)
(*                                                                         *)
(* History variables, not in the code: 'live' (contents allocated by       *)
(* SendAsync and not yet freed), 'completions' (OnMessageProcessingCompleted *)
(* runs per content), 'answered' (the request a response was for and the   *)
(* message it was applied to), 'ownerRetry' (a retry time the owner's      *)
(* responseCallback asked for) and 'halted' (an mbed fatal error).         *)
(***************************************************************************)
EXTENDS Naturals

CONSTANTS
  Msgs,         \* message contents the owners submit, one SendAsync each
  None,         \* a NULL content
  HttpCodes,    \* response status codes the hub may return
  MaxTime,      \* bound on the clock
  MaxInits,     \* bound on ADUC_D2C_Messaging_Init calls
  RetryDelay,   \* seconds ADUC_Retry_Delay_Calculator schedules ahead
  OwnerDelay,   \* seconds ahead an owner's responseCallback may schedule
  FatalWait,    \* FATAL_ERROR_WAIT_TIME_SEC
  FallbackWait  \* retryStrategy->fallbackWaitTimeSec

ASSUME D2CAssumption ==
  /\ None \notin Msgs
  /\ HttpCodes \subseteq Nat
  /\ MaxTime \in Nat /\ MaxInits \in Nat
  /\ {RetryDelay, OwnerDelay, FatalWait, FallbackWait} \subseteq Nat \ {0}

VARIABLES
  initialized,  \* s_core_initialized
  mutexAlive,   \* the context's rtos::Mutex is constructed
  pending,      \* s_pendingMessageStore[type]
  ctx,          \* s_messageProcessingContext[type]
  transport,    \* ctx.transportFunc: "default" or "null"
  inflight,     \* requests the hub client accepted and will answer
  now,          \* time(NULL)
  inits,        \* Init calls so far
  live, completions, answered, ownerRetry, halted

vars == <<initialized, mutexAlive, pending, ctx, transport, inflight, now,
          inits, live, completions, answered, ownerRetry, halted>>

IntMax == 2147483647

(* g_defaultHttpStatusRetryInfo, in the order the callback scans it; calc  *)
(* is whether retryTimestampCalcFunc is set.                               *)
RetryInfo ==
  << [lo |-> 200, hi |-> 299,    calc |-> FALSE, maxRetry |-> 0],
     [lo |-> 400, hi |-> 400,    calc |-> FALSE, maxRetry |-> 0],
     [lo |-> 429, hi |-> 429,    calc |-> TRUE,  maxRetry |-> IntMax],
     [lo |-> 413, hi |-> 413,    calc |-> TRUE,  maxRetry |-> 0],
     [lo |-> 400, hi |-> 499,    calc |-> TRUE,  maxRetry |-> IntMax],
     [lo |-> 503, hi |-> 503,    calc |-> TRUE,  maxRetry |-> IntMax],
     [lo |-> 500, hi |-> 599,    calc |-> TRUE,  maxRetry |-> IntMax],
     [lo |-> 0,   hi |-> IntMax, calc |-> TRUE,  maxRetry |-> IntMax] >>

(* g_defaultRetryStrategy.maxRetries *)
MaxRetries == IntMax

Statuses == {"Zero", "Pending", "In_Progress", "Waiting_For_Response",
             "Success", "Failed", "Replaced", "Canceled",
             "Max_Retries_Reached"}

(* An ADUC_D2C_Message: content, status and which callbacks are set. *)
Message == [content : Msgs \cup {None}, status : Statuses,
            completedCb : BOOLEAN, responseCb : BOOLEAN]

(* memset(message, 0, ...) *)
ZeroMessage == [content |-> None, status |-> "Zero",
                completedCb |-> FALSE, responseCb |-> FALSE]

EmptyCtx == [message |-> ZeroMessage, retries |-> 0, nextRetry |-> 0]
NoAnswer == [for |-> None, to |-> None]

-----------------------------------------------------------------------------
(* Faulty variant: the message is freed but its fields are not cleared. *)
DestroyMessageData_KeepContent(msg) == msg

(* DestroyMessageData: free the content and zero the message. *)
DestroyMessageData(msg) == ZeroMessage

(* SetMessageStatus (statusChangedCallback only observes the change). *)
SetMessageStatus(msg, s) == [msg EXCEPT !.status = s]

(* OnMessageProcessingCompleted: no-op on an empty message; otherwise set  *)
(* the final status, call completedCallback, destroy the message.          *)
OnMessageProcessingCompleted(msg, s) ==
  IF msg.content = None THEN msg
  ELSE DestroyMessageData(SetMessageStatus(msg, s))

(* The contents that the OnMessageProcessingCompleted calls of one step,   *)
(* on the messages 'msgs', complete and free; and the history they leave. *)
Done(msgs) == {m.content : m \in msgs} \ {None}

Completing(msgs) ==
  completions' = [c \in Msgs |-> IF c \in Done(msgs) THEN completions[c] + 1
                                                      ELSE completions[c]]

(* A content no SendAsync has used yet. *)
Fresh(m) == m \notin live /\ completions[m] = 0

-----------------------------------------------------------------------------
(* ADUC_D2C_Messaging_Init: on first call (and after Uninit) clear the     *)
(* store and the context, install the default transport, construct the     *)
(* context mutex.                                                          *)
Init_D2C ==
  /\ ~initialized /\ ~halted
  /\ inits < MaxInits
  /\ initialized' = TRUE /\ mutexAlive' = TRUE
  /\ pending' = ZeroMessage /\ ctx' = EmptyCtx /\ transport' = "default"
  /\ inits' = inits + 1
  /\ UNCHANGED <<inflight, now, live, completions, answered, ownerRetry, halted>>

(* ADUC_D2C_Messaging_Uninit: cancel the pending and the current message,  *)
(* then destroy the context mutex.                                         *)
Uninit ==
  /\ initialized /\ ~halted
  /\ LET gone == {pending, ctx.message}
     IN  /\ pending' = OnMessageProcessingCompleted(pending, "Canceled")
         /\ ctx' = [ctx EXCEPT !.message =
                      OnMessageProcessingCompleted(ctx.message, "Canceled")]
         /\ Completing(gone)
         /\ live' = live \ Done(gone)
  /\ initialized' = FALSE /\ mutexAlive' = FALSE
  /\ ownerRetry' = {}
  /\ UNCHANGED <<transport, inflight, now, inits, answered, halted>>

(* ADUC_D2C_Message_SendAsync: copy the content and replace the pending    *)
(* message; the replaced one is completed (and freed) only when it has a   *)
(* completedCallback.  (A failed strdup returns false and changes nothing.) *)
SendAsync(m, completedCb, responseCb) ==
  /\ initialized /\ ~halted
  /\ Fresh(m)
  /\ LET gone == IF pending.content # None /\ pending.completedCb
                   THEN {pending} ELSE {}
     IN  /\ Completing(gone)
         /\ live' = (live \ Done(gone)) \cup {m}
  /\ pending' = [content |-> m, status |-> "Pending",
                 completedCb |-> completedCb, responseCb |-> responseCb]
  /\ UNCHANGED <<initialized, mutexAlive, ctx, transport, inflight, now, inits,
                 answered, ownerRetry, halted>>

(* ADUC_D2C_Messaging_Set_Transport *)
SetTransport(f) ==
  /\ initialized /\ ~halted
  /\ transport' = f
  /\ UNCHANGED <<initialized, mutexAlive, pending, ctx, inflight, now, inits,
                 live, completions, answered, ownerRetry, halted>>

-----------------------------------------------------------------------------
(* Faulty variant: a newer message replaces one awaiting its response. *)
ReplaceAllowed_Always(c) == TRUE

(* ProcessMessage takes a newer pending message unless the current one is  *)
(* waiting for its response.                                               *)
ReplaceAllowed(c) ==
  ~(c.message.content # None /\ c.message.status = "Waiting_For_Response")

(* ProcessMessage resends the current message when it is in progress and   *)
(* its retry time has come.                                                *)
RetryDue(c) ==
  /\ c.message.content # None
  /\ c.message.status = "In_Progress"
  /\ now >= c.nextRetry

(* The send at the end of ProcessMessage, on context c; 'gone' are the    *)
(* messages ProcessMessage completed before it.  With the NULL transport   *)
(* it only postpones.  ADUC_D2C_Default_Message_Transport_Function fails   *)
(* without a client handle (postpone), has the hub client accept the       *)
(* request (Waiting_For_Response), or completes the message as Failed when  *)
(* ClientHandle_SendReportedState fails (and ProcessMessage still          *)
(* postpones the emptied context).                                         *)
Send(c, gone) ==
  LET postponed == [c EXCEPT !.nextRetry = @ + FatalWait]
  IN  \/ /\ transport = "null"
         /\ ctx' = postponed
         /\ Completing(gone) /\ live' = live \ Done(gone)
         /\ UNCHANGED inflight
      \/ /\ transport = "default"
         /\ \/ /\ ctx' = postponed                        \* no client handle
               /\ Completing(gone) /\ live' = live \ Done(gone)
               /\ UNCHANGED inflight
            \/ /\ ctx' = [c EXCEPT !.message.status = "Waiting_For_Response"]
               /\ inflight' = inflight \cup {c.message.content}
               /\ Completing(gone) /\ live' = live \ Done(gone)
            \/ /\ ctx' = [postponed EXCEPT !.message =
                            OnMessageProcessingCompleted(c.message, "Failed")]
               /\ Completing(gone \cup {c.message})
               /\ live' = live \ Done(gone \cup {c.message})
               /\ UNCHANGED inflight

(* ProcessMessage, called by ADUC_D2C_Messaging_DoWork.  The caller calls  *)
(* DoWork only between Init and Uninit.                                    *)
ProcessMessage ==
  /\ initialized /\ ~halted
  /\ \/ /\ pending.content # None
        /\ ReplaceAllowed(ctx)
        /\ pending' = ZeroMessage
        /\ Send([message   |-> SetMessageStatus(pending, "In_Progress"),
                 retries   |-> 0,
                 nextRetry |-> now],
                {SetMessageStatus(ctx.message, "Replaced")})
     \/ /\ pending.content = None
        /\ RetryDue(ctx)
        /\ UNCHANGED pending
        /\ Send(ctx, {})
  /\ ownerRetry' = {}
  /\ UNCHANGED <<initialized, mutexAlive, transport, now, inits, answered,
                 halted>>

-----------------------------------------------------------------------------
(* The first entry of the retry table that decides for status 'code' after *)
(* 'retries' retries: an entry whose range holds the code and that either *)
(* has used up its retries or has a calculator (entries without one are    *)
(* skipped); 0 when none does.                                             *)
Decides(code, retries, i) ==
  /\ RetryInfo[i].lo <= code /\ code <= RetryInfo[i].hi
  /\ retries >= RetryInfo[i].maxRetry \/ RetryInfo[i].calc

FirstRow(code, retries) ==
  LET rows == {i \in DOMAIN RetryInfo : Decides(code, retries, i)}
  IN  IF rows = {} THEN 0 ELSE CHOOSE i \in rows : \A j \in rows : i <= j

(* Faulty variant: the rescheduled message is left Waiting_For_Response. *)
Reschedule_NoStatus(c, t) == [c EXCEPT !.nextRetry = t]

(* Schedule a resend at time t: SetMessageStatus(In_Progress). *)
Reschedule(c, t) ==
  [c EXCEPT !.nextRetry = t, !.message.status = "In_Progress"]

(* What the owner's responseCallback may do: nothing (no callback), ask to *)
(* stop, ask to retry, or ask to retry and set the next retry time itself. *)
Decisions(msg) ==
  IF msg.responseCb THEN {"stop", "retry", "retryAt"} ELSE {"none"}

(* DefaultIoTHubSendReportedStateCompletedCallback for status 'code' on    *)
(* context c (the message is not empty), after the responseCallback made  *)
(* decision d.  The callback runs inside the 'success' expression, so     *)
(* previousRetryTimeStamp is read after it.                                *)
ResponseOutcome(c, code, d) ==
  LET afterCb  == IF d = "retryAt" THEN [c EXCEPT !.nextRetry = now + OwnerDelay]
                                   ELSE c
      success  == d = "stop" \/ code \in 200..299
      previous == afterCb.nextRetry
      row      == FirstRow(code, c.retries)
  IN  IF success THEN
        [ctx |-> [afterCb EXCEPT !.message =
                    OnMessageProcessingCompleted(@, "Success")],
         gone |-> {afterCb.message}]
      ELSE IF afterCb.nextRetry # previous THEN
        [ctx |-> Reschedule(afterCb, afterCb.nextRetry), gone |-> {}]
      ELSE IF c.retries >= MaxRetries
              \/ (row # 0 /\ c.retries >= RetryInfo[row].maxRetry) THEN
        [ctx |-> [afterCb EXCEPT !.message =
                    OnMessageProcessingCompleted(@, "Max_Retries_Reached")],
         gone |-> {afterCb.message}]
      ELSE IF row # 0 THEN
        [ctx |-> Reschedule([afterCb EXCEPT !.retries = @ + 1],
                            now + RetryDelay),
         gone |-> {}]
      ELSE
        [ctx |-> Reschedule(afterCb, afterCb.nextRetry + FallbackWait),
         gone |-> {}]

(* The hub client answers request r with status 'code'.  It locks the      *)
(* context mutex first: after Uninit destroyed it, rtos::Mutex::lock       *)
(* raises an mbed fatal error.  A message Uninit already destroyed is left *)
(* alone; otherwise the answer is applied to whatever message the context  *)
(* holds.                                                                  *)
Respond(r, code) ==
  /\ r \in inflight /\ ~halted
  /\ inflight' = inflight \ {r}
  /\ \/ /\ ~mutexAlive
        /\ halted' = TRUE
        /\ UNCHANGED <<ctx, live, completions, answered, ownerRetry>>
     \/ /\ mutexAlive
        /\ ctx.message.content = None
        /\ UNCHANGED <<ctx, live, completions, answered, ownerRetry, halted>>
     \/ /\ mutexAlive
        /\ ctx.message.content # None
        /\ answered' = [for |-> r, to |-> ctx.message.content]
        /\ \E d \in Decisions(ctx.message) :
             LET out == ResponseOutcome(ctx, code, d)
             IN  /\ ctx' = out.ctx
                 /\ Completing(out.gone)
                 /\ live' = live \ Done(out.gone)
                 /\ ownerRetry' =
                      IF d = "retryAt" /\ out.gone = {}
                        THEN {now + OwnerDelay} ELSE {}
        /\ UNCHANGED halted
  /\ UNCHANGED <<initialized, mutexAlive, pending, transport, now, inits>>

(* Time passes. *)
Tick ==
  /\ now < MaxTime /\ ~halted
  /\ now' = now + 1
  /\ UNCHANGED <<initialized, mutexAlive, pending, ctx, transport, inflight,
                 inits, live, completions, answered, ownerRetry, halted>>

-----------------------------------------------------------------------------
(* Static storage before ADUC_D2C_Messaging_Init: all zero. *)
Init ==
  /\ initialized = FALSE /\ mutexAlive = FALSE
  /\ pending = ZeroMessage /\ ctx = EmptyCtx
  /\ transport = "null"
  /\ inflight = {} /\ now = 0 /\ inits = 0
  /\ live = {} /\ completions = [m \in Msgs |-> 0]
  /\ answered = NoAnswer /\ ownerRetry = {} /\ halted = FALSE

Next ==
  \/ Init_D2C \/ Uninit
  \/ \E m \in Msgs, cc, rc \in BOOLEAN : SendAsync(m, cc, rc)
  \/ \E f \in {"default", "null"} : SetTransport(f)
  \/ ProcessMessage
  \/ \E r \in Msgs, code \in HttpCodes : Respond(r, code)
  \/ Tick

(* The agent's main loop calls DoWork every 100-200 ms, and the hub client *)
(* eventually answers every reported-state request it accepted.            *)
Fairness ==
  /\ WF_vars(ProcessMessage)
  /\ WF_vars(\E r \in Msgs, code \in HttpCodes : Respond(r, code))

Spec == Init /\ [][Next]_vars /\ Fairness

-----------------------------------------------------------------------------
TypeOK ==
  /\ initialized \in BOOLEAN /\ mutexAlive \in BOOLEAN /\ halted \in BOOLEAN
  /\ pending \in Message
  /\ ctx \in [message : Message, retries : Nat, nextRetry : Nat]
  /\ transport \in {"default", "null"}
  /\ inflight \subseteq Msgs
  /\ now \in 0..MaxTime /\ inits \in 0..MaxInits
  /\ live \subseteq Msgs
  /\ completions \in [Msgs -> Nat]
  /\ answered \in [for : Msgs \cup {None}, to : Msgs \cup {None}]
  /\ ownerRetry \subseteq Nat

(* Every message is completed at most once: whichever of SendAsync,        *)
(* ProcessMessage, the transport, the response callback and Uninit ends    *)
(* it, OnMessageProcessingCompleted (completedCallback, free) runs for its *)
(* content once.                                                           *)
CompletedOnce == \A m \in Msgs : completions[m] <= 1

(* A response is applied to the message it answers: ProcessMessage never   *)
(* puts a newer message into a context whose request is still unanswered.  *)
ResponseMatches == answered.for = answered.to

(* A submitted message does not starve: while the agent runs, a pending    *)
(* message is eventually taken by ProcessMessage (or cancelled), whatever  *)
(* the hub answers.                                                        *)
PendingTaken == (pending.content # None) ~> (pending.content = None \/ halted)

(* No content is leaked: every content SendAsync copied and nobody freed   *)
(* is still held by the pending slot or the processing context.            *)
NoLeak == live \subseteq {pending.content, ctx.message.content}

(* A retry time the owner's responseCallback sets is kept, as the comment  *)
(* in DefaultIoTHubSendReportedStateCompletedCallback says ("the next      *)
(* retry time has been set by the responseCallback(), we don't need to do  *)
(* anything here").                                                        *)
OwnerRetryKept == \A t \in ownerRetry : ctx.nextRetry = t

(* A response that arrives after ADUC_D2C_Messaging_Uninit is a no-op, as *)
(* the comment in the callback says ("the message has been destroy by      *)
(* ADUC_D2C_Messaging_Uninit(). In this case, we just abort here").        *)
NoFatalError == ~halted
-----------------------------------------------------------------------------
(* The inductive invariant behind CompletedOnce: a content in the pending *)
(* slot or the processing context is allocated and has never been         *)
(* completed, and the two slots never hold the same content, so the        *)
(* OnMessageProcessingCompleted calls of one step each end a different,    *)
(* still uncompleted message.                                              *)
ContentsOwned ==
  /\ \A m \in live : completions[m] = 0
  /\ pending.content # None => pending.content \in live
  /\ ctx.message.content # None => ctx.message.content \in live
  /\ pending.content # None => pending.content # ctx.message.content

(* The inductive invariant behind ResponseMatches, for one Init: a request *)
(* the hub client still owes an answer is for the context's message, which *)
(* waits for it, unless Uninit has destroyed the context mutex for good.   *)
RequestsOwned ==
  /\ initialized = mutexAlive
  /\ inits = 0 => inflight = {} /\ ~mutexAlive
  /\ mutexAlive => inits >= 1
  /\ \A r \in inflight :
       \/ ctx.message.content = r /\ ctx.message.status = "Waiting_For_Response"
       \/ ~mutexAlive /\ inits >= MaxInits

(* Both, with the type invariant; TLC checks it on MC_D2CMessaging.cfg. *)
D2CIInv ==
  /\ TypeOK
  /\ CompletedOnce /\ ContentsOwned
  /\ ResponseMatches /\ RequestsOwned
====
