------------------------------ MODULE Mailbox -------------------------------
(***************************************************************************)
(* A list as a mailbox (runtime/core_sys_funcs.c, JD_sc_list_mf_send and    *)
(* _receive): messages enter at the top and leave at the bottom; a thread   *)
(* that receives from an empty list waits, and the next message that is     *)
(* sent is handed to the first of those that wait.  Messages are numbered   *)
(* in the order in which they are sent.                                     *)
(***************************************************************************)
EXTENDS WaitQueues

CONSTANTS
  MaxSent,          \* the bound on the messages sent
  ReceiveLimits     \* the arguments of timeout()

ASSUME MaxSentAssumption == MaxSent \in Nat
ASSUME ReceiveLimitAssumption == ReceiveLimits \subseteq Nat
ASSUME MailboxAssumption == "mailbox" \in ObjQueues

VARIABLES
  mail,            \* the elements of the list, bottom first
  mail_timeout,    \* sem->timeout of the list
  sent,            \* history: the number of messages sent
  delivered        \* history: the messages taken out, in order

mailVars == <<mail, mail_timeout, sent, delivered>>

MailInit == /\ QueuesInit
            /\ mail = <<>> /\ mail_timeout = 0
            /\ sent = 0 /\ delivered = <<>>

readers == wait_queue["mailbox"]
-----------------------------------------------------------------------------
(* Mutant of Deposit: the message enters at the bottom, as with bpush() *)
DepositBelow(m) == <<m>> \o mail

(* push(): the message enters at the top *)
Deposit(m) == Append(mail, m)

(* Mutant of HandOver: the message stays in the list *)
HandOverNever == mail' = Deposit(sent + 1) /\ UNCHANGED delivered

(* wakeup_thread_in_mbox takes the top element for the first reader *)
HandOver ==
  LET box == Deposit(sent + 1) IN
  IF readers = <<>>
  THEN mail' = box /\ UNCHANGED delivered
  ELSE /\ mail' = SubSeq(box, 1, Len(box) - 1)
       /\ delivered' = Append(delivered, box[Len(box)])

(* send(); the sysflagcount that it clears is clear in a mailbox *)
Send(t) ==
  /\ Runs(t) /\ sent < MaxSent
  /\ sent' = sent + 1
  /\ HandOver
  /\ Serve("mailbox", IF readers = <<>> THEN 0 ELSE 1)
  /\ UNCHANGED <<sysflagcount, blockVars, mail_timeout>>

(* receive() *)
Receive(t) ==
  /\ Runs(t)
  /\ \/ /\ mail # <<>>
        /\ mail' = Tail(mail)
        /\ delivered' = Append(delivered, Head(mail))
        /\ UNCHANGED <<vars, queueVars>>
     \/ /\ mail = <<>>
        /\ WaitIn("mailbox", t, mail_timeout, 0)
        /\ UNCHANGED <<mail, delivered>>
  /\ UNCHANGED <<sent, mail_timeout>>

(* timeout( limit ) *)
MailTimeout(t, limit) ==
  /\ Runs(t) /\ mail_timeout' = limit
  /\ UNCHANGED <<vars, queueVars, mail, sent, delivered>>

MailStep(t) == \/ Send(t) \/ Receive(t)
               \/ \E limit \in ReceiveLimits : MailTimeout(t, limit)
               \/ GoOn("mailbox", t, acc[t]) /\ UNCHANGED mailVars

MailNext == \/ KernelStep /\ FollowKernel /\ UNCHANGED mailVars
            \/ \E t \in Thread : MailStep(t)
-----------------------------------------------------------------------------
(* Every message is handed to one receiver, in the order in which they were *)
(* sent, whether it waited for one or came later.                           *)
MailInOrder == delivered \o mail = [m \in 1 .. sent |-> m]

(* Nobody waits at a mailbox with mail *)
NobodyWaitsOnMail == mail # <<>> => readers = <<>>
=============================================================================
