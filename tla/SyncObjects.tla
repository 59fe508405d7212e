---------------------------- MODULE SyncObjects ----------------------------
(***************************************************************************)
(* A program with threads and a synchronisation object, or several         *)
(* regions, of one of the kinds of Objects.  The objects share the queues  *)
(* of the thread kernel and the fields of a waiting thread; the regions    *)
(* share the register ACC_DT.                                              *)
(***************************************************************************)
EXTENDS Semaphore, Event, Mailbox, Region

CONSTANT Objects    \* the kinds a program may use

ASSUME ObjectsAssumption == Objects \subseteq {"semaphore", "event", "mailbox", "region"}

VARIABLE object     \* the kind this program uses

syncVars == <<vars, queueVars, semVars, eventVars, mailVars, regionVars, object>>

SyncInit == object \in Objects /\ SemInit /\ EventInit /\ MailInit /\ RegionInit

SyncNext ==
  /\ \/ object = "semaphore" /\ SemNext /\ UNCHANGED <<eventVars, mailVars, regionVars>>
     \/ object = "event" /\ EventNext /\ UNCHANGED <<semVars, mailVars, regionVars>>
     \/ object = "mailbox" /\ MailNext /\ UNCHANGED <<semVars, eventVars, regionVars>>
     \/ object = "region" /\ RegionNext /\ UNCHANGED <<semVars, eventVars, mailVars>>
  /\ UNCHANGED object

SyncSpec == SyncInit /\ [][SyncNext]_syncVars
=============================================================================
