-------------------------------- MODULE Ports --------------------------------
(***************************************************************************)
(* Waiting for the edges of ports: JD_sync_on_port, the value change       *)
(* callbacks, and what JD_misctf_reason_sync does for a port.              *)
(*                                                                         *)
(* A reference clock is always monitored.  Another port is monitored while *)
(* threads wait for it, and only then is last_val, from which its edges    *)
(* are told, kept up.                                                      *)
(***************************************************************************)
EXTENDS TimeSlots, Lists

CONSTANTS
  Value,      \* what Verilog sets a port to: "0", "1", and "x" for all else
  Cycles      \* the numbers of edges a program asks for

ASSUME PortsAssumption == Value \subseteq {"0", "1", "x"} /\ Cycles \subseteq Nat

Data == Port \ Clock

VARIABLES
  value,        \* of each port, in the simulator
  last_val,     \* the value the last edge was told from
  edge,         \* the edge of this slot
  clocked,      \* port is in its list
  requests,     \* the four lists of requests of each port
  sync_count,   \* of a port that is no reference clock
  monitored,    \* the ports with a value change callback
  settled,      \* the value at the end of the last slot (history)
  wish          \* what each thread last waited for (history)

portVars == <<value, last_val, edge, clocked, requests, sync_count, monitored, settled, wish>>

Edges == {"pos", "neg", "both", "any"}

NoWish == [port |-> None, edge |-> "any", asked |-> 0, passed |-> 0]

PortsInit ==
  /\ value = [p \in Port |-> "x"] /\ last_val = value /\ settled = value
  /\ edge = [p \in Port |-> "none"]
  /\ clocked = [p \in Port |-> FALSE]
  /\ requests = [p \in Port |-> [e \in Edges |-> <<>>]]
  /\ sync_count = [p \in Data |-> 0]
  /\ monitored = Clock
  /\ wish = [t \in Thread |-> NoWish]

(* gen_ref_clock_edge, on the lowest bit *)
EdgeOf(old, new) == IF new = old \/ new = "x" THEN "none" ELSE IF new = "1" THEN "pos" ELSE "neg"

(* Edge e is one that a thread waits for with want *)
Fits(e, want) == e # "none" /\ want \in {e, "both", "any"}
-----------------------------------------------------------------------------
(* Mutant of Listed: the flag clocked is not looked at *)
ListedAgain(list, p) == Append(list, p)

(* add_obj_to_clocked_list, add_obj_to_changed_list, if not there yet *)
Listed(list, p) == IF clocked[p] THEN list ELSE Append(list, p)

(* Verilog changes p: JEDA_ref_clk_vcl_func, sync_port_routine *)
ValueChanges(p, v) ==
  /\ turn = "verilog" /\ value[p] # v
  /\ value' = [value EXCEPT ![p] = v]
  /\ IF p \in monitored
     THEN /\ IF p \in Clock
             THEN clocked_list' = Listed(clocked_list, p) /\ UNCHANGED changed_list
             ELSE changed_list' = Listed(changed_list, p) /\ UNCHANGED clocked_list
          /\ clocked' = [clocked EXCEPT ![p] = TRUE]
          /\ tf_isynchronized' = TRUE
     ELSE UNCHANGED <<clocked_list, changed_list, clocked, tf_isynchronized>>
  /\ UNCHANGED <<turn, ready, last_val, edge, requests, sync_count, monitored, settled, wish>>

(* Mutant of CyclesLeft: an edge too many *)
CyclesLeftAll(n) == n

(* num_cycle of the request of a thread that waits for n edges *)
CyclesLeft(n) == IF n = 0 THEN 0 ELSE n - 1

(* JD_sync_on_port, when it does not return at once *)
SyncOnPort(t, p, e, n) ==
  /\ Sleeps(t)
  /\ ~(n = 0 /\ e # "any" /\ Fits(edge[p], e))
  /\ requests' = [requests EXCEPT ![p][e] = Append(@, [thread |-> t, num_cycle |-> CyclesLeft(n)])]
  /\ IF p \in Clock
     THEN UNCHANGED <<sync_count, monitored>>
     ELSE /\ monitored' = monitored \cup {p}
          /\ sync_count' = [sync_count EXCEPT ![p] = @ + 1]
  /\ wish' = [wish EXCEPT ![t] = [port |-> p, edge |-> e, passed |-> 0,
                                  asked |-> IF n = 0 THEN 1 ELSE n]]
  /\ UNCHANGED <<value, last_val, edge, clocked, settled>>
-----------------------------------------------------------------------------
(* The end of a slot *)

Listing == Range(clocked_list) \cup Range(changed_list)

NewEdge(p) == EdgeOf(last_val[p], value[p])

(* The requests of a list for the edge that comes *)
Due(list) == {r \in Range(list) : r.num_cycle = 0}

(* process_req_sync, process_req_sync_port on a list of requests *)
Remaining(list) ==
  LET keep == Those(list, Range(list) \ Due(list))
  IN  [i \in DOMAIN keep |-> [keep[i] EXCEPT !.num_cycle = @ - 1]]

(* process_pli_req_on_edge: the lists an edge serves *)
ServedLists(e) == IF e = "none" THEN {} ELSE {e, "any"}

(* The threads it makes ready, in order *)
Woken(p) ==
  LET done(e) == IF e \in ServedLists(NewEdge(p))
                 THEN Those(requests[p][e], Due(requests[p][e])) ELSE <<>>
      all == done("pos") \o done("neg") \o done("any")
  IN  [i \in DOMAIN all |-> all[i].thread]

(* Thread t waits for p *)
Waits(t, p) == \E e \in Edges : \E r \in Range(requests[p][e]) : r.thread = t

(* Mutant of KeepMonitors: the callback goes with the first thread woken *)
KeepMonitorsOne ==
  monitored' = monitored \ {p \in Data \cap Listing : Woken(p) # <<>>}

(* "if( .. sync_count == 0 ) delete_vcl( .. )" *)
KeepMonitors ==
  monitored' = monitored \ {p \in Data \cap Listing : Woken(p) # <<>> /\ sync_count'[p] = 0}

(* The steps of a slot's end for the ports of the lists; the history stops  *)
(* at one edge too many                                                     *)
ServePorts ==
  /\ edge' = [p \in Port |-> IF p \in Listing THEN NewEdge(p) ELSE edge[p]]
  /\ last_val' = [p \in Port |-> IF p \in Listing THEN value[p] ELSE last_val[p]]
  /\ requests' = [p \in Port |-> [e \in Edges |->
                    IF p \in Listing /\ e \in ServedLists(NewEdge(p))
                    THEN Remaining(requests[p][e]) ELSE requests[p][e]]]
  /\ sync_count' = [p \in Data |->
                      IF p \in Listing THEN sync_count[p] - Len(Woken(p)) ELSE sync_count[p]]
  /\ KeepMonitors
  /\ settled' = value
  /\ wish' = [t \in Thread |->
                IF /\ wish[t].port # None /\ wish[t].passed <= wish[t].asked
                   /\ Waits(t, wish[t].port)
                   /\ Fits(EdgeOf(settled[wish[t].port], value[wish[t].port]), wish[t].edge)
                THEN [wish[t] EXCEPT !.passed = @ + 1] ELSE wish[t]]
  /\ UNCHANGED <<value, clocked>>

(* clear_port_on_ref_edge after the threads have run, which for the ports   *)
(* of changed_list tells the edge once more                                 *)
ClearPorts ==
  /\ edge' = [p \in Port |-> IF p \in Listing THEN "none" ELSE edge[p]]
  /\ clocked' = [p \in Port |-> clocked[p] /\ p \notin Listing]
  /\ last_val' = [p \in Port |-> IF p \in Range(changed_list) THEN value[p] ELSE last_val[p]]
  /\ UNCHANGED <<value, requests, sync_count, monitored, settled, wish>>
-----------------------------------------------------------------------------
(* "wait for 5 posedge of sigs.clk", says the manual of @5: a thread that   *)
(* waits for n edges of a clock sleeps through n - 1 and is woken by the    *)
(* nth, whoever else waits for it, whatever it does between two slots and   *)
(* in whatever slot it begins.  SyncRule says otherwise.                    *)
ClockEdgesCounted == \A t \in Thread : wish[t].port \in Clock /\ wish[t].edge # "both" =>
  IF Waits(t, wish[t].port) THEN wish[t].passed < wish[t].asked
                            ELSE wish[t].passed = wish[t].asked

(* The rule of the comment above process_req_sync, in no run because the    *)
(* code does not keep it: a wait for n > 0 edges that begins in a slot off  *)
(* the edge syncs at the next edge and then takes n more.  (Of an n of 1    *)
(* the history cannot tell it from 0.)                                      *)
SyncRule == [][\A t \in Thread, p \in Clock, e \in Edges \ {"any"} :
  LET new == {r \in Range(requests'[p][e]) \ Range(requests[p][e]) : r.thread = t}
  IN  ~Waits(t, p) /\ wish'[t].asked > 1 /\ ~Fits(edge[p], e)
        => \A r \in new : r.num_cycle = wish'[t].asked]_portVars

(* "wait for 5 posedge of sigs.clk", the manual says of any port: nobody    *)
(* sleeps through the edge it waits for.                                    *)
PortEdgeSeen == \A t \in Thread :
  wish[t].port \in Data /\ wish[t].edge # "both" /\ Waits(t, wish[t].port)
    => wish[t].passed < wish[t].asked

(* A port is monitored if it is a clock or threads wait for it: a callback  *)
(* is never missing and never set twice, however the waits overlap.         *)
MonitoredIfNeeded ==
  /\ monitored = Clock \cup {p \in Data : sync_count[p] > 0}
  /\ \A p \in Data : sync_count[p] = Cardinality({t \in Thread : Waits(t, p)})

(* A port is in its list once and only if its flag says so, and every list  *)
(* that is not empty will be served: no link is overwritten, no change of a *)
(* port that threads wait for is dropped.                                   *)
ListsAgree ==
  /\ IsInjective(clocked_list) /\ IsInjective(changed_list)
  /\ \A p \in Port : clocked[p] <=> p \in Listing
  /\ Listing # {} /\ turn = "verilog" => tf_isynchronized
=============================================================================
