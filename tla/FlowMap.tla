------------------------------ MODULE FlowMap ------------------------------
(***************************************************************************)
(* What the flow table (internal/acl/flowtable.go) promises its callers: a *)
(* map from flow keys to flow states on which every call of Lookup and     *)
(* UpdateState acts at one instant between its start and its return, and   *)
(* from which a flow may disappear whenever no call is acting on it (it    *)
(* idles out or is evicted).                                               *)
(*                                                                         *)
(* A flow key is a member of Conn: NormalizeFlowKey gives both directions  *)
(* of a connection the same one.                                           *)
(***************************************************************************)
CONSTANTS
  Conn       \* normalized flow keys

VARIABLES
  table,     \* the state of each flow, "none" if there is none
  call       \* the call each goroutine is in

Caller == {"tun", "udp"}   \* the goroutines tunLoop and udpLoop

State == {"New", "Established", "Closing"}

\* The calls the dispatcher makes.  tunLoop enters the connections it starts;
\* udpLoop enters the ones that peers start, looks up the others, and moves
\* those that end on with UpdateState.
Request(t) ==
  IF t = "tun"
  THEN [op : {"lookup"}, make : {TRUE}, state : {"New"}]
  ELSE [op : {"lookup"}, make : {TRUE}, state : {"Established"}]
         \cup [op : {"lookup"}, make : {FALSE}, state : {"New"}]
         \cup [op : {"update"}, make : {FALSE}, state : {"Closing"}]
Requests == UNION {Request(t) : t \in Caller}

NoCall == [at |-> "idle"]
Pending(c, r) == [at |-> "called", conn |-> c, req |-> r]
Answer(s) == [at |-> "returned", result |-> s]
Call ==
  {NoCall} \cup {Pending(c, r) : c \in Conn, r \in Requests}
    \cup {Answer(s) : s \in State \cup {"none"}}

MapTypeOK ==
  /\ table \in [Conn -> State \cup {"none"}]
  /\ call \in [Caller -> Call]

MapInit ==
  /\ table = [c \in Conn |-> "none"]
  /\ call = [t \in Caller |-> NoCall]

\* The state of a live flow in state s once request r has found it.
Touched(r, s) ==
  IF r.op = "update" \/ (s = "New" /\ r.state = "Established") THEN r.state ELSE s

Begin(t, c, r) ==
  /\ call[t] = NoCall
  /\ call' = [call EXCEPT ![t] = Pending(c, r)]
  /\ UNCHANGED table

\* The call acts: on the flow it finds, or on none.
Act(t) ==
  /\ call[t].at = "called"
  /\ LET c == call[t].conn
         r == call[t].req
         after == CASE table[c] # "none" -> Touched(r, table[c])
                    [] table[c] = "none" /\ r.make -> r.state
                    [] OTHER -> "none"
     IN  /\ table' = [table EXCEPT ![c] = after]
         /\ call' = [call EXCEPT ![t] = Answer(after)]

Return(t) ==
  /\ call[t].at = "returned"
  /\ call' = [call EXCEPT ![t] = NoCall]
  /\ UNCHANGED table

\* A flow idles out or is evicted.
Drop(c) ==
  /\ table[c] # "none"
  /\ table' = [table EXCEPT ![c] = "none"]
  /\ UNCHANGED call

MapNext ==
  \/ \E t \in Caller :
       Act(t) \/ Return(t) \/ \E c \in Conn, r \in Request(t) : Begin(t, c, r)
  \/ \E c \in Conn : Drop(c)

MapSpec == MapInit /\ [][MapNext]_<<table, call>>
=============================================================================
