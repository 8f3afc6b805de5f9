----------------------------- MODULE PolicyFile -----------------------------
(***************************************************************************)
(* The local policy file and the policy in force (internal/acl/loader.go   *)
(* and the daemon's use of it): Load when the daemon is made, reloads by   *)
(* the file watcher and by SIGHUP, which run side by side, and the person  *)
(* who edits the file.  Combine is given no network policy by the daemon,  *)
(* so what the dispatcher asks is the swap itself, also after SIGHUP sets  *)
(* the decider again.                                                      *)
(*                                                                         *)
(* One tick of the clock stands for 100 / Debounce milliseconds.  The      *)
(* kernel queues an event for each change of the file, and may merge one   *)
(* with an event still in the queue.                                       *)
(***************************************************************************)
EXTENDS PolicyDoc, FiniteSets

CONSTANTS
  Docs,         \* what the file may hold when the daemon starts
  Edits,        \* what it may be changed to
  Packets,      \* the packets that are judged
  Key,          \* the peers of a packet
  Missing, Empty,
  Debounce,
  MaxTime, MaxChanges, MaxSignals

Time == 0 .. MaxTime
Never == 0 - Debounce
Loader == {"watch", "hup"}

\* The beginning of a file: rules are written in order, outbound_only last.
PartOf(d) ==
  {Empty} \cup {[d EXCEPT !.rules = SubSeq(d.rules, 1, k), !.outbound = <<>>] : k \in 0 .. Len(d.rules)}
Content == Docs \cup Edits \cup UNION {PartOf(d) : d \in Edits}

ASSUME DebounceAssumption == Debounce \in Nat \ {0}
ASSUME BoundAssumption == MaxTime \in Nat /\ MaxChanges \in Nat /\ MaxSignals \in Nat
ASSUME ContentAssumption ==
  /\ {Missing, Nil} \cap Content = {} /\ Empty \in Docs
  /\ \A d \in Content : Valid(d) => Compile(d) # Nil
ASSUME PacketAssumption == \A p \in Packets : IsPacket(p)

VARIABLES
  file,      \* the policy file: content, modification time, safe permissions
  writing,   \* the document an editor has begun to write over the file
  clock, changes, signals,
  phase,     \* of the daemon: "off", "loaded", "watching", "refused"
  events,    \* changes the watcher has not looked at
  sighup,    \* a signal is waiting in its channel
  pc, info, data,   \* of each Load: its next step, the time Stat gave, what was read
  swap,      \* the compiled policy in force
  last,      \* lastModTime
  \* History, read by the properties only:
  source,    \* the document the policy in force was compiled from
  late,      \* loaders overtaken by a store of the other one since they read
  excuse     \* what may have kept the last change of the file from taking effect

disk == <<file, writing, changes>>
load == <<pc, info, data>>
vars == <<disk, clock, signals, phase, events, sighup, load, swap, last, source, late, excuse>>

TypeOK ==
  /\ file \in [content : Content \cup {Missing}, mtime : Time, safe : BOOLEAN]
  /\ writing \in Edits \cup {Nil}
  /\ clock \in Time /\ changes \in 0 .. MaxChanges /\ signals \in 0 .. MaxSignals
  /\ phase \in {"off", "loaded", "watching", "refused"}
  /\ events \in 0 .. MaxChanges /\ sighup \in BOOLEAN
  /\ pc \in [Loader -> {"idle", "stat", "read", "store", "stamp"}]
  /\ info \in [Loader -> Time] /\ data \in [Loader -> Content \cup {Nil}]
  /\ source \in Content \cup {Nil}
  /\ swap = Nil \/ swap \in {Compile(d) : d \in {e \in Content : Valid(e)}}
  /\ last \in Time \cup {Never}
  /\ late \subseteq Loader
  /\ excuse \subseteq {"unwatched", "chmod", "debounced", "overtaken"}

Init ==
  /\ file \in [content : Docs \cup {Missing}, mtime : {0}, safe : BOOLEAN]
  /\ writing = Nil
  /\ clock = 0 /\ changes = 0 /\ signals = 0
  /\ phase = "off" /\ events = 0 /\ sighup = FALSE
  /\ pc = [l \in Loader |-> "idle"]
  /\ info = [l \in Loader |-> 0] /\ data = [l \in Loader |-> Nil]
  /\ swap = Nil /\ source = Nil /\ last = Never
  /\ late = {} /\ excuse = {}

Tick ==
  /\ clock < MaxTime
  /\ clock' = clock + 1
  /\ UNCHANGED <<disk, signals, phase, events, sighup, load, swap, last, source, late, excuse>>

-----------------------------------------------------------------------------
(* The file *)

\* A change of the file is one event for a watcher that is there.  What was
\* done to it before the daemon was started is in Init.
Change(content, mtime) ==
  /\ phase \in {"loaded", "watching"} /\ changes < MaxChanges
  /\ changes' = changes + 1
  /\ file' = [file EXCEPT !.content = content, !.mtime = mtime]
  /\ IF phase = "watching"
     THEN events' \in {events + 1} \cup {e \in {events} : e > 0} /\ excuse' = {}
     ELSE events' = events /\ excuse' = {"unwatched"}
  /\ UNCHANGED <<clock, signals, phase, sighup, load, swap, last, source, late>>

\* An editor writes over the file, in two steps, or moves another file there,
\* which keeps its own modification time.
WriteBegin(d, part) ==
  /\ writing = Nil /\ part \in PartOf(d) /\ changes + 1 < MaxChanges
  /\ writing' = d
  /\ Change(part, clock)
WriteEnd == writing # Nil /\ writing' = Nil /\ Change(writing, clock)
Rename(d, mtime) == writing = Nil /\ Change(d, mtime) /\ UNCHANGED writing
RemoveFile == writing = Nil /\ file.content # Missing /\ Change(Missing, 0) /\ UNCHANGED writing

\* The watcher does not look at events of this kind.
Chmod ==
  /\ phase \in {"loaded", "watching"} /\ writing = Nil /\ changes < MaxChanges
  /\ changes' = changes + 1
  /\ file' = [file EXCEPT !.safe = ~@]
  /\ excuse' = excuse \cup {"chmod"}
  /\ UNCHANGED <<writing, clock, signals, phase, events, sighup, load, swap, last, source, late>>

-----------------------------------------------------------------------------
(* The daemon *)

Usable(c) == file.safe /\ Valid(c)

\* New loads the policy before there is a TUN device, and does not go on with
\* a file it cannot use.
New ==
  /\ phase = "off"
  /\ \/ file.content = Missing /\ phase' = "loaded" /\ UNCHANGED <<swap, source, last>>
     \/ /\ file.content # Missing /\ Usable(file.content)
        /\ phase' = "loaded"
        /\ swap' = Compile(file.content) /\ source' = file.content
        /\ last' = file.mtime
     \/ /\ file.content # Missing /\ ~Usable(file.content)
        /\ phase' = "refused" /\ UNCHANGED <<swap, source, last>>
  /\ excuse' = {}
  /\ UNCHANGED <<disk, clock, signals, events, sighup, load, late>>

StartWatcher ==
  /\ phase = "loaded"
  /\ phase' = "watching"
  /\ UNCHANGED <<disk, clock, signals, events, sighup, load, swap, last, source, late, excuse>>

\* Mutant: an event is handled where there is none.
WatchEventAnyway ==
  /\ phase = "watching" /\ pc["watch"] = "idle"
  /\ events' = events - 1
  /\ UNCHANGED <<disk, clock, signals, phase, sighup, load, swap, last, source, late, excuse>>

\* watchLoop: an event within the debounce time of the last one, or of the
\* modification of the file that was loaded last, is passed over.
WatchEvent ==
  /\ phase = "watching" /\ pc["watch"] = "idle" /\ events > 0
  /\ events' = events - 1
  /\ IF clock - last < Debounce
     THEN excuse' = excuse \cup {"debounced"} /\ UNCHANGED <<pc, last>>
     ELSE pc' = [pc EXCEPT !["watch"] = "stat"] /\ last' = clock /\ UNCHANGED excuse
  /\ UNCHANGED <<disk, clock, signals, phase, sighup, info, data, swap, source, late>>

\* The signal's channel holds one.
Signal ==
  /\ phase = "watching" /\ signals < MaxSignals
  /\ signals' = signals + 1 /\ sighup' = TRUE
  /\ UNCHANGED <<disk, clock, phase, events, load, swap, last, source, late, excuse>>

Reload ==
  /\ sighup /\ pc["hup"] = "idle"
  /\ sighup' = FALSE
  /\ pc' = [pc EXCEPT !["hup"] = "stat"]
  /\ UNCHANGED <<disk, clock, signals, phase, events, info, data, swap, last, source, late, excuse>>

Goto(l, step) == pc' = [pc EXCEPT ![l] = step]

\* What is put in force, and who is late with what it has read.
Store(l, cp, d) ==
  /\ swap' = cp /\ source' = d
  /\ excuse' = IF l \in late THEN excuse \cup {"overtaken"} ELSE excuse
  /\ late' = (late \ {l}) \cup {k \in Loader \ {l} : pc[k] = "store"}

\* Mutant: a file that is gone leaves the policy in force.
LoadStatKeeps(l) ==
  /\ pc[l] = "stat"
  /\ IF file.content = Missing \/ ~file.safe
     THEN Goto(l, "idle") /\ UNCHANGED info
     ELSE Goto(l, "read") /\ info' = [info EXCEPT ![l] = file.mtime]
  /\ UNCHANGED <<disk, clock, signals, phase, events, sighup, data, swap, last, source, late, excuse>>

\* Load looks at the file: one that is missing is to take the policy out of
\* force, one that others may write is refused.
LoadStat(l) ==
  /\ pc[l] = "stat"
  /\ \/ /\ file.content = Missing
        /\ Goto(l, "store") /\ UNCHANGED info
     \/ /\ file.content # Missing /\ ~file.safe
        /\ Goto(l, "idle") /\ UNCHANGED info
     \/ /\ file.content # Missing /\ file.safe
        /\ Goto(l, "read") /\ info' = [info EXCEPT ![l] = file.mtime]
  /\ UNCHANGED <<disk, clock, signals, phase, events, sighup, data, swap, last, source, late, excuse>>

\* It reads and parses it; an error leaves everything as it is.
LoadRead(l) ==
  /\ pc[l] = "read"
  /\ IF file.content # Missing /\ Valid(file.content)
     THEN Goto(l, "store") /\ data' = [data EXCEPT ![l] = file.content]
     ELSE Goto(l, "idle") /\ UNCHANGED data
  /\ UNCHANGED <<disk, clock, signals, phase, events, sighup, info, swap, last, source, late, excuse>>

LoadStore(l) ==
  /\ pc[l] = "store"
  /\ IF data[l] = Nil
     THEN Store(l, Nil, Nil) /\ Goto(l, "idle")
     ELSE Store(l, Compile(data[l]), data[l]) /\ Goto(l, "stamp")
  /\ data' = [data EXCEPT ![l] = Nil]
  /\ UNCHANGED <<disk, clock, signals, phase, events, sighup, info, last>>

LoadStamp(l) ==
  /\ pc[l] = "stamp"
  /\ last' = info[l]
  /\ Goto(l, "idle")
  /\ info' = [info EXCEPT ![l] = 0]
  /\ UNCHANGED <<disk, clock, signals, phase, events, sighup, data, swap, source, late, excuse>>

Settled ==
  /\ phase = "watching" /\ writing = Nil /\ events = 0 /\ ~sighup
  /\ \A l \in Loader : pc[l] = "idle"

\* The daemon has not started, or waits for a change or a signal.
Done == (phase = "refused" \/ Settled) /\ UNCHANGED vars

Next ==
  \/ Tick
  \/ \E d \in Edits : \E part \in PartOf(d) : WriteBegin(d, part)
  \/ WriteEnd \/ RemoveFile \/ Chmod
  \/ \E d \in Edits, t \in Time : Rename(d, t)
  \/ New \/ StartWatcher \/ WatchEvent \/ Signal \/ Reload
  \/ \E l \in Loader : LoadStat(l) \/ LoadRead(l) \/ LoadStore(l) \/ LoadStamp(l)
  \/ Done

Spec == Init /\ [][Next]_vars

-----------------------------------------------------------------------------
Misparsed ==
  {p \in Packets : ~(ParsedRight(p, ParsePacket(p)) /\ RejectedRight(p, ParsePacket(p)))}

\* A daemon that runs parses packets right, wherever they are cut: ParsePacket
\* reads no byte that is not there, and what it calls the start or the end of
\* a flow carries the ports it reports.  The packet that answers a refused one
\* (sendReject) ends its connection, or is an error about it.
ParseMeets == phase \in {"loaded", "watching"} => Misparsed = {}

\* What the dispatcher keeps of the packets it parses.
Outcome == {[ok |-> r.ok, flow |-> r.flow] : r \in {ParsePacket(p) : p \in Packets}}

\* handleTunPacket asks for every packet it can parse, unless the protocol
\* field is 0.
PassesOut(src, dst, r) ==
  /\ r.ok
  /\ r.flow.proto = 0 \/ Combine(SwapDecide(swap, src, dst, r.flow.proto, r.flow.dport), NoDecider).action = "allow"

\* Each packet that leaves does so because the document last loaded, read the
\* way docs/ACL.md explains it, allows its protocol and port, and none does
\* while no document is loaded; that document was valid as a whole.
DecisionsMeet ==
  /\ source # Nil => Valid(source)
  /\ (source = Nil) = (swap = Nil)
  /\ \A r \in Outcome, src \in Key, dst \in Key :
       r.ok /\ r.flow.proto # 0 =>
         (PassesOut(src, dst, r) <=>
            source # Nil /\ Allowed(source, src, dst, r.flow.proto, r.flow.dport))

\* Once all is quiet, the policy in force is what the file says, unless the
\* last change of the file came before there was a watcher or was a chmod, the
\* debounce has passed over an event since, or a load that read the file before
\* the other one stored has stored after it.
StaleExplained ==
  Settled /\ (file.content = Missing \/ Usable(file.content)) /\ excuse = {}
    => source = IF file.content = Missing THEN Nil ELSE file.content
=============================================================================
