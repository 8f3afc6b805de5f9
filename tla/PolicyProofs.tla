---------------------------- MODULE PolicyProofs ----------------------------
(***************************************************************************)
(* What compiled policies decide, for every document, what is in force     *)
(* under any interleaving of the two loaders with changes of the file, and *)
(* what the parser says of a packet, wherever it is cut.                   *)
(***************************************************************************)
EXTENDS PolicyFile, WellFoundedInduction, TLAPS

\* A resolved subject and its Any flag stand for the peers the subject names.
LEMMA ResolveNames ==
  ASSUME NEW doc, NEW s, SubjectOK(doc, s), NEW key
  PROVE  (s.kind = "any" \/ key \in Resolve(doc, s)) <=> Names(doc, s, key)
BY DEF SubjectOK, Resolve, Names

\* A parsed port range contains what its text covers.
LEMMA RangeCovers ==
  ASSUME NEW t, PortOK(t), NEW proto, NEW port
  PROVE  MatchesProto(PortRange(t), proto) /\ ContainsPort(PortRange(t), port)
           <=> Covers(t, proto, port)
<1>1. CASE t.proto = "*"
  BY <1>1 DEF MatchesProto, ContainsPort, PortRange, Covers, ProtoAny, ProtoTCP, ProtoUDP
<1>2. CASE t.proto = "icmp"
  BY <1>2 DEF MatchesProto, ContainsPort, PortRange, Covers, ProtoAny, ProtoTCP, ProtoUDP,
              ProtoICMP, ProtoICMPv6
<1>3. CASE t.proto = "tcp"
  BY <1>3 DEF MatchesProto, ContainsPort, PortRange, Covers, ProtoAny, ProtoTCP, ProtoUDP,
              ProtoICMP, ProtoICMPv6
<1>4. CASE t.proto = "udp"
  BY <1>4 DEF MatchesProto, ContainsPort, PortRange, Covers, ProtoAny, ProtoTCP, ProtoUDP,
              ProtoICMP, ProtoICMPv6
<1>5. QED
  BY <1>1, <1>2, <1>3, <1>4 DEF PortOK

\* A compiled rule matches what the rule of the document is about.
LEMMA RuleMeets ==
  ASSUME NEW doc, NEW r, RuleOK(doc, r), NEW src, NEW dst, NEW proto, NEW port
  PROVE  RuleMatches(CompiledRule(doc, r), src, dst, proto, port)
           <=> /\ Names(doc, r.from, src) /\ Names(doc, r.to, dst)
               /\ \E t \in Range(r.ports) : Covers(t, proto, port)
<1> DEFINE cr == CompiledRule(doc, r)
<1>1. (cr.dstAny \/ dst \in cr.dstPeers) <=> Names(doc, r.to, dst)
  BY ResolveNames DEF RuleOK, CompiledRule
<1>2. (cr.srcAny \/ src \in cr.srcPeers) <=> Names(doc, r.from, src)
  BY ResolveNames DEF RuleOK, CompiledRule
<1>3. (\E pr \in cr.ports : MatchesProto(pr, proto) /\ ContainsPort(pr, port))
        <=> \E t \in Range(r.ports) : MatchesProto(PortRange(t), proto) /\ ContainsPort(PortRange(t), port)
  BY DEF CompiledRule
<1>4. \A t \in Range(r.ports) : MatchesProto(PortRange(t), proto) /\ ContainsPort(PortRange(t), port)
                                  <=> Covers(t, proto, port)
  BY RangeCovers DEF RuleOK
<1>5. QED
  BY <1>1, <1>2, <1>3, <1>4 DEF RuleMatches

\* For every valid document, pair of peers, protocol and port, the compiled
\* policy allows exactly what the document, read as docs/ACL.md explains it,
\* allows: rule order, shared keys and unknown peers make no difference to it.
THEOREM DecideMeets ==
  ASSUME NEW doc, Valid(doc), NEW src, NEW dst, NEW proto, NEW port
  PROVE  Decide(Compile(doc), src, dst, proto, port).action = "allow"
           <=> Allowed(doc, src, dst, proto, port)
<1> DEFINE cp == Compile(doc)
           hits == Matching(cp, src, dst, proto, port)
           matches == \E i \in DOMAIN doc.rules :
             /\ Names(doc, doc.rules[i].from, src) /\ Names(doc, doc.rules[i].to, dst)
             /\ \E t \in Range(doc.rules[i].ports) : Covers(t, proto, port)
           outbound == dst \in cp.outboundOnly
<1>1. hits # {} <=> matches
  <2>1. \A i \in DOMAIN doc.rules : RuleMatches(cp.rules[i], src, dst, proto, port)
          <=> /\ Names(doc, doc.rules[i].from, src) /\ Names(doc, doc.rules[i].to, dst)
              /\ \E t \in Range(doc.rules[i].ports) : Covers(t, proto, port)
    <3> TAKE i \in DOMAIN doc.rules
    <3>1. cp.rules[i] = CompiledRule(doc, doc.rules[i])
      BY DEF Compile
    <3>2. RuleOK(doc, doc.rules[i])
      BY DEF Valid
    <3>3. QED
      BY <3>1, <3>2, RuleMeets
  <2>2. DOMAIN cp.rules = DOMAIN doc.rules
    BY DEF Compile
  <2>3. QED
    BY <2>1, <2>2 DEF Matching
<1>2. outbound <=> ~(\A n \in Range(doc.outbound) : doc.peers[n] # dst)
  BY DEF Compile
<1>3. cp.defaultAction = doc.default /\ doc.default \in {"allow", "deny"}
  BY DEF Compile, Valid
<1>4. Decide(cp, src, dst, proto, port).action = "allow"
        <=> ~outbound /\ (matches \/ doc.default = "allow")
  <2> HIDE DEF cp, matches
  <2>1. CASE hits # {}
    BY <2>1, <1>1 DEF Decide, Decision, OutboundDenied
  <2>2. CASE hits = {} /\ dst \in cp.knownPeers
    BY <2>2, <1>1, <1>3 DEF Decide, Decision, OutboundDenied
  <2>3. CASE hits = {} /\ dst \notin cp.knownPeers
    <3>1. ~outbound
      BY <2>3 DEF cp, Compile, Valid
    <3>2. QED
      BY <3>1, <2>3, <1>1, <1>3 DEF Decide, Decision
  <2>4. QED
    BY <2>1, <2>2, <2>3
<1>5. QED
  BY <1>2, <1>4 DEF Allowed

\* A local and a network policy together allow what both of them allow,
\* whichever rules their decisions name.
THEOREM CombineBoth ==
  ASSUME NEW local, NEW network,
         local.action \in {"allow", "deny"}, network.action \in {"allow", "deny"}
  PROVE  Combine(local, network).action = "allow"
           <=> local.action = "allow" /\ network.action = "allow"
BY DEF Combine

-----------------------------------------------------------------------------
(* The state *)

\* What is in force was compiled from its source, and sources and what loaders
\* have read are valid.
Linked ==
  /\ swap = IF source = Nil THEN Nil ELSE Compile(source)
  /\ source # Nil => Valid(source)
  /\ \A l \in Loader : data[l] # Nil => Valid(data[l])
  /\ events <= changes

Inv == TypeOK /\ Linked

\* What an editor can leave in the file is content.
LEMMA PartIsContent ==
  ASSUME NEW d \in Edits
  PROVE  d \in Content /\ PartOf(d) \subseteq Content
BY DEF Content

\* Nothing is loaded when the daemon has not started.
LEMMA InitInv == Init => Inv
<1> SUFFICES ASSUME Init PROVE Inv
  OBVIOUS
<1>1. TypeOK
  <2>1. 0 \in Time
    BY BoundAssumption DEF Time
  <2>2. file \in [content : Content \cup {Missing}, mtime : Time, safe : BOOLEAN]
    <3>1. Docs \subseteq Content
      BY DEF Content
    <3>2. QED
      BY <2>1, <3>1 DEF Init
  <2>3. /\ pc \in [Loader -> {"idle", "stat", "read", "store", "stamp"}]
        /\ info \in [Loader -> Time] /\ data \in [Loader -> Content \cup {Nil}]
    BY <2>1 DEF Init
  <2>4. /\ changes \in 0 .. MaxChanges /\ signals \in 0 .. MaxSignals
        /\ events \in 0 .. MaxChanges
    BY BoundAssumption DEF Init
  <2>5. /\ writing \in Edits \cup {Nil} /\ clock \in Time /\ sighup \in BOOLEAN
        /\ phase \in {"off", "loaded", "watching", "refused"}
        /\ late \subseteq Loader /\ excuse \subseteq {"unwatched", "chmod", "debounced", "overtaken"}
    BY <2>1 DEF Init
  <2>6. source = Nil /\ swap = Nil /\ last = Never
    BY DEF Init
  <2>7. QED
    BY <2>2, <2>3, <2>4, <2>5, <2>6 DEF TypeOK
<1>2. Linked
  BY DEF Init, Linked, Loader
<1>3. QED
  BY <1>1, <1>2 DEF Inv

\* A change of the file touches nothing the loaders have.
LEMMA ChangeInv ==
  ASSUME Inv, NEW c \in Content \cup {Missing}, NEW m \in Time, Change(c, m),
         writing' \in Edits \cup {Nil}
  PROVE  Inv'
<1> USE BoundAssumption DEF Inv
<1>1. events' \in 0 .. MaxChanges /\ events' <= changes' /\ changes' \in 0 .. MaxChanges
  BY DEF Change, TypeOK, Linked
<1>2. file' \in [content : Content \cup {Missing}, mtime : Time, safe : BOOLEAN]
  BY DEF Change, TypeOK
<1>3. excuse' \subseteq {"unwatched", "chmod", "debounced", "overtaken"}
  BY DEF Change, TypeOK
<1>4. TypeOK'
  BY <1>1, <1>2, <1>3 DEF Change, TypeOK, load
<1>5. Linked'
  BY <1>1 DEF Change, Linked, load
<1>6. QED
  BY <1>4, <1>5

\* Every step of the daemon, its loaders and the editor keeps the invariant.
LEMMA NextInv == Inv /\ [Next]_vars => Inv'
<1> SUFFICES ASSUME Inv, [Next]_vars PROVE Inv'
  OBVIOUS
<1> USE BoundAssumption, ContentAssumption DEF Inv
<1>1. CASE Tick
  <2>1. TypeOK'
    BY <1>1 DEF Tick, TypeOK, Time, disk, load
  <2>2. Linked'
    BY <1>1 DEF Tick, Linked, disk, load
  <2>3. QED
    BY <2>1, <2>2
<1>2. ASSUME NEW d \in Edits, NEW part \in PartOf(d), WriteBegin(d, part)
      PROVE  Inv'
  <2>1. clock \in Time /\ writing' \in Edits \cup {Nil} /\ Change(part, clock)
    BY <1>2 DEF WriteBegin, TypeOK
  <2>2. QED
    BY <2>1, <1>2, ChangeInv, PartIsContent
<1>3. CASE WriteEnd
  <2>1. clock \in Time /\ writing \in Edits /\ writing' \in Edits \cup {Nil} /\ Change(writing, clock)
    BY <1>3 DEF WriteEnd, TypeOK
  <2>2. QED
    BY <2>1, ChangeInv, PartIsContent
<1>4. CASE RemoveFile
  <2>1. 0 \in Time /\ writing' \in Edits \cup {Nil} /\ Change(Missing, 0)
    BY <1>4 DEF RemoveFile, TypeOK, Time
  <2>2. QED
    BY <2>1, ChangeInv
<1>5. ASSUME NEW d \in Edits, NEW t \in Time, Rename(d, t)
      PROVE  Inv'
  <2>1. writing' \in Edits \cup {Nil} /\ Change(d, t)
    BY <1>5 DEF Rename, TypeOK
  <2>2. QED
    BY <2>1, <1>5, ChangeInv, PartIsContent
<1>6. CASE Chmod
  <2>1. file' \in [content : Content \cup {Missing}, mtime : Time, safe : BOOLEAN]
    BY <1>6 DEF Chmod, TypeOK
  <2>2. changes' \in 0 .. MaxChanges /\ events <= changes'
    BY <1>6 DEF Chmod, TypeOK, Linked
  <2>3. TypeOK'
    BY <1>6, <2>1, <2>2 DEF Chmod, TypeOK, load
  <2>4. Linked'
    BY <1>6, <2>2 DEF Chmod, Linked, load
  <2>5. QED
    BY <2>3, <2>4
<1>7. CASE New
  <2>1. CASE phase' = "loaded" /\ swap' = Compile(file.content) /\ source' = file.content
             /\ file.content # Missing /\ Usable(file.content) /\ last' = file.mtime
    <3>1. file.content \in Content /\ Valid(file.content) /\ file.mtime \in Time
      BY <2>1 DEF TypeOK, Usable
    <3>2. TypeOK'
      BY <1>7, <2>1, <3>1 DEF New, TypeOK, disk, load
    <3>3. Linked'
      BY <1>7, <2>1, <3>1 DEF New, Linked, disk, load
    <3>4. QED
      BY <3>2, <3>3
  <2>2. CASE UNCHANGED <<swap, source, last>> /\ phase' \in {"loaded", "refused"}
    <3>1. TypeOK'
      BY <1>7, <2>2 DEF New, TypeOK, disk, load
    <3>2. Linked'
      BY <1>7, <2>2 DEF New, Linked, disk, load
    <3>3. QED
      BY <3>1, <3>2
  <2>3. QED
    BY <1>7, <2>1, <2>2 DEF New
<1>8. CASE StartWatcher
  <2>1. TypeOK'
    BY <1>8 DEF StartWatcher, TypeOK, disk, load
  <2>2. Linked'
    BY <1>8 DEF StartWatcher, Linked, disk, load
  <2>3. QED
    BY <2>1, <2>2
<1>9. CASE WatchEvent
  <2>1. events' \in 0 .. MaxChanges /\ events' <= changes
    BY <1>9 DEF WatchEvent, TypeOK, Linked
  <2>2. /\ pc' \in [Loader -> {"idle", "stat", "read", "store", "stamp"}]
        /\ last' \in Time \cup {Never}
        /\ excuse' \subseteq {"unwatched", "chmod", "debounced", "overtaken"}
    BY <1>9 DEF WatchEvent, TypeOK, Loader
  <2>3. TypeOK'
    BY <1>9, <2>1, <2>2 DEF WatchEvent, TypeOK, disk
  <2>4. Linked'
    BY <1>9, <2>1 DEF WatchEvent, Linked, disk
  <2>5. QED
    BY <2>3, <2>4
<1>10. CASE Signal
  <2>1. TypeOK'
    BY <1>10 DEF Signal, TypeOK, disk, load
  <2>2. Linked'
    BY <1>10 DEF Signal, Linked, disk, load
  <2>3. QED
    BY <2>1, <2>2
<1>11. CASE Reload
  <2>1. TypeOK'
    BY <1>11 DEF Reload, TypeOK, disk, Loader
  <2>2. Linked'
    BY <1>11 DEF Reload, Linked, disk
  <2>3. QED
    BY <2>1, <2>2
<1>12. ASSUME NEW l \in Loader, LoadStat(l)
       PROVE  Inv'
  <2>1. /\ pc' \in [Loader -> {"idle", "stat", "read", "store", "stamp"}]
        /\ info' \in [Loader -> Time]
    BY <1>12 DEF LoadStat, Goto, TypeOK
  <2>2. TypeOK'
    BY <1>12, <2>1 DEF LoadStat, TypeOK, disk
  <2>3. Linked'
    BY <1>12 DEF LoadStat, Linked, disk
  <2>4. QED
    BY <2>2, <2>3
<1>13. ASSUME NEW l \in Loader, LoadRead(l)
       PROVE  Inv'
  <2>1. /\ pc' \in [Loader -> {"idle", "stat", "read", "store", "stamp"}]
        /\ data' \in [Loader -> Content \cup {Nil}]
        /\ \A k \in Loader : data'[k] # Nil => Valid(data'[k])
    BY <1>13 DEF LoadRead, Goto, TypeOK, Linked
  <2>2. TypeOK'
    BY <1>13, <2>1 DEF LoadRead, TypeOK, disk
  <2>3. Linked'
    BY <1>13, <2>1 DEF LoadRead, Linked, disk
  <2>4. QED
    BY <2>2, <2>3
<1>14. ASSUME NEW l \in Loader, LoadStore(l)
       PROVE  Inv'
  <2>1. /\ pc' \in [Loader -> {"idle", "stat", "read", "store", "stamp"}]
        /\ data' \in [Loader -> Content \cup {Nil}]
        /\ \A k \in Loader : data'[k] # Nil => Valid(data'[k])
    BY <1>14 DEF LoadStore, Goto, TypeOK, Linked
  <2>2. /\ late' \subseteq Loader
        /\ excuse' \subseteq {"unwatched", "chmod", "debounced", "overtaken"}
    BY <1>14 DEF LoadStore, Store, TypeOK
  <2>3. /\ source' \in Content \cup {Nil}
        /\ source' # Nil => Valid(source')
        /\ swap' = IF source' = Nil THEN Nil ELSE Compile(source')
    <3>1. CASE data[l] = Nil
      BY <1>14, <3>1 DEF LoadStore, Store
    <3>2. CASE data[l] # Nil
      BY <1>14, <3>2 DEF LoadStore, Store, TypeOK, Linked
    <3>3. QED
      BY <3>1, <3>2
  <2>4. swap' = Nil \/ swap' \in {Compile(d) : d \in {e \in Content : Valid(e)}}
    BY <2>3
  <2>5. TypeOK'
    BY <1>14, <2>1, <2>2, <2>3, <2>4 DEF LoadStore, TypeOK, disk
  <2>6. Linked'
    BY <1>14, <2>1, <2>3 DEF LoadStore, Linked, disk
  <2>7. QED
    BY <2>5, <2>6
<1>15. ASSUME NEW l \in Loader, LoadStamp(l)
       PROVE  Inv'
  <2>1. /\ pc' \in [Loader -> {"idle", "stat", "read", "store", "stamp"}]
        /\ info' \in [Loader -> Time] /\ last' \in Time
    BY <1>15 DEF LoadStamp, Goto, TypeOK, Time
  <2>2. TypeOK'
    BY <1>15, <2>1 DEF LoadStamp, TypeOK, disk
  <2>3. Linked'
    BY <1>15 DEF LoadStamp, Linked, disk
  <2>4. QED
    BY <2>2, <2>3
<1>16. CASE UNCHANGED vars
  <2>1. TypeOK'
    BY <1>16 DEF TypeOK, vars, disk, load
  <2>2. Linked'
    BY <1>16 DEF Linked, vars, disk, load
  <2>3. QED
    BY <2>1, <2>2
<1>17. QED
  BY <1>1, <1>2, <1>3, <1>4, <1>5, <1>6, <1>7, <1>8, <1>9, <1>10, <1>11, <1>12, <1>13, <1>14,
     <1>15, <1>16 DEF Next, Done

\* The variables of the policy file keep their types.
THEOREM PolicyTypes == Spec => []TypeOK
<1>1. Inv => TypeOK
  BY DEF Inv
<1>2. QED
  BY <1>1, InitInv, NextInv, PTL DEF Spec

\* What the invariant says of a decision.
LEMMA InvDecides == Inv => DecisionsMeet
<1> SUFFICES ASSUME Inv PROVE DecisionsMeet
  OBVIOUS
<1>1. (source = Nil) = (swap = Nil)
  BY ContentAssumption DEF Inv, TypeOK, Linked
<1>2. ASSUME NEW r \in Outcome, NEW src \in Key, NEW dst \in Key, r.ok, r.flow.proto # 0
      PROVE  PassesOut(src, dst, r) <=>
               source # Nil /\ Allowed(source, src, dst, r.flow.proto, r.flow.dport)
  <2> DEFINE dec == SwapDecide(swap, src, dst, r.flow.proto, r.flow.dport)
  <2>1. PassesOut(src, dst, r) <=> Combine(dec, NoDecider).action = "allow"
    BY <1>2 DEF PassesOut
  <2>2. Combine(dec, NoDecider).action = "allow" <=> dec.action = "allow"
    BY DEF Combine, NoDecider, Decision
  <2>3. CASE swap = Nil
    BY <2>1, <2>2, <2>3, <1>1 DEF SwapDecide, Decision
  <2>4. CASE swap # Nil
    <3>1. Valid(source) /\ swap = Compile(source)
      BY <2>4, <1>1 DEF Inv, Linked
    <3>2. dec = Decide(Compile(source), src, dst, r.flow.proto, r.flow.dport)
      BY <3>1, <2>4 DEF SwapDecide
    <3>3. QED
      BY <3>1, <3>2, <2>1, <2>2, <2>4, <1>1, DecideMeets
  <2>5. QED
    BY <2>3, <2>4
<1>3. QED
  BY <1>1, <1>2 DEF DecisionsMeet, Inv, Linked

\* Whatever the interleaving of the watcher, SIGHUP and the editor, the packets
\* that pass are those that one document, valid as a whole, allows.
THEOREM PolicyDecisions == Spec => []DecisionsMeet
BY InvDecides, InitInv, NextInv, PTL DEF Spec

-----------------------------------------------------------------------------
(* What keeps the policy in force up to date *)

\* What the policy in force should have been compiled from.
Current == IF file.content = Missing THEN Nil ELSE file.content

\* l, if it is about to store, has read the file as it is, or is late.
Harmless(l) == pc[l] = "store" => l \in late \/ data[l] = Current

\* Some loader is still to find out what the file holds now, or holds it, or is
\* to be overtaken.
Underway ==
  \/ events > 0
  \/ \E l \in Loader :
       \/ pc[l] = "stat"
       \/ pc[l] = "read" /\ file.content # Missing
       \/ pc[l] = "store" /\ Harmless(l)

UpToDate == source = Current /\ \A l \in Loader : Harmless(l)
Unusable == file.content # Missing /\ ~Usable(file.content)

\* Loads run only for a daemon that watches, and a loader holds data only
\* between LoadRead and LoadStore.
Staged ==
  /\ phase # "watching" => ~sighup /\ \A l \in Loader : pc[l] = "idle"
  /\ phase = "off" => source = Nil
  /\ \A l \in Loader : data[l] # Nil => pc[l] = "store"

\* Unless there is an excuse, the policy is up to date, somebody is about to bring
\* it up to date, or the file cannot be used.
Followed == phase # "off" /\ excuse = {} => Underway \/ UpToDate \/ Unusable

\* Before New nothing is promised and nothing is loaded.
LEMMA InitFollowed == Init => Staged /\ Followed
BY DEF Init, Staged, Followed

\* A change of the file leaves an event behind, or happens unwatched.
LEMMA ChangeFollowed ==
  ASSUME Inv, Staged, NEW c, NEW m, Change(c, m)
  PROVE  Staged' /\ Followed'
<1>1. Staged'
  BY DEF Change, Staged, load
<1>2. CASE phase = "watching"
  <2>1. events' > 0
    BY <1>2 DEF Change, Inv, TypeOK
  <2>2. QED
    BY <1>1, <2>1 DEF Followed, Underway
<1>3. CASE phase # "watching"
  <2>1. excuse' # {}
    BY <1>3 DEF Change
  <2>2. QED
    BY <1>1, <2>1 DEF Followed
<1>4. QED
  BY <1>2, <1>3

\* A step that leaves alone what Staged and Followed speak of keeps them.
LEMMA SameFollowed ==
  ASSUME Staged, Followed, phase' = phase \/ (phase = "loaded" /\ phase' = "watching"),
         UNCHANGED <<file, events, pc, data, source, late, excuse>>,
         sighup' = sighup \/ phase' = "watching"
  PROVE  Staged' /\ Followed'
<1>1. Staged'
  BY DEF Staged
<1>2. Followed'
  BY DEF Followed, Underway, UpToDate, Unusable, Usable, Harmless, Current
<1>3. QED
  BY <1>1, <1>2

\* New leaves the policy up to date, or no daemon.
LEMMA NewFollowed ==
  ASSUME Inv, Staged, New
  PROVE  Staged' /\ Followed'
<1>1. Staged'
  BY DEF Staged, New, load
<1>2. \A l \in Loader : pc'[l] = "idle"
  BY DEF Staged, New, load
<1>3. UNCHANGED file /\ source = Nil
  BY DEF New, disk, Staged
<1>4. source' = Current' \/ Unusable'
  BY <1>3 DEF New, Current, Unusable, Usable
<1>5. Followed'
  BY <1>2, <1>4 DEF Followed, UpToDate, Harmless
<1>6. QED
  BY <1>1, <1>5

\* An event makes the watcher look at the file, or is an excuse.
LEMMA WatchFollowed ==
  ASSUME Inv, Staged, WatchEvent
  PROVE  Staged' /\ Followed'
<1>1. "watch" \in Loader /\ pc \in [Loader -> {"idle", "stat", "read", "store", "stamp"}]
  BY DEF Loader, Inv, TypeOK
<1>2. Staged'
  BY <1>1 DEF Staged, WatchEvent, disk
<1>3. CASE clock - last < Debounce
  BY <1>2, <1>3 DEF WatchEvent, Followed
<1>4. CASE ~(clock - last < Debounce)
  <2>1. pc'["watch"] = "stat"
    BY <1>1, <1>4 DEF WatchEvent
  <2>2. QED
    BY <1>1, <1>2, <2>1 DEF Followed, Underway
<1>5. QED
  BY <1>3, <1>4

\* A signal makes the other loader look at the file.
LEMMA ReloadFollowed ==
  ASSUME Inv, Staged, Reload
  PROVE  Staged' /\ Followed'
<1>1. "hup" \in Loader /\ pc \in [Loader -> {"idle", "stat", "read", "store", "stamp"}]
  BY DEF Loader, Inv, TypeOK
<1>2. Staged'
  BY <1>1 DEF Staged, Reload, disk
<1>3. pc'["hup"] = "stat"
  BY <1>1 DEF Reload
<1>4. QED
  BY <1>1, <1>2, <1>3 DEF Followed, Underway

\* A loader that has looked at the file goes on to read it, to clear the policy
\* of a file that is missing, or has found the file unusable.
LEMMA StatFollowed ==
  ASSUME Inv, Staged, NEW l \in Loader, LoadStat(l)
  PROVE  Staged' /\ Followed'
<1>1. pc \in [Loader -> {"idle", "stat", "read", "store", "stamp"}] /\ pc[l] = "stat"
  BY DEF Inv, TypeOK, LoadStat
<1>2. UNCHANGED <<file, events, data, source, late, excuse, phase, sighup>> /\ data[l] = Nil
  BY <1>1 DEF LoadStat, disk, Staged
<1>3. Staged'
  BY <1>1, <1>2 DEF LoadStat, Goto, Staged
<1>4. Underway' \/ Unusable'
  <2>1. CASE file.content = Missing
    <3>1. pc'[l] = "store" /\ data'[l] = Current'
      BY <1>1, <1>2, <2>1 DEF LoadStat, Goto, Current
    <3>2. QED
      BY <3>1 DEF Underway, Harmless
  <2>2. CASE file.content # Missing /\ ~file.safe
    BY <1>2, <2>2 DEF Unusable, Usable
  <2>3. CASE file.content # Missing /\ file.safe
    <3>1. pc'[l] = "read"
      BY <1>1, <2>3 DEF LoadStat, Goto
    <3>2. QED
      BY <1>2, <2>3, <3>1 DEF Underway
  <2>4. QED
    BY <2>1, <2>2, <2>3
<1>5. QED
  BY <1>3, <1>4 DEF Followed

\* A loader reads the file as it is.  If it fails the file is unusable, or it has
\* gone since it was looked at, and what kept the policy up to date still does.
LEMMA ReadFollowed ==
  ASSUME Inv, Staged, Followed, NEW l \in Loader, LoadRead(l)
  PROVE  Staged' /\ Followed'
<1>1. pc \in [Loader -> {"idle", "stat", "read", "store", "stamp"}] /\ pc[l] = "read"
      /\ data \in [Loader -> Content \cup {Nil}]
  BY DEF Inv, TypeOK, LoadRead
<1>2. UNCHANGED <<file, events, source, late, excuse, phase, sighup>>
  BY DEF LoadRead, disk
<1>3. Staged'
  BY <1>1, <1>2 DEF LoadRead, Goto, Staged
<1>4. CASE file.content # Missing /\ Valid(file.content)
  <2>1. pc'[l] = "store" /\ data'[l] = Current'
    BY <1>1, <1>2, <1>4 DEF LoadRead, Goto, Current
  <2>2. QED
    BY <1>3, <2>1 DEF Followed, Underway, Harmless
<1>5. CASE file.content # Missing /\ ~Valid(file.content)
  BY <1>2, <1>3, <1>5 DEF Followed, Unusable, Usable
<1>6. CASE file.content = Missing
  <2>1. UNCHANGED data /\ pc'[l] = "idle" /\ \A k \in Loader \ {l} : pc'[k] = pc[k]
    BY <1>1, <1>6 DEF LoadRead, Goto
  <2>2. \A k \in Loader : pc[k] = "store" \/ pc[k] = "stat" => pc'[k] = pc[k]
    BY <1>1, <2>1
  <2>3. \A k \in Loader : Harmless(k) => Harmless(k)'
    BY <1>1, <1>2, <2>1 DEF Harmless, Current
  <2>4. Underway => Underway'
    BY <1>2, <1>6, <2>2, <2>3 DEF Underway
  <2>5. UpToDate => UpToDate'
    BY <1>2, <2>3 DEF UpToDate, Current
  <2>6. ~Unusable
    BY <1>6 DEF Unusable
  <2>7. QED
    BY <1>2, <1>3, <2>4, <2>5, <2>6 DEF Followed
<1>7. QED
  BY <1>4, <1>5, <1>6

\* A store of what the file holds makes every other loader that is about to store
\* late; a store of anything else is late, or finds another one underway.
LEMMA StoreFollowed ==
  ASSUME Inv, Staged, Followed, NEW l \in Loader, LoadStore(l)
  PROVE  Staged' /\ Followed'
<1>1. pc \in [Loader -> {"idle", "stat", "read", "store", "stamp"}] /\ pc[l] = "store"
      /\ data \in [Loader -> Content \cup {Nil}]
  BY DEF Inv, TypeOK, LoadStore
<1>2. UNCHANGED <<file, events, phase, sighup>>
  BY DEF LoadStore, disk
<1>3. /\ source' = data[l] /\ data'[l] = Nil /\ pc'[l] \in {"idle", "stamp"}
      /\ \A k \in Loader \ {l} : pc'[k] = pc[k] /\ data'[k] = data[k]
      /\ excuse' = IF l \in late THEN excuse \cup {"overtaken"} ELSE excuse
      /\ late' = (late \ {l}) \cup {k \in Loader \ {l} : pc[k] = "store"}
  BY <1>1 DEF LoadStore, Store, Goto
<1>4. phase = "watching"
  BY <1>1 DEF Staged
<1>5. Staged'
  BY <1>2, <1>3, <1>4 DEF Staged
<1>6. \A k \in Loader : Harmless(k)'
  BY <1>3 DEF Harmless
<1>7. CASE l \in late
  BY <1>3, <1>5, <1>7 DEF Followed
<1>8. CASE l \notin late /\ data[l] = Current
  <2>1. UpToDate'
    BY <1>2, <1>3, <1>6, <1>8 DEF UpToDate, Current
  <2>2. QED
    BY <1>5, <2>1 DEF Followed
<1>9. CASE l \notin late /\ data[l] # Current
  <2>1. ~Harmless(l) /\ ~UpToDate
    BY <1>1, <1>9 DEF Harmless, UpToDate
  <2>2. \A k \in Loader : pc[k] \in {"stat", "read", "store"} /\ k # l => pc'[k] = pc[k]
    BY <1>3
  <2>3. Underway => Underway'
    BY <1>1, <1>2, <1>6, <2>1, <2>2 DEF Underway
  <2>4. Unusable => Unusable'
    BY <1>2 DEF Unusable, Usable
  <2>5. excuse' = excuse
    BY <1>3, <1>9
  <2>6. QED
    BY <1>2, <1>5, <2>1, <2>3, <2>4, <2>5 DEF Followed
<1>10. QED
  BY <1>7, <1>8, <1>9

\* The time stamp of a load is of no account to what it loaded.
LEMMA StampFollowed ==
  ASSUME Inv, Staged, Followed, NEW l \in Loader, LoadStamp(l)
  PROVE  Staged' /\ Followed'
<1>1. pc \in [Loader -> {"idle", "stat", "read", "store", "stamp"}] /\ pc[l] = "stamp"
  BY DEF Inv, TypeOK, LoadStamp
<1>2. UNCHANGED <<file, events, data, source, late, excuse, phase, sighup>>
  BY DEF LoadStamp, disk
<1>3. pc'[l] = "idle" /\ \A k \in Loader \ {l} : pc'[k] = pc[k]
  BY <1>1 DEF LoadStamp, Goto
<1>4. Staged'
  BY <1>1, <1>2, <1>3 DEF Staged
<1>5. \A k \in Loader : Harmless(k) => Harmless(k)'
  BY <1>1, <1>2, <1>3 DEF Harmless, Current
<1>6. Underway => Underway'
  BY <1>1, <1>2, <1>3, <1>5 DEF Underway
<1>7. (UpToDate => UpToDate') /\ (Unusable => Unusable')
  BY <1>2, <1>5 DEF UpToDate, Unusable, Usable, Current
<1>8. QED
  BY <1>2, <1>4, <1>6, <1>7 DEF Followed

\* Every step keeps what brings the policy up to date.
LEMMA NextFollowed == Inv /\ Staged /\ Followed /\ [Next]_vars => Staged' /\ Followed'
<1> SUFFICES ASSUME Inv, Staged, Followed, [Next]_vars PROVE Staged' /\ Followed'
  OBVIOUS
<1>1. CASE Tick \/ StartWatcher \/ Signal \/ Done \/ UNCHANGED vars
  BY <1>1, SameFollowed DEF Tick, StartWatcher, Signal, Done, vars, disk, load
<1>2. ASSUME NEW c, NEW m, Change(c, m) PROVE Staged' /\ Followed'
  BY <1>2, ChangeFollowed
<1>3. ASSUME NEW d \in Edits, NEW part \in PartOf(d), WriteBegin(d, part) PROVE Staged' /\ Followed'
  BY <1>2, <1>3 DEF WriteBegin
<1>4. CASE WriteEnd \/ RemoveFile
  BY <1>2, <1>4 DEF WriteEnd, RemoveFile
<1>5. ASSUME NEW d \in Edits, NEW t \in Time, Rename(d, t) PROVE Staged' /\ Followed'
  BY <1>2, <1>5 DEF Rename
<1>6. CASE Chmod
  <2>1. excuse' # {}
    BY <1>6 DEF Chmod
  <2>2. QED
    BY <1>6, <2>1 DEF Chmod, Staged, Followed, load
<1>7. ASSUME NEW l \in Loader, LoadStat(l) \/ LoadRead(l) \/ LoadStore(l) \/ LoadStamp(l)
      PROVE  Staged' /\ Followed'
  BY <1>7, StatFollowed, ReadFollowed, StoreFollowed, StampFollowed
<1>8. QED
  BY <1>1, <1>3, <1>4, <1>5, <1>6, <1>7, NewFollowed, WatchFollowed, ReloadFollowed DEF Next

\* Once all is quiet the policy in force is what the file says, for every set of
\* documents and any number of changes and signals, but for the known excuses:
\* two loads that race cannot leave an old policy behind unnoticed.
THEOREM PolicyFollowsFile == Spec => []StaleExplained
<1>1. Staged /\ Followed => StaleExplained
  BY DEF Staged, Followed, StaleExplained, Settled, Underway, UpToDate, Unusable, Usable, Current
<1>2. QED
  BY <1>1, InitInv, InitFollowed, NextInv, NextFollowed, PTL DEF Spec

-----------------------------------------------------------------------------
(* The parser.  The chain of extension headers is gone through by looking   *)
(* at its least counterexample, which takes the place of an induction.      *)

\* A set of numbers has a least one.
LEMMA LeastNat ==
  ASSUME NEW T \in SUBSET Nat, T # {}
  PROVE  \E m \in T : \A k \in T : m <= k
<1> DEFINE R == OpToRel(<, Nat)
<1>1. IsWellFoundedOn(R, Nat)
  BY NatLessThanWellFounded
<1>2. PICK m \in T : \A k \in T : <<k, m>> \notin R
  <2> HIDE DEF R
  <2>1. QED
    BY <1>1, WFMin, Zenon
<1>3. \A k \in T : ~(k < m)
  BY <1>2 DEF OpToRel
<1> HIDE DEF R
<1>4. QED
  BY <1>3

\* The least element of a set of numbers, as Min of the library chooses it.
LEMMA MinLeast ==
  ASSUME NEW T \in SUBSET Nat, T # {}
  PROVE  Min(T) \in T /\ \A k \in T : Min(T) <= k
BY LeastNat DEF Min

\* Sizes add up to places: a function as Start defines it exists.
LEMMA PlacesExist ==
  ASSUME NEW n \in Nat, NEW d \in [1 .. n -> Nat]
  PROVE  \E f \in [1 .. n + 1 -> Nat] : f[1] = 40 /\ \A i \in 1 .. n : f[i + 1] = f[i] + d[i]
<1> DEFINE Places(k) == {f \in [1 .. k + 1 -> Nat] : f[1] = 40 /\ \A i \in 1 .. k : f[i + 1] = f[i] + d[i]}
           Unplaced == {k \in 0 .. n : Places(k) = {}}
<1>1. SUFFICES ASSUME Unplaced # {} PROVE FALSE
  <2>1. n \in 0 .. n
    OBVIOUS
  <2>2. CASE Unplaced = {}
    <3>1. Places(n) # {}
      BY <2>1, <2>2
    <3>2. PICK f : f \in Places(n)
      BY <3>1
    <3>3. QED
      BY <3>2
  <2>3. QED
    BY <1>1, <2>2
<1>2. PICK k \in Unplaced : \A j \in Unplaced : k <= j
  <2>1. Unplaced \in SUBSET Nat
    OBVIOUS
  <2> HIDE DEF Unplaced
  <2>2. QED
    BY <1>1, <2>1, LeastNat
<1>3. CASE k = 0
  <2> DEFINE f == [i \in 1 .. 1 |-> 40]
  <2>1. f \in Places(0)
    OBVIOUS
  <2>2. QED
    BY <1>2, <1>3, <2>1
<1>4. CASE k # 0
  <2>1. k \in 0 .. n /\ k - 1 \in 0 .. n /\ ~(k <= k - 1)
    BY <1>4
  <2>2. k - 1 \notin Unplaced
    <3> HIDE DEF Unplaced
    <3>1. QED
      BY <1>2, <2>1
  <2>3. Places(k - 1) # {}
    <3> HIDE DEF Places
    <3>1. QED
      BY <2>1, <2>2
  <2>4. PICK f : f \in Places(k - 1)
    BY <2>3
  <2> DEFINE g == [i \in 1 .. k + 1 |-> IF i = k + 1 THEN f[k] + d[k] ELSE f[i]]
  <2>5. f \in [1 .. k -> Nat] /\ f[1] = 40 /\ \A i \in 1 .. k - 1 : f[i + 1] = f[i] + d[i]
    BY <2>1, <2>4
  <2>6. k \in 1 .. n
    BY <2>1, <1>4
  <2>7. g \in [1 .. k + 1 -> Nat] /\ g[1] = 40
    BY <2>5, <2>6
  <2>8. ASSUME NEW i \in 1 .. k PROVE g[i + 1] = g[i] + d[i]
    <3>1. CASE i = k
      BY <3>1, <2>5, <2>6
    <3>2. CASE i # k
      BY <3>2, <2>5, <2>6
    <3>3. QED
      BY <3>1, <3>2
  <2>9. g \in Places(k)
    BY <2>7, <2>8
  <2>10. QED
    BY <1>2, <2>9
<1>5. QED
  BY <1>3, <1>4

\* What a sequence holds.
LEMMA Elements ==
  ASSUME NEW S, NEW s \in Seq(S)
  PROVE  Len(s) \in Nat /\ \A i \in 1 .. Len(s) : s[i] \in S
OBVIOUS

\* What the parser reads of a packet are numbers, and the flags of TCP.
LEMMA PacketFields ==
  ASSUME NEW p, IsPacket(p)
  PROVE  /\ p.version \in Nat /\ p.len \in Nat /\ p.payload \in Nat /\ p.ihl \in 0 .. 15 /\ p.frag \in Nat
         /\ p.more \in BOOLEAN /\ p.next \in Nat /\ p.tp \in TransportFields
         /\ Len(p.exts) \in Nat
         /\ \A i \in 1 .. Len(p.exts) : p.exts[i] \in [units : Nat, next : Nat, frag : Nat]
<1>1. p.exts \in Seq([units : Nat, next : Nat, frag : Nat])
  BY DEF IsPacket, Chain
<1>2. Len(p.exts) \in Nat /\ \A i \in 1 .. Len(p.exts) : p.exts[i] \in [units : Nat, next : Nat, frag : Nat]
  BY <1>1, Elements
<1>3. QED
  BY <1>2 DEF IsPacket

\* Every extension header has a size, and starts where the one before it ends.
LEMMA Starts ==
  ASSUME NEW p, IsPacket(p)
  PROVE  /\ Start(p)[1] = 40
         /\ \A i \in 1 .. Len(p.exts) :
              /\ ExtSize(HeaderType(p, i), p.exts[i].units) \in Nat
              /\ Start(p)[i + 1] = Start(p)[i] + ExtSize(HeaderType(p, i), p.exts[i].units)
         /\ \A i \in 1 .. Len(p.exts) + 1 : Start(p)[i] \in Nat
<1> DEFINE n == Len(p.exts)
           d == [i \in 1 .. n |-> ExtSize(HeaderType(p, i), p.exts[i].units)]
           Def(f) == [i \in 1 .. n + 1 |->
                        IF i = 1 THEN 40 ELSE f[i - 1] + ExtSize(HeaderType(p, i - 1), p.exts[i - 1].units)]
<1>1. n \in Nat /\ \A i \in 1 .. n : p.exts[i].units \in Nat
  BY PacketFields
<1>2. \A i \in 1 .. n : ExtSize(HeaderType(p, i), p.exts[i].units) \in Nat
  <2>1. ASSUME NEW t, NEW u \in Nat PROVE ExtSize(t, u) \in Nat
    BY DEF ExtSize
  <2>2. QED
    BY <1>1, <2>1
<1>3. d \in [1 .. n -> Nat]
  BY <1>2
<1>4. PICK f \in [1 .. n + 1 -> Nat] : f[1] = 40 /\ \A i \in 1 .. n : f[i + 1] = f[i] + d[i]
  <2> HIDE DEF n, d
  <2>1. QED
    BY <1>1, <1>3, PlacesExist
<1>5. f = Def(f)
  <2>1. ASSUME NEW i \in 1 .. n + 1 PROVE f[i] = Def(f)[i]
    <3>1. CASE i = 1
      BY <3>1, <1>4
    <3>2. CASE i # 1
      <4>1. i - 1 \in 1 .. n /\ (i - 1) + 1 = i
        BY <3>2, <1>1
      <4>2. f[(i - 1) + 1] = f[i - 1] + d[i - 1]
        BY <4>1, <1>4
      <4>3. QED
        BY <3>2, <4>1, <4>2
    <3>3. QED
      BY <3>1, <3>2
  <2>2. QED
    BY <2>1, <1>4
<1>6. Start(p) = Def(Start(p))
  <2>1. Start(p) = CHOOSE at : at = Def(at)
    BY DEF Start
  <2> HIDE DEF Def
  <2>2. QED
    BY <2>1, <1>5
<1>7. ASSUME NEW i \in 1 .. n PROVE Start(p)[i + 1] = Start(p)[i] + ExtSize(HeaderType(p, i), p.exts[i].units)
  <2>1. i + 1 \in 1 .. n + 1 /\ i + 1 # 1 /\ (i + 1) - 1 = i
    BY <1>1
  <2>2. Start(p)[i + 1] = Def(Start(p))[i + 1]
    BY <1>6
  <2>3. QED
    BY <2>1, <2>2
<1>8. Start(p)[1] = 40
  <2>1. Start(p)[1] = Def(Start(p))[1] /\ 1 \in 1 .. n + 1
    BY <1>6, <1>1
  <2>2. QED
    BY <2>1
<1>9. \A i \in 1 .. n + 1 : Start(p)[i] \in Nat
  <2> DEFINE Bad == {i \in 1 .. n + 1 : Start(p)[i] \notin Nat}
  <2>1. SUFFICES ASSUME Bad # {} PROVE FALSE
    OBVIOUS
  <2>2. PICK k \in Bad : \A j \in Bad : k <= j
    <3>1. Bad \in SUBSET Nat
      BY <1>1
    <3> HIDE DEF Bad
    <3>2. QED
      BY <2>1, <3>1, LeastNat
  <2>3. k # 1 /\ k \in 1 .. n + 1
    BY <1>8, <2>2
  <2>4. k - 1 \in 1 .. n /\ k - 1 \in 1 .. n + 1 /\ (k - 1) + 1 = k /\ k - 1 \notin Bad
    BY <1>1, <2>2, <2>3
  <2>5. Start(p)[k] = Start(p)[k - 1] + ExtSize(HeaderType(p, k - 1), p.exts[k - 1].units)
    BY <1>7, <2>4
  <2>6. Start(p)[k] \in Nat
    BY <2>4, <2>5, <1>2
  <2>7. QED
    BY <2>2, <2>6
<1>10. QED
  BY <1>2, <1>7, <1>8, <1>9

\* What the parser may say of a transport header of type proto that starts at
\* the given place, if it says it of a packet that is no later fragment.
FlowType == [proto : Nat, sport : Nat, dport : Nat, of : {"own", "quoted"}]
Reads(p, proto, at, r) ==
  /\ r.reach <= p.len /\ r.flow \in FlowType /\ r.ok \in BOOLEAN
  /\ r.ok /\ r.kind \in {"Start", "End"} =>
       /\ r.flow.of = "own" /\ r.flow.proto = proto /\ p.len >= at + 4
       /\ proto \in {ProtoTCP, ProtoUDP} => r.flow.sport = p.tp.sport /\ r.flow.dport = p.tp.dport
       /\ r.kind = "End" => proto = ProtoTCP
  /\ r.flow.of = "quoted" => r.kind = "Error"

\* A refusal says nothing but how far the parser has looked.
LEMMA RefusedReads ==
  ASSUME NEW p, NEW proto, NEW at, NEW reach \in Nat, reach <= p.len
  PROVE  Reads(p, proto, at, Refused(reach))
BY DEF Reads, Refused, Flow, FlowType

\* What neither starts nor ends a flow needs no ports.
LEMMA OtherReads ==
  ASSUME NEW p, NEW proto, NEW at, NEW reach \in Nat, reach <= p.len, NEW flow \in FlowType,
         flow.of = "own", NEW kind, kind \notin {"Start", "End"}
  PROVE  Reads(p, proto, at, Parsed(flow, kind, reach))
BY DEF Reads, Parsed, FlowType

\* Nor does an error, whoever's flow it names.
LEMMA ErrorReads ==
  ASSUME NEW p, NEW proto, NEW at, NEW reach \in Nat, reach <= p.len, NEW flow \in FlowType
  PROVE  Reads(p, proto, at, Parsed(flow, "Error", reach))
BY DEF Reads, Parsed, FlowType

\* A quoted packet is looked at only as far as it has arrived.
LEMMA QuotedReads ==
  ASSUME NEW p, IsPacket(p), NEW flow \in FlowType, NEW proto, NEW from, NEW at \in Nat, at + 20 <= p.len
  PROVE  Reads(p, proto, from, QuotedV4(p, flow, at)) /\ Reads(p, proto, from, QuotedV6(p, flow, at))
<1> DEFINE q == p.tp.quote
           named == [flow EXCEPT !.proto = q.next, !.of = "quoted"]
<1>1. p.len \in Nat /\ q \in QuotedFields
  BY PacketFields DEF TransportFields
<1>2. q.ihl \in Nat /\ named \in FlowType /\ WithPorts(named, q) \in FlowType
  <2>1. q.ihl \in Nat /\ q.next \in Nat /\ q.sport \in Nat /\ q.dport \in Nat
    BY <1>1 DEF QuotedFields
  <2> HIDE DEF q
  <2>2. named \in FlowType
    BY <2>1 DEF FlowType
  <2> HIDE DEF named
  <2>3. WithPorts(named, q) \in FlowType
    BY <2>1, <2>2 DEF FlowType, WithPorts
  <2>4. QED
    BY <2>1, <2>2, <2>3
<1>3. Reads(p, proto, from, Parsed(flow, "Error", at + 1))
  BY <1>1, ErrorReads
<1>4. Reads(p, proto, from, QuotedV4(p, flow, at))
  <2>1. CASE q.ihl < 5 \/ p.len - at < 4 * q.ihl + 4
    BY <1>2, <1>3, <2>1 DEF QuotedV4
  <2>2. CASE q.ihl >= 5 /\ ~(p.len - at < 4 * q.ihl + 4)
    <3>1. at + 4 * q.ihl + 4 \in Nat /\ at + 4 * q.ihl + 4 <= p.len /\ at + 20 \in Nat
      BY <1>1, <1>2, <2>2
    <3>2. Reads(p, proto, from, Parsed(WithPorts(named, q), "Error", at + 4 * q.ihl + 4))
      BY <1>2, <3>1, ErrorReads
    <3>3. Reads(p, proto, from, Parsed(named, "Error", at + 20))
      BY <1>2, <3>1, ErrorReads
    <3>4. QED
      BY <1>2, <2>2, <3>2, <3>3 DEF QuotedV4
  <2>3. QED
    BY <1>2, <2>1, <2>2
<1>5. Reads(p, proto, from, QuotedV6(p, flow, at))
  <2>1. CASE p.len - at < 40
    BY <1>1, <1>3, <2>1 DEF QuotedV6
  <2>2. CASE ~(p.len - at < 40)
    <3>1. Reads(p, proto, from, Parsed(named, "Error", at + 40))
      BY <1>1, <1>2, <2>2, ErrorReads
    <3>2. ASSUME p.len - at >= 44
          PROVE  Reads(p, proto, from, Parsed(WithPorts(named, q), "Error", at + 44))
      BY <1>1, <1>2, <3>2, ErrorReads
    <3>3. QED
      BY <2>2, <3>1, <3>2 DEF QuotedV6
  <2>3. QED
    BY <2>1, <2>2
<1>6. QED
  BY <1>4, <1>5

\* Both versions of ICMP, with the errors that quote a packet.
LEMMA ICMPReads ==
  ASSUME NEW p, IsPacket(p), NEW proto \in {ProtoICMP, ProtoICMPv6}, NEW at \in Nat, at <= p.len
  PROVE  Reads(p, proto, at, ParseICMP(p, Flow(proto), at))
<1> DEFINE flow == Flow(proto)
<1>1. p.len \in Nat /\ flow \in FlowType /\ flow.of = "own" /\ flow.proto = proto
  BY PacketFields DEF Flow, FlowType, ProtoICMP, ProtoICMPv6
<1> HIDE DEF flow
<1>2. CASE p.len - at < 4
  BY <1>1, <1>2, RefusedReads DEF ParseICMP, flow
<1>3. CASE p.len - at >= 4
  <2>1. Reads(p, proto, at, Parsed(flow, "Start", at + 2))
    BY <1>1, <1>3 DEF Reads, Parsed, ProtoICMP, ProtoICMPv6, ProtoTCP, ProtoUDP
  <2>2. Reads(p, proto, at, Parsed(flow, "Other", at + 2))
    BY <1>1, <1>3, OtherReads
  <2>3. Reads(p, proto, at, ParseICMPError(p, flow, at))
    <3>1. Reads(p, proto, at, Parsed(flow, "Error", at + 2))
      BY <1>1, <1>3, ErrorReads
    <3>2. CASE p.len - at < 28
      BY <1>1, <3>1, <3>2 DEF ParseICMPError
    <3>3. CASE ~(p.len - at < 28)
      <4>1. Reads(p, proto, at, Parsed(flow, "Error", at + 9))
        BY <1>1, <3>3, ErrorReads
      <4>2. Reads(p, proto, at, QuotedV4(p, flow, at + 8)) /\ Reads(p, proto, at, QuotedV6(p, flow, at + 8))
        BY <1>1, <3>3, QuotedReads
      <4>3. QED
        BY <1>1, <3>3, <4>1, <4>2 DEF ParseICMPError
    <3>4. QED
      BY <3>2, <3>3
  <2>4. QED
    BY <1>1, <1>3, <2>1, <2>2, <2>3 DEF ParseICMP, flow
<1>4. QED
  BY <1>1, <1>2, <1>3

\* A TCP or UDP header whose first four bytes are there has the ports reported.
LEMMA PortsRead ==
  ASSUME NEW p, IsPacket(p), NEW proto \in {ProtoTCP, ProtoUDP}, NEW at \in Nat, NEW kind,
         kind = "End" => proto = ProtoTCP, at + 4 <= p.len, NEW reach \in Nat, reach <= p.len
  PROVE  Reads(p, proto, at, Parsed(WithPorts(Flow(proto), p.tp), kind, reach))
<1> DEFINE f == WithPorts(Flow(proto), p.tp)
<1>1. p.len \in Nat /\ p.tp.sport \in Nat /\ p.tp.dport \in Nat
  BY PacketFields DEF TransportFields
<1>2. Flow(proto) \in FlowType /\ Flow(proto).of = "own" /\ Flow(proto).proto = proto
  BY DEF Flow, FlowType, ProtoTCP, ProtoUDP
<1>3. f \in FlowType /\ f.of = "own" /\ f.proto = proto /\ f.sport = p.tp.sport /\ f.dport = p.tp.dport
  BY <1>1, <1>2 DEF FlowType, WithPorts
<1> HIDE DEF f
<1>4. Reads(p, proto, at, Parsed(f, kind, reach))
  BY <1>1, <1>3 DEF Reads, Parsed
<1>5. QED
  BY <1>4 DEF f

\* No transport header is read past the last byte, and what is called the start
\* or the end of a flow has its ports.
LEMMA TransportReads ==
  ASSUME NEW p, IsPacket(p), NEW proto \in Nat, NEW at \in Nat, at <= p.len
  PROVE  Reads(p, proto, at, ParseTransport(p, Flow(proto), at))
<1> DEFINE flow == Flow(proto)
<1>1. p.len \in Nat /\ p.tp \in TransportFields /\ flow.proto = proto
  BY PacketFields DEF Flow
<1>2. Reads(p, proto, at, Refused(at))
  BY RefusedReads
<1>3. CASE proto = ProtoTCP
  <2>1. ASSUME NEW kind, ~(p.len - at < 20)
        PROVE  Reads(p, proto, at, Parsed(WithPorts(flow, p.tp), kind, at + 14))
    <3>1. at + 4 <= p.len /\ at + 14 \in Nat /\ at + 14 <= p.len
      BY <1>1, <2>1
    <3>2. QED
      BY <1>3, <3>1, PortsRead
  <2>2. ASSUME ~(p.len - at < 20) PROVE Reads(p, proto, at, Refused(at + 13))
    BY <1>1, <2>2, RefusedReads
  <2>3. Reads(p, proto, at, ParseTCP(p, flow, at))
    <3> HIDE DEF flow
    <3>1. CASE p.len - at < 20
      BY <1>1, <1>2, <3>1 DEF ParseTCP
    <3>2. CASE ~(p.len - at < 20)
      BY <2>1, <2>2, <3>2, <1>1 DEF ParseTCP
    <3>3. QED
      BY <3>1, <3>2
  <2>4. QED
    <3> HIDE DEF flow
    <3>1. ParseTransport(p, flow, at) = ParseTCP(p, flow, at)
      BY <1>1, <1>3 DEF ParseTransport, ProtoTCP, ProtoUDP, ProtoICMP, ProtoICMPv6
    <3>2. QED
      BY <2>3, <3>1 DEF flow
<1>4. CASE proto = ProtoUDP
  <2>1. ASSUME ~(p.len - at < 8)
        PROVE  Reads(p, proto, at, Parsed(WithPorts(flow, p.tp), "Start", at + 8))
    <3>1. at + 4 <= p.len /\ at + 8 \in Nat /\ at + 8 <= p.len
      BY <1>1, <2>1
    <3>2. QED
      BY <1>4, <3>1, PortsRead DEF ProtoTCP, ProtoUDP
  <2>2. Reads(p, proto, at, ParseUDP(p, flow, at))
    BY <1>2, <2>1 DEF ParseUDP
  <2>3. QED
    <3> HIDE DEF flow
    <3>1. ParseTransport(p, flow, at) = ParseUDP(p, flow, at)
      BY <1>1, <1>4 DEF ParseTransport, ProtoTCP, ProtoUDP, ProtoICMP, ProtoICMPv6
    <3>2. QED
      BY <2>2, <3>1 DEF flow
<1>5. CASE proto \in {ProtoICMP, ProtoICMPv6}
  <2>1. Reads(p, proto, at, ParseICMP(p, flow, at))
    BY <1>5, ICMPReads
  <2>2. QED
    BY <1>1, <1>5, <2>1 DEF ParseTransport, ProtoTCP, ProtoUDP, ProtoICMP, ProtoICMPv6
<1>6. CASE proto \notin {ProtoTCP, ProtoUDP, ProtoICMP, ProtoICMPv6}
  BY <1>1, <1>2, <1>6 DEF ParseTransport
<1>7. QED
  BY <1>3, <1>4, <1>5, <1>6

\* What ParsedRight asks, and the type of the result.
ReadRight(p, r) ==
  /\ ParsedRight(p, r) /\ r.flow \in FlowType
  /\ r.ok => p.version \in {4, 6} /\ p.len >= 20 /\ (p.version = 4 => p.ihl >= 5)

\* A refused packet is never let through.
LEMMA RefusedRight ==
  ASSUME NEW p, NEW reach \in Nat, reach <= p.len
  PROVE  ReadRight(p, Refused(reach))
BY DEF ReadRight, ParsedRight, Refused, Flow, FlowType

\* A fragment is reported without ports.
LEMMA FragmentRight ==
  ASSUME NEW p, NEW proto \in Nat, NEW reach \in Nat, reach <= p.len, ExtractIP(p), p.len >= 20,
         p.version = 4 => p.ihl >= 5
  PROVE  ReadRight(p, Parsed(Flow(proto), "Fragment", reach))
BY DEF ReadRight, ParsedRight, Parsed, Flow, FlowType, ExtractIP

\* What is read of the transport header is right of the packet it belongs to.
LEMMA WholeRight ==
  ASSUME NEW p, IsPacket(p), NEW r, Reads(p, OwnProto(p), OwnOffset(p), r), ~Later(p), ExtractIP(p), p.len >= 20,
         p.version = 4 => p.ihl >= 5
  PROVE  ReadRight(p, r)
BY DEF ReadRight, ParsedRight, Reads, ExtractIP

\* parseIPv4: options, fragments and transport headers that are cut short.
LEMMA IPv4Right ==
  ASSUME NEW p, IsPacket(p), p.version = 4, p.len >= 20
  PROVE  ReadRight(p, ParseIPv4(p))
<1> DEFINE flow == Flow(p.next)
<1>1. p.len \in Nat /\ p.ihl \in Nat /\ p.frag \in Nat /\ p.next \in Nat
  <2>1. p.len \in Nat /\ p.frag \in Nat /\ p.next \in Nat /\ p.ihl \in 0 .. 15
    BY PacketFields
  <2>2. QED
    BY <2>1
<1>2. ReadRight(p, Refused(1))
  BY <1>1, RefusedRight
<1>3. CASE p.ihl < 5 \/ p.len < 4 * p.ihl
  BY <1>1, <1>2, <1>3 DEF ParseIPv4
<1>4. CASE ~(p.ihl < 5 \/ p.len < 4 * p.ihl)
  <2>1. p.ihl >= 5 /\ p.len >= 4 * p.ihl /\ ExtractIP(p) /\ p.len >= 20 /\ 4 * p.ihl \in Nat /\ 4 * p.ihl <= p.len
    BY <1>1, <1>4 DEF ExtractIP
  <2>2. ReadRight(p, Parsed(flow, "Fragment", 20))
    BY <1>1, <2>1, FragmentRight
  <2>3. CASE p.frag > 0
    BY <1>4, <2>1, <2>2, <2>3 DEF ParseIPv4
  <2>4. CASE ~(p.frag > 0)
    <3>1. p.frag = 0 /\ ~Later(p) /\ OwnProto(p) = p.next /\ OwnOffset(p) = 4 * p.ihl
      BY <1>1, <2>4 DEF Later, OwnProto, OwnOffset
    <3>2. ReadRight(p, Parsed(flow, "Other", 20))
      <4>1. flow \in FlowType /\ flow.of = "own"
        BY <1>1 DEF Flow, FlowType
      <4>2. Reads(p, p.next, 4 * p.ihl, Parsed(flow, "Other", 20))
        BY <4>1, <2>1, OtherReads
      <4>3. QED
        BY <2>1, <3>1, <4>2, WholeRight
    <3>3. ReadRight(p, ParseTransport(p, flow, 4 * p.ihl))
      <4>1. Reads(p, p.next, 4 * p.ihl, ParseTransport(p, flow, 4 * p.ihl))
        BY <1>1, <2>1, TransportReads
      <4>2. QED
        BY <2>1, <3>1, <4>1, WholeRight
    <3>4. QED
      BY <1>4, <2>1, <2>2, <2>4, <3>1, <3>2, <3>3 DEF ParseIPv4
  <2>5. QED
    BY <2>3, <2>4
<1>5. QED
  BY <1>3, <1>4

\* The header at which the walk along the extension headers stops: nothing
\* before it ends the walk, and it starts within the packet.
LEMMA WalkStops ==
  ASSUME NEW p, IsPacket(p), p.version = 6, p.len >= 40
  PROVE  /\ Stop(p) \in 1 .. Len(p.exts) + 1 /\ EndsWalk(p, Stop(p))
         /\ \A i \in 1 .. Len(p.exts) + 1 : i < Stop(p) => ~EndsWalk(p, i)
         /\ Start(p)[Stop(p)] \in Nat /\ Start(p)[Stop(p)] <= p.len
<1> DEFINE n == Len(p.exts)
           T == {i \in 1 .. n + 1 : EndsWalk(p, i)}
           stop == Stop(p)
<1>1. n \in Nat /\ p.len \in Nat
  BY PacketFields
<1>2. n + 1 \in T
  <2>1. HeaderType(p, n + 1) \notin Extension
    BY <1>1 DEF IsPacket
  <2>2. QED
    BY <1>1, <2>1 DEF EndsWalk
<1>3. T \in SUBSET Nat
  BY <1>1
<1>4. stop \in T /\ \A i \in T : stop <= i
  <2>1. stop = Min(T)
    BY DEF Stop
  <2> HIDE DEF T, stop
  <2>2. QED
    BY <1>2, <1>3, <2>1, MinLeast
<1> HIDE DEF stop
<1>5. stop \in 1 .. n + 1 /\ EndsWalk(p, stop) /\ \A i \in 1 .. n + 1 : i < stop => ~EndsWalk(p, i)
  <2>1. stop \in 1 .. n + 1 /\ EndsWalk(p, stop)
    BY <1>4
  <2>2. ASSUME NEW i \in 1 .. n + 1, i < stop PROVE ~EndsWalk(p, i)
    <3>1. i \notin T
      <4> HIDE DEF T
      <4>1. QED
        BY <1>1, <1>4, <2>1, <2>2
    <3>2. QED
      BY <3>1
  <2>3. QED
    BY <2>1, <2>2
<1>6. Start(p)[stop] \in Nat /\ Start(p)[stop] <= p.len
  <2>1. CASE stop = 1
    BY <2>1, Starts
  <2>2. CASE stop # 1
    <3>1. stop - 1 \in 1 .. n /\ stop - 1 \in 1 .. n + 1 /\ stop - 1 < stop /\ (stop - 1) + 1 = stop
      BY <1>1, <1>5, <2>2
    <3>2. ~Truncated(p, stop - 1)
      BY <1>5, <3>1 DEF EndsWalk
    <3>3. Start(p)[stop] = Start(p)[stop - 1] + ExtSize(HeaderType(p, stop - 1), p.exts[stop - 1].units)
      BY <3>1, Starts
    <3>4. Start(p)[stop] \in Nat
      BY <1>5, Starts
    <3>5. QED
      BY <1>1, <3>2, <3>3, <3>4 DEF Truncated
  <2>3. QED
    BY <2>1, <2>2
<1>7. QED
  BY <1>5, <1>6 DEF stop

\* parseIPv6: each way the walk can end.
LEMMA IPv6Right ==
  ASSUME NEW p, IsPacket(p), p.version = 6
  PROVE  p.len >= 20 => ReadRight(p, ParseIPv6(p))
<1> SUFFICES ASSUME p.len >= 20 PROVE ReadRight(p, ParseIPv6(p))
  OBVIOUS
<1> DEFINE n == Len(p.exts)
           stop == Stop(p)
           at == Start(p)[stop]
           type == HeaderType(p, stop)
<1>1. n \in Nat /\ p.len \in Nat
  BY PacketFields
<1>2. CASE p.len < 40
  <2>1. ReadRight(p, Refused(1))
    BY <1>1, RefusedRight
  <2>2. QED
    BY <1>1, <1>2, <2>1 DEF ParseIPv6
<1>3. CASE ~(p.len < 40)
  <2>1. p.len >= 40 /\ ExtractIP(p)
    BY <1>1, <1>3 DEF ExtractIP
  <2>2. /\ stop \in 1 .. n + 1 /\ EndsWalk(p, stop)
        /\ \A i \in 1 .. n + 1 : i < stop => ~EndsWalk(p, i)
        /\ at \in Nat /\ at <= p.len
    BY <2>1, WalkStops
  <2>3. ParseIPv6(p) =
          CASE p.len < 40 -> Refused(1)
            [] p.len >= 40 /\ Exceeded(p, stop) -> Refused(at)
            [] p.len >= 40 /\ ~Exceeded(p, stop) /\ type \in Transport ->
                 IF at >= p.len THEN Refused(at) ELSE ParseTransport(p, Flow(type), at)
            [] p.len >= 40 /\ ~Exceeded(p, stop) /\ type \in Extension ->
                 IF Truncated(p, stop)
                 THEN Refused(IF type = Fragment \/ at + 2 > p.len THEN at ELSE at + 2)
                 ELSE Parsed(Flow(p.exts[stop].next), "Fragment", at + 4)
            [] OTHER -> Refused(at)
    BY DEF ParseIPv6
  <2> HIDE DEF stop, at, type
  <2>4. ReadRight(p, Refused(at))
    BY <2>2, RefusedRight
  <2>5. CASE type \in Extension
    <3>1. stop \in 1 .. n
      BY <1>1, <2>2, <2>5 DEF IsPacket, type
    <3>2. ReadRight(p, Refused(IF type = Fragment \/ at + 2 > p.len THEN at ELSE at + 2))
      BY <1>1, <2>2, <2>4, RefusedRight
    <3>3. ASSUME ~Exceeded(p, stop), ~Truncated(p, stop)
          PROVE  ReadRight(p, Parsed(Flow(p.exts[stop].next), "Fragment", at + 4))
      <4>1. type = Fragment
        BY <2>2, <2>5, <3>3 DEF EndsWalk, LaterFragment, type
      <4>2. at + 8 <= p.len
        <5>1. ExtSize(type, p.exts[stop].units) = 8
          BY <4>1 DEF ExtSize, Fragment
        <5>2. ~(at + ExtSize(type, p.exts[stop].units) > p.len)
          BY <3>3 DEF Truncated, at, type
        <5>3. QED
          BY <1>1, <2>2, <5>1, <5>2
      <4>3. p.exts[stop].next \in Nat
        BY <3>1, PacketFields
      <4>4. QED
        BY <1>1, <2>1, <2>2, <4>2, <4>3, FragmentRight
    <3>4. type \notin Transport
      BY <2>5 DEF Extension, Transport, ProtoICMP, ProtoICMPv6, ProtoTCP, ProtoUDP
    <3>5. QED
      BY <2>1, <2>3, <2>4, <2>5, <3>2, <3>3, <3>4, <1>3
  <2>6. CASE type \notin Extension
    <3>1. stop = n + 1
      BY <1>1, <2>2, <2>6 DEF IsPacket, type
    <3>2. ~Later(p)
      BY <1>1, <2>2, <3>1 DEF Later, EndsWalk
    <3>3. OwnProto(p) = type /\ OwnOffset(p) = at
      BY <3>1 DEF OwnProto, OwnOffset, type, at
    <3>4. ASSUME type \in Transport PROVE ReadRight(p, ParseTransport(p, Flow(type), at))
      <4>1. type \in Nat
        BY <3>4 DEF Transport, ProtoICMP, ProtoICMPv6, ProtoTCP, ProtoUDP
      <4>2. Reads(p, type, at, ParseTransport(p, Flow(type), at))
        BY <2>2, <4>1, TransportReads
      <4>3. QED
        BY <1>1, <2>1, <3>2, <3>3, <4>2, WholeRight
    <3>5. QED
      BY <2>1, <2>3, <2>4, <2>6, <3>4, <1>3
  <2>7. QED
    BY <2>5, <2>6
<1>4. QED
  BY <1>2, <1>3

\* What ParsePacket says of a packet is right, wherever it is cut.
LEMMA ParseRight ==
  ASSUME NEW p, IsPacket(p)
  PROVE  ReadRight(p, ParsePacket(p))
<1>1. p.len \in Nat
  BY PacketFields
<1>2. CASE p.len < 20
  BY <1>1, <1>2, RefusedRight DEF ParsePacket
<1>3. CASE ~(p.len < 20)
  <2>1. p.len >= 20 /\ ReadRight(p, Refused(1))
    BY <1>1, <1>3, RefusedRight
  <2>2. CASE p.version = 4
    BY <1>3, <2>1, <2>2, IPv4Right DEF ParsePacket
  <2>3. CASE p.version = 6
    BY <1>3, <2>1, <2>3, IPv6Right DEF ParsePacket
  <2>4. CASE p.version \notin {4, 6}
    BY <1>3, <2>1, <2>4 DEF ParsePacket
  <2>5. QED
    BY <2>2, <2>3, <2>4
<1>4. QED
  BY <1>2, <1>3

\* A packet is quoted with its own fields.
LEMMA QuoteTyped ==
  ASSUME NEW p, IsPacket(p)
  PROVE  AsQuoted(p) \in QuotedFields
<1>1. p.version \in Nat /\ p.ihl \in 0 .. 15 /\ p.next \in Nat /\ p.tp.sport \in Nat /\ p.tp.dport \in Nat
  BY PacketFields DEF TransportFields
<1>2. QED
  BY <1>1 DEF AsQuoted, QuotedFields

\* The size of the fixed header, where the transport header of an answer starts.
FixedSize(version) == IF version = 4 THEN 20 ELSE 40

\* An answer is a packet, and is read from its transport header.
LEMMA AnswerRead ==
  ASSUME NEW v \in {4, 6}, NEW next \in Transport, NEW size \in Nat, size >= 4, NEW tp \in TransportFields
  PROVE  LET a == Answer(v, next, size, tp)
         IN  /\ IsPacket(a) /\ a.tp = tp /\ a.len = FixedSize(v) + size
             /\ ParsePacket(a) = ParseTransport(a, Flow(next), FixedSize(v))
<1> DEFINE a == Answer(v, next, size, tp)
<1>1. /\ a.version = v /\ a.len = FixedSize(v) + size /\ a.payload = size /\ a.ihl = 5 /\ a.frag = 0
      /\ a.more = FALSE /\ a.next = next /\ a.exts = <<>> /\ a.tp = tp
  BY DEF Answer, FixedSize
<1>2. next \in Nat /\ next \notin Extension /\ FixedSize(v) \in Nat
  BY DEF Transport, Extension, ProtoICMP, ProtoICMPv6, ProtoTCP, ProtoUDP, FixedSize
<1>3. Len(a.exts) = 0 /\ HeaderType(a, 1) = next
  BY <1>1 DEF HeaderType
<1>4. IsPacket(a)
  <2>1. a \in [version : Nat, len : Nat, payload : Nat, ihl : 0 .. 15, frag : Nat, more : BOOLEAN,
               next : Nat, exts : Chain, tp : TransportFields]
    <3>1. <<>> \in Chain
      BY DEF Chain
    <3>2. QED
      BY <1>2, <3>1 DEF Answer, FixedSize
  <2>2. \A i \in 1 .. Len(a.exts) + 1 : HeaderType(a, i) \in Extension <=> i <= Len(a.exts)
    BY <1>2, <1>3
  <2>3. QED
    BY <2>1, <2>2 DEF IsPacket
<1> HIDE DEF a
<1>5. CASE v = 4
  <2>1. ParsePacket(a) = ParseIPv4(a)
    BY <1>1, <1>5 DEF ParsePacket, FixedSize
  <2>2. ParseIPv4(a) = ParseTransport(a, Flow(next), 20)
    BY <1>1, <1>5 DEF ParseIPv4, FixedSize
  <2>3. QED
    BY <1>1, <1>4, <1>5, <2>1, <2>2 DEF FixedSize, a
<1>6. CASE v = 6
  <2>1. ParsePacket(a) = ParseIPv6(a) /\ a.len >= 40 /\ a.len \in Nat
    BY <1>1, <1>6 DEF ParsePacket, FixedSize
  <2>2. Stop(a) = 1
    BY <1>1, <1>3, <1>4, <1>6, <2>1, WalkStops
  <2>3. Start(a)[1] = 40
    BY <1>4, Starts
  <2>4. ~Exceeded(a, 1) /\ ~(40 >= a.len)
    BY <1>1, <1>6, <2>3 DEF Exceeded, FixedSize
  <2>5. ParseIPv6(a) = ParseTransport(a, Flow(next), 40)
    BY <1>2, <1>3, <2>1, <2>2, <2>3, <2>4 DEF ParseIPv6
  <2>6. QED
    BY <1>1, <1>4, <1>6, <2>1, <2>5 DEF FixedSize, a
<1>7. QED
  BY <1>5, <1>6

\* Flows are equal when their fields are.
LEMMA FlowsEqual ==
  ASSUME NEW f \in FlowType, NEW g \in FlowType, f.proto = g.proto, f.sport = g.sport, f.dport = g.dport, f.of = g.of
  PROVE  f = g
BY DEF FlowType

\* The flow seen from its other end, and the flow of a quoted packet.
Turned(flow) == [flow EXCEPT !.sport = flow.dport, !.dport = flow.sport]
Named(flow, q) == WithPorts([flow EXCEPT !.proto = q.next, !.of = "quoted"], q)

\* A reset is read as the end of the connection, seen from its other end.
LEMMA ResetRight ==
  ASSUME NEW p, IsPacket(p), p.version \in {4, 6}, NEW flow \in FlowType, flow.of = "own", flow.proto = ProtoTCP
  PROVE  LET reject == BuildTCPRST(p, flow)
             a == ParsePacket(reject)
         IN  /\ IsPacket(reject) /\ a.ok /\ a.kind = "End"
             /\ a.flow = Turned(flow)
<1> DEFINE v == p.version
           tp == [sport |-> flow.dport, dport |-> flow.sport, off |-> 5, flags |-> {"rst"},
                  type |-> 0, code |-> 0, quote |-> AsQuoted(p)]
           reject == Answer(v, ProtoTCP, 20, tp)
           f == WithPorts(Flow(ProtoTCP), tp)
<1>1. BuildTCPRST(p, flow) = reject
  BY DEF BuildTCPRST, Version
<1>2. flow.sport \in Nat /\ flow.dport \in Nat
  BY DEF FlowType
<1>3. tp \in TransportFields
  BY <1>2, QuoteTyped DEF TransportFields
<1>4. /\ tp.sport = flow.dport /\ tp.dport = flow.sport /\ tp.off = 5 /\ tp.flags = {"rst"}
  OBVIOUS
<1> HIDE DEF tp
<1>5. /\ IsPacket(reject) /\ reject.tp = tp /\ reject.len = FixedSize(v) + 20 /\ FixedSize(v) \in Nat
      /\ ParsePacket(reject) = ParseTransport(reject, Flow(ProtoTCP), FixedSize(v))
  <2>1. ProtoTCP \in Transport /\ FixedSize(v) \in Nat
    BY DEF Transport, FixedSize
  <2>2. QED
    BY <1>3, <2>1, AnswerRead
<1> HIDE DEF reject
<1>6. ParsePacket(reject) = ParseTCP(reject, Flow(ProtoTCP), FixedSize(v))
  BY <1>5 DEF ParseTransport, Flow, ProtoTCP, ProtoUDP, ProtoICMP, ProtoICMPv6
<1>7. reject.len - FixedSize(v) = 20
  BY <1>5
<1>8. "syn" \notin tp.flags /\ {"fin", "rst"} \cap tp.flags # {}
  BY <1>4
<1>9. ParseTCP(reject, Flow(ProtoTCP), FixedSize(v)) = Parsed(f, "End", FixedSize(v) + 14)
  BY <1>4, <1>5, <1>7, <1>8 DEF ParseTCP
<1>10. f \in FlowType /\ f.of = "own" /\ f.proto = ProtoTCP /\ f.sport = flow.dport /\ f.dport = flow.sport
  <2>1. Flow(ProtoTCP) \in FlowType /\ Flow(ProtoTCP).of = "own" /\ Flow(ProtoTCP).proto = ProtoTCP
    BY DEF Flow, FlowType, ProtoTCP
  <2>2. QED
    BY <1>2, <1>4, <2>1 DEF FlowType, WithPorts
<1> HIDE DEF f
<1> DEFINE g == Turned(flow)
<1>11. g \in FlowType /\ g.of = "own" /\ g.proto = ProtoTCP /\ g.sport = flow.dport /\ g.dport = flow.sport
  BY <1>2 DEF FlowType, Turned
<1> HIDE DEF g
<1>12. f = g
  BY <1>10, <1>11, FlowsEqual
<1>13. ParsePacket(reject).ok /\ ParsePacket(reject).kind = "End" /\ ParsePacket(reject).flow = f
  BY <1>6, <1>9 DEF Parsed
<1>14. QED
  BY <1>1, <1>5, <1>12, <1>13 DEF g

\* A quote that has arrived as far as its ports names them.
LEMMA NamesV4 ==
  ASSUME NEW p, NEW flow, NEW at, NEW q, p.tp.quote = q, ~(q.ihl < 5), ~(p.len - at < 4 * q.ihl + 4),
         q.next = ProtoUDP
  PROVE  QuotedV4(p, flow, at).flow = Named(flow, q)
BY DEF QuotedV4, Parsed, Named

\* The same of an IPv6 packet.
LEMMA NamesV6 ==
  ASSUME NEW p, NEW flow, NEW at, NEW q, p.tp.quote = q, ~(p.len - at < 40), p.len - at >= 44,
         q.next = ProtoUDP
  PROVE  QuotedV6(p, flow, at).flow = Named(flow, q)
BY DEF QuotedV6, Parsed, Named

\* The other answer is read as an error, which names the ports of a packet
\* whose transport header follows the fixed one.
LEMMA ProhibitedRight ==
  ASSUME NEW p, IsPacket(p), p.version \in {4, 6}, p.len >= 20, p.version = 4 => p.ihl >= 5,
         NEW flow \in FlowType, flow.of = "own"
  PROVE  LET reject == BuildICMPAdminProhibited(p, flow)
             a == ParsePacket(reject)
             header == IF p.version = 4 THEN 4 * p.ihl ELSE 40
         IN  /\ IsPacket(reject) /\ a.ok /\ a.kind = "Error"
             /\ p.next = ProtoUDP /\ p.len >= header + 4 =>
                  a.flow = [proto |-> ProtoUDP, sport |-> p.tp.sport, dport |-> p.tp.dport, of |-> "quoted"]
<1> DEFINE v == p.version
           four == v = 4
           room == IF four THEN 576 - 28 ELSE 1280 - 48
           quoted == Min({p.len, room})
           proto == IF four THEN ProtoICMP ELSE ProtoICMPv6
           q == AsQuoted(p)
           tp == [sport |-> 0, dport |-> 0, off |-> 0, flags |-> {}, type |-> IF four THEN 3 ELSE 1,
                  code |-> IF four THEN 13 ELSE 1, quote |-> q]
           reject == Answer(v, proto, 8 + quoted, tp)
           header == IF p.version = 4 THEN 4 * p.ihl ELSE 40
           at == FixedSize(v) + 8
           f == Flow(proto)
<1>1. BuildICMPAdminProhibited(p, flow) = reject
  BY DEF BuildICMPAdminProhibited, Version
<1>2. p.len \in Nat /\ p.ihl \in 0 .. 15 /\ p.next \in Nat /\ p.tp.sport \in Nat /\ p.tp.dport \in Nat
  BY PacketFields DEF TransportFields
<1>3. q = [version |-> v, ihl |-> p.ihl, next |-> p.next, sport |-> p.tp.sport, dport |-> p.tp.dport]
  BY DEF AsQuoted
<1>4. tp \in TransportFields
  BY QuoteTyped DEF TransportFields
<1>5. tp.quote = q /\ tp.type = (IF four THEN 3 ELSE 1)
  OBVIOUS
<1> HIDE DEF q, tp
<1>6. room \in Nat /\ room >= 548
  OBVIOUS
<1> HIDE DEF room
<1>7. quoted \in {p.len, room} /\ quoted \in Nat
  <2>1. {p.len, room} \in SUBSET Nat /\ {p.len, room} # {}
    BY <1>2, <1>6
  <2>2. QED
    BY <2>1, MinLeast
<1> HIDE DEF quoted
<1>8. quoted >= 20 /\ (p.len >= header + 4 => quoted >= header + 4)
  BY <1>2, <1>6, <1>7
<1>9. proto \in Transport /\ proto \in Nat /\ FixedSize(v) \in Nat
  BY DEF Transport, FixedSize, ProtoICMP, ProtoICMPv6
<1>10. /\ IsPacket(reject) /\ reject.tp = tp /\ reject.len = FixedSize(v) + (8 + quoted)
       /\ ParsePacket(reject) = ParseTransport(reject, f, FixedSize(v))
  <2> HIDE DEF proto
  <2>1. 8 + quoted \in Nat /\ 8 + quoted >= 4
    BY <1>7
  <2>2. QED
    BY <1>4, <1>9, <2>1, AnswerRead
<1> HIDE DEF reject
<1>11. reject.len - FixedSize(v) = 8 + quoted /\ reject.len - at = quoted
  BY <1>7, <1>9, <1>10
<1>12. f.proto = proto
  BY DEF Flow
<1>13. ParsePacket(reject) = ParseICMP(reject, f, FixedSize(v))
  BY <1>10, <1>12 DEF ParseTransport, ProtoTCP, ProtoUDP, ProtoICMP, ProtoICMPv6
<1> HIDE DEF f
<1>14. tp.type # EchoRequest(proto) /\ tp.type \in ErrorType(proto)
  BY <1>5 DEF EchoRequest, ErrorType, ProtoICMP, ProtoICMPv6
<1> HIDE DEF proto
<1>15. ParsePacket(reject) = ParseICMPError(reject, f, FixedSize(v))
  <2>1. ~(8 + quoted < 4) /\ 8 + quoted >= 4
    BY <1>7
  <2>2. QED
    BY <1>10, <1>11, <1>12, <1>13, <1>14, <2>1 DEF ParseICMP
<1>16. q.version = v /\ q.ihl = p.ihl /\ q.next = p.next /\ q.sport = p.tp.sport /\ q.dport = p.tp.dport
  BY <1>3
<1>17. ~(8 + quoted < 28) /\ 8 + quoted >= 28
  BY <1>7, <1>8
<1>18. /\ ParsePacket(reject).ok /\ ParsePacket(reject).kind = "Error"
       /\ p.next = ProtoUDP /\ p.len >= header + 4 => ParsePacket(reject).flow = Named(f, q)
  <2> HIDE DEF at
  <2>1. CASE v = 4
    <3>1. ParsePacket(reject) = QuotedV4(reject, f, at)
      BY <1>5, <1>10, <1>11, <1>15, <1>16, <1>17, <2>1 DEF ParseICMPError, at
    <3>2. ParsePacket(reject).ok /\ ParsePacket(reject).kind = "Error"
      BY <3>1 DEF QuotedV4, Parsed
    <3>3. ASSUME p.next = ProtoUDP, p.len >= header + 4
          PROVE  ParsePacket(reject).flow = Named(f, q)
      <4>1. ~(q.ihl < 5) /\ ~(quoted < 4 * q.ihl + 4)
        BY <1>2, <1>7, <1>8, <1>16, <2>1, <3>3
      <4>2. QED
        BY <1>5, <1>10, <1>11, <1>16, <3>1, <3>3, <4>1, NamesV4
    <3>4. QED
      BY <3>2, <3>3
  <2>2. CASE v = 6
    <3>1. ParsePacket(reject) = QuotedV6(reject, f, at)
      BY <1>5, <1>10, <1>11, <1>15, <1>16, <1>17, <2>2 DEF ParseICMPError, at
    <3>2. ParsePacket(reject).ok /\ ParsePacket(reject).kind = "Error"
      BY <3>1 DEF QuotedV6, Parsed
    <3>3. ASSUME p.next = ProtoUDP, p.len >= header + 4
          PROVE  ParsePacket(reject).flow = Named(f, q)
      <4>1. ~(quoted < 40) /\ quoted >= 44
        BY <1>2, <1>7, <1>8, <2>2, <3>3
      <4>2. QED
        BY <1>5, <1>10, <1>11, <1>16, <3>1, <3>3, <4>1, NamesV6
    <3>4. QED
      BY <3>2, <3>3
  <2>3. QED
    BY <2>1, <2>2
<1>19. ASSUME p.next = ProtoUDP
       PROVE  Named(f, q) = [proto |-> ProtoUDP, sport |-> p.tp.sport, dport |-> p.tp.dport, of |-> "quoted"]
  <2>1. f \in FlowType
    BY <1>9 DEF f, Flow, FlowType
  <2> DEFINE named == [f EXCEPT !.proto = q.next, !.of = "quoted"]
  <2>2. named \in FlowType /\ named.proto = p.next /\ named.of = "quoted"
    BY <1>2, <1>16, <2>1 DEF FlowType
  <2> HIDE DEF named
  <2> DEFINE w == WithPorts(named, q)
             u == [proto |-> ProtoUDP, sport |-> p.tp.sport, dport |-> p.tp.dport, of |-> "quoted"]
  <2>3. /\ w \in FlowType /\ w.proto = p.next /\ w.of = "quoted" /\ w.sport = p.tp.sport /\ w.dport = p.tp.dport
    BY <1>2, <1>16, <2>2 DEF FlowType, WithPorts
  <2>4. u \in FlowType /\ u.proto = p.next /\ u.of = "quoted" /\ u.sport = p.tp.sport /\ u.dport = p.tp.dport
    BY <1>2, <1>19 DEF FlowType, ProtoUDP
  <2> HIDE DEF w, u
  <2>5. w = u
    BY <2>3, <2>4, FlowsEqual
  <2>6. QED
    BY <2>5 DEF w, u, named, Named
<1>20. QED
  BY <1>1, <1>10, <1>18, <1>19

\* The answer to a refused packet says what RejectedRight asks.
LEMMA RejectRight ==
  ASSUME NEW p, IsPacket(p), NEW r, ReadRight(p, r)
  PROVE  RejectedRight(p, r)
<1> SUFFICES ASSUME r.ok, r.flow.of = "own"
             PROVE  LET reject == SendReject(p, r.flow)
                        a == ParsePacket(reject)
                    IN  /\ a.ok /\ ParsedRight(reject, a)
                        /\ IF r.flow.proto = ProtoTCP
                           THEN a.kind = "End" /\ a.flow = [r.flow EXCEPT !.sport = r.flow.dport, !.dport = r.flow.sport]
                           ELSE /\ a.kind = "Error"
                                /\ r.kind = "Start" /\ r.flow.proto = ProtoUDP /\ p.exts = <<>> =>
                                     a.flow = [r.flow EXCEPT !.of = "quoted"]
  BY DEF RejectedRight
<1> DEFINE reject == SendReject(p, r.flow)
           a == ParsePacket(reject)
<1>1. /\ p.version \in {4, 6} /\ p.len >= 20 /\ (p.version = 4 => p.ihl >= 5)
      /\ r.flow \in FlowType /\ ParsedRight(p, r)
  BY DEF ReadRight
<1>2. IsPacket(reject) => ParsedRight(reject, a)
  BY ParseRight DEF ReadRight
<1>3. CASE r.flow.proto = ProtoTCP
  <2>1. reject = BuildTCPRST(p, r.flow)
    BY <1>3 DEF SendReject
  <2>2. IsPacket(reject) /\ a.ok /\ a.kind = "End"
          /\ a.flow = [r.flow EXCEPT !.sport = r.flow.dport, !.dport = r.flow.sport]
    <3> DEFINE b == BuildTCPRST(p, r.flow)
    <3>1. /\ IsPacket(b) /\ ParsePacket(b).ok /\ ParsePacket(b).kind = "End"
          /\ ParsePacket(b).flow = Turned(r.flow)
      BY <1>1, <1>3, ResetRight
    <3>2. QED
      BY <2>1, <3>1 DEF Turned
  <2>3. QED
    BY <1>2, <1>3, <2>2
<1>4. CASE r.flow.proto # ProtoTCP
  <2> DEFINE header == IF p.version = 4 THEN 4 * p.ihl ELSE 40
  <2>1. reject = BuildICMPAdminProhibited(p, r.flow)
    BY <1>4 DEF SendReject
  <2>2. /\ IsPacket(reject) /\ a.ok /\ a.kind = "Error"
        /\ p.next = ProtoUDP /\ p.len >= header + 4 =>
             a.flow = [proto |-> ProtoUDP, sport |-> p.tp.sport, dport |-> p.tp.dport, of |-> "quoted"]
    BY <1>1, <2>1, ProhibitedRight
  <2> HIDE DEF reject
  <2>3. ASSUME r.kind = "Start", r.flow.proto = ProtoUDP, p.exts = <<>>
        PROVE  a.flow = [r.flow EXCEPT !.of = "quoted"]
    <3>1. OwnProto(p) = p.next /\ OwnOffset(p) = header
      <4>1. CASE p.version = 4
        BY <4>1 DEF OwnProto, OwnOffset
      <4>2. CASE p.version = 6
        <5>1. Len(p.exts) + 1 = 1 /\ Start(p)[1] = 40
          BY <2>3, Starts
        <5>2. QED
          BY <4>2, <5>1 DEF OwnProto, OwnOffset, HeaderType
      <4>3. QED
        BY <1>1, <4>1, <4>2
    <3>2. /\ p.next = ProtoUDP /\ p.len >= header + 4
          /\ r.flow.sport = p.tp.sport /\ r.flow.dport = p.tp.dport
      BY <1>1, <2>3, <3>1 DEF ParsedRight
    <3> DEFINE u == [proto |-> ProtoUDP, sport |-> p.tp.sport, dport |-> p.tp.dport, of |-> "quoted"]
               g == [r.flow EXCEPT !.of = "quoted"]
    <3>3. a.flow = u
      BY <2>2, <3>2
    <3>4. r.flow.sport \in Nat /\ r.flow.dport \in Nat
      BY <1>1 DEF FlowType
    <3>5. u \in FlowType /\ u.proto = ProtoUDP /\ u.of = "quoted" /\ u.sport = r.flow.sport /\ u.dport = r.flow.dport
      BY <3>2, <3>4 DEF FlowType, ProtoUDP
    <3>6. g \in FlowType /\ g.proto = ProtoUDP /\ g.of = "quoted" /\ g.sport = r.flow.sport /\ g.dport = r.flow.dport
      BY <1>1, <2>3 DEF FlowType
    <3> HIDE DEF u, g
    <3>7. u = g
      BY <3>5, <3>6, FlowsEqual
    <3>8. QED
      BY <3>3, <3>7 DEF g
  <2>4. QED
    BY <1>2, <1>4, <2>2, <2>3 DEF reject
<1>5. QED
  BY <1>3, <1>4

\* However many packets there are, of whatever fields and chains of extension
\* headers, and wherever each is cut: ParsePacket reads nothing past the last
\* byte and reports only ports that are there, and the packet with which
\* sendReject answers is read as the end of the connection or an error about it.
THEOREM PacketsParsedRight == Spec => []ParseMeets
<1>1. Misparsed = {}
  <2>1. ASSUME NEW p \in Packets
        PROVE  ParsedRight(p, ParsePacket(p)) /\ RejectedRight(p, ParsePacket(p))
    <3>1. IsPacket(p)
      BY PacketAssumption
    <3>2. ReadRight(p, ParsePacket(p))
      BY <3>1, ParseRight
    <3>3. QED
      BY <3>1, <3>2, RejectRight DEF ReadRight
  <2>2. QED
    BY <2>1 DEF Misparsed
<1>2. ParseMeets
  BY <1>1 DEF ParseMeets
<1>3. QED
  BY <1>2, PTL
=============================================================================
