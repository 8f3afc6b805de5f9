------------------------------- MODULE Session -------------------------------
(***************************************************************************)
(* One direction of a session (internal/session/session.go, window.go):    *)
(* the sending end draws nonces from a shared counter, the network loses,  *)
(* repeats and reorders packets, and the goroutines of the receiving end   *)
(* open packets against the sliding replay window.  Decrypt looks at the   *)
(* window twice, with the mutex released between the two looks.            *)
(*                                                                         *)
(* The AEAD is left out: a packet is genuine or it is not.  The bitmap's   *)
(* words are left out: a bit is addressed by its position in the window.   *)
(***************************************************************************)
EXTENDS Integers

CONSTANTS
  Reader,          \* goroutines calling Decrypt
  WindowSize,
  RekeyThreshold

ASSUME WindowAssumption == WindowSize \in Nat \ {0}
ASSUME ThresholdAssumption == RekeyThreshold \in Nat

VARIABLES
  sendNonce,  \* the sender's counter
  sent,       \* nonces of the packets the sender has put on the wire
  window,     \* the receiver's replay window
  reader,     \* what each reader is doing
  delivered   \* how often the packet of each nonce was handed on

vars == <<sendNonce, sent, window, reader, delivered>>

Nonce == 0 .. RekeyThreshold - 1
Position == 0 .. WindowSize - 1

Window == [inited: BOOLEAN, max: Nat, bitmap: [Position -> BOOLEAN]]
ReaderState == [pc: {"idle", "opening"}, nonce: Nat, genuine: BOOLEAN]

Idle == [pc |-> "idle", nonce |-> 0, genuine |-> FALSE]

Init ==
  /\ sendNonce = 0
  /\ sent = {}
  /\ window = [inited |-> FALSE, max |-> 0, bitmap |-> [i \in Position |-> FALSE]]
  /\ reader = [r \in Reader |-> Idle]
  /\ delivered = [n \in Nonce |-> 0]
-----------------------------------------------------------------------------
(***************************************************************************)
(* The window.                                                             *)
(***************************************************************************)
GetBit(w, n) == w.bitmap[n % WindowSize]

Check(w, n) ==
  \/ ~w.inited
  \/ n > w.max
  \/ w.max - n < WindowSize /\ ~GetBit(w, n)

\* Mutant: a jump past the whole window clears no bits.
ClearedNoJump(w, n) ==
  IF n - w.max >= WindowSize THEN {}
  ELSE {(w.max + i) % WindowSize : i \in 1 .. (n - w.max)}

\* The positions an advance of the window to n clears.
Cleared(w, n) ==
  IF n - w.max >= WindowSize THEN Position
  ELSE {(w.max + i) % WindowSize : i \in 1 .. (n - w.max)}

\* The window once checkAndMark has accepted n.
Marked(w, n) ==
  LET max == IF w.inited /\ n <= w.max THEN w.max ELSE n
      stale == IF w.inited /\ n > w.max THEN Cleared(w, n) ELSE {}
  IN [inited |-> TRUE, max |-> max,
      bitmap |-> [i \in Position |-> i = n % WindowSize \/ (w.bitmap[i] /\ i \notin stale)]]
-----------------------------------------------------------------------------
(***************************************************************************)
(* Encrypt and Decrypt.                                                    *)
(***************************************************************************)
\* Mutant: one packet more than the threshold allows.
EncryptOneMore ==
  /\ sendNonce <= RekeyThreshold
  /\ sendNonce' = sendNonce + 1
  /\ sent' = sent \cup {sendNonce}
  /\ UNCHANGED <<window, reader, delivered>>

\* The counter goes up even when ErrRekeyRequired is returned; how far past the
\* threshold it goes shows in nothing, and the model stops one past it.
Encrypt ==
  /\ sendNonce <= RekeyThreshold
  /\ sendNonce' = sendNonce + 1
  /\ sent' = IF sendNonce >= RekeyThreshold THEN sent ELSE sent \cup {sendNonce}
  /\ UNCHANGED <<window, reader, delivered>>

\* The first look, without a mark.  A packet the network makes up carries any
\* nonce and is not genuine.
Look(r, n, genuine) ==
  /\ reader[r].pc = "idle"
  /\ genuine => n \in sent
  /\ n < RekeyThreshold
  /\ Check(window, n)
  /\ reader' = [reader EXCEPT ![r] =
                  [pc |-> "opening", nonce |-> n, genuine |-> genuine]]
  /\ UNCHANGED <<sendNonce, sent, window, delivered>>

\* Decrypt returns at its first look: a nonce beyond the threshold, repeated, or
\* too old.
LookRejects(r, n) ==
  /\ reader[r].pc = "idle"
  /\ n >= RekeyThreshold \/ ~Check(window, n)
  /\ UNCHANGED vars

\* The packet does not authenticate: the window stays as it is.
AuthFails(r) ==
  /\ reader[r].pc = "opening" /\ ~reader[r].genuine
  /\ reader' = [reader EXCEPT ![r] = Idle]
  /\ UNCHANGED <<sendNonce, sent, window, delivered>>

\* Mutant: the result of the second look is ignored.
MarkUnchecked(r) ==
  /\ reader[r].pc = "opening" /\ reader[r].genuine
  /\ window' = Marked(window, reader[r].nonce)
  /\ delivered' = [delivered EXCEPT ![reader[r].nonce] = @ + 1]
  /\ reader' = [reader EXCEPT ![r] = Idle]
  /\ UNCHANGED <<sendNonce, sent>>

\* The packet authenticates: checkAndMark, and the packet is handed on if the
\* window still accepts its nonce.
Mark(r) ==
  /\ reader[r].pc = "opening" /\ reader[r].genuine
  /\ LET n == reader[r].nonce IN
     \/ /\ Check(window, n)
        /\ window' = Marked(window, n)
        /\ delivered' = [delivered EXCEPT ![n] = @ + 1]
     \/ /\ ~Check(window, n)
        /\ UNCHANGED <<window, delivered>>
  /\ reader' = [reader EXCEPT ![r] = Idle]
  /\ UNCHANGED <<sendNonce, sent>>

Next ==
  \/ Encrypt
  \/ \E r \in Reader :
       \/ \E n \in 0 .. RekeyThreshold :
            \/ \E genuine \in BOOLEAN : Look(r, n, genuine)
            \/ LookRejects(r, n)
       \/ AuthFails(r)
       \/ Mark(r)

Spec == Init /\ [][Next]_vars
-----------------------------------------------------------------------------
(***************************************************************************)
(* Properties.                                                             *)
(***************************************************************************)
\* The window, the counter and the readers have their types, and no nonce at or
\* beyond the rekey threshold is ever on the wire.
TypeOK ==
  /\ sendNonce \in Nat
  /\ sent \subseteq Nonce
  /\ window \in Window
  /\ reader \in [Reader -> ReaderState]
  /\ \A r \in Reader : reader[r].pc = "opening" => reader[r].nonce \in Nonce
  /\ delivered \in [Nonce -> Nat]

\* No packet is handed on twice, however often the network repeats it and
\* however the two looks of concurrent readers interleave.
NoReplay == \A n \in Nonce : delivered[n] <= 1

\* The window accepts exactly the nonces not handed on yet that are ahead of it
\* or fewer than WindowSize behind its newest: reordering within the window
\* never loses a packet, and bits left from older nonces never count.
WindowExact ==
  \A n \in Nonce : Check(window, n) <=>
    /\ delivered[n] = 0
    /\ window.inited => n > window.max - WindowSize
=============================================================================
