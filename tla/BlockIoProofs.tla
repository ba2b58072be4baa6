---------------------------- MODULE BlockIoProofs ----------------------------
(***************************************************************************)
(* Proofs about a request on an exported object, for any number of parts   *)
(* it is split into and any number of bios below each.                     *)
(*                                                                         *)
(* EndsExact looks at the request when it has ended.  The invariant says   *)
(* why the count of the master cannot reach zero earlier, or twice: it is  *)
(* the number of those that will still decrement it (Counting), and where  *)
(* a failure is remembered until the request is ended with it (Errors).    *)
(***************************************************************************)
EXTENDS BlockIo, TLAPS

\* The bounds are numbers, and a request with data has a part.
BoundsNat == MaxParts \in Nat /\ MaxBios \in Nat

Active == {"submitted", "forwarding", "sent", "ending"}
States == Active \cup {"none", "done"}
IoRec == [st : States, count : Int, bios : Int, sent : Int, err : BOOLEAN]
CallerRec == [at : {"none", "load", "store", "dec"}, seen : BOOLEAN, err : BOOLEAN]
MasterRec == [alive : BOOLEAN, remaining : Int, error : BOOLEAN]

Typed ==
    /\ flush \in BOOLEAN /\ payload \in {"none", "data", "discard"}
    /\ ~(flush /\ payload = "discard")
    /\ pc \in {"submit", "deferred", "deferred noflush", "handle", "noflush",
               "split", "wait", "ended"}
    /\ left \in Nat
    /\ io \in [Ios -> IoRec]
    /\ master \in MasterRec
    /\ cpl \in [Callers -> CallerRec]
    /\ ends \in {<<>>, <<TRUE>>, <<FALSE>>}
    /\ failed \in BOOLEAN /\ lost \in BOOLEAN

\* The references of an I/O's token are its bios and the loop that sends
\* them, and an I/O has an error only once it is forwarded or ended.
TokenOK(i, t) ==
    /\ t.bios >= 0
    /\ t.count = t.bios + (IF t.st = "forwarding" THEN 1 ELSE 0)
    /\ t.st \in {"none", "submitted", "ending", "done"} => t.bios = 0
    /\ i = Flush /\ t.st = "forwarding" => t.bios = 0
    /\ t.st \in {"none", "submitted"} => ~t.err
    /\ t.st = "sent" => t.bios > 0

\* Those that will still decrement master->remaining: the loop, the parts
\* under way and the callers of blkdev_complete_data_master.
Busy(c) ==
    \/ c = 0 /\ pc = "split"
    \/ cpl[c].at # "none"
    \/ c \in Parts /\ io[c].st \in Active
Out == {c \in Callers : Busy(c)}

\* The parts submitted are the first n, and there is room for those left.
Numbered ==
    \E n \in Nat : /\ n <= MaxParts
                   /\ \A p \in Parts : io[p].st # "none" <=> p <= n
                   /\ pc = "split" => n + left <= MaxParts /\ n + left > 0

NothingOut == ~master.alive /\ (\A c \in Callers : cpl[c] = Idle) /\ ~master.error
NoParts == \A p \in Parts : io[p].st = "none"

\* What is under way at each position of the request.
Positions ==
    /\ pc \in {"submit", "deferred", "handle"} =>
          io[Flush].st = "none" /\ io[Discard].st = "none" /\ NoParts /\ NothingOut
    /\ pc \in {"noflush", "deferred noflush"} =>
          /\ io[Flush].st = (IF flush THEN "done" ELSE "none") /\ ~io[Flush].err
          /\ io[Discard].st = "none" /\ NoParts /\ NothingOut
    /\ pc \in {"split", "wait"} /\ (master.alive \/ pc = "split") =>
          /\ io[Flush].st = (IF flush THEN "done" ELSE "none") /\ ~io[Flush].err
          /\ io[Discard].st = "none"
    /\ pc = "split" => cpl[0] = Idle /\ (NoParts => NothingOut) /\ (~NoParts => master.alive)
    /\ pc = "wait" /\ ~master.alive =>
          /\ NoParts /\ NothingOut
          /\ io[Discard].st = "none" \/ (io[Flush].st = "none" /\ ~flush)
          /\ io[Flush].st \in Active \/ io[Discard].st \in Active
    /\ pc = "ended" => /\ io[Flush].st \in {"none", "done"} /\ io[Discard].st \in {"none", "done"}
                       /\ NothingOut /\ \A p \in Parts : io[p].st \in {"none", "done"}
    /\ ends # <<>> <=> pc = "ended"
    /\ io[Flush].st # "none" => flush
    /\ pc = "ended" /\ flush /\ ~NoParts => io[Flush].st = "done" /\ ~io[Flush].err

\* The count of the master.
Counting ==
    /\ master.alive => /\ pc \in {"split", "wait"} /\ ~NoParts
                       /\ master.remaining = Cardinality(Out) /\ master.remaining > 0
    /\ \A p \in Parts : cpl[p].at # "none" => io[p].st = "done"
    /\ \A c \in Callers : cpl[c].at = "none" => cpl[c] = Idle

\* Where an error is on its way to the end of the request.
Remembered ==
    \/ master.error
    \/ ends = <<TRUE>>
    \/ \E c \in Callers : cpl[c].at \in {"load", "store"} /\ cpl[c].err
    \/ \E i \in Ios : io[i].st # "done" /\ io[i].err

\* Errors come from failures, and a failure is remembered.
Errors ==
    /\ master.error => failed
    /\ ends = <<TRUE>> => failed
    /\ \A c \in Callers : cpl[c].seen \/ cpl[c].err => failed
    /\ \A i \in Ios : io[i].err => failed
    /\ failed /\ ~lost => Remembered

Shape == Typed /\ ~ioFault /\ (\A i \in Ios : TokenOK(i, io[i])) /\ Numbered /\ Positions /\ Counting

\* The inductive invariant.
IoInv == Shape /\ Errors

-----------------------------------------------------------------------------
(* The I/Os and the callers.                                               *)

LEMMA Names ==
  ASSUME BoundsNat
  PROVE  /\ Parts \subseteq Ios /\ Flush \in Ios /\ Discard \in Ios
         /\ \A i \in Ios : i \in Parts \/ i = Flush \/ i = Discard
         /\ Flush \notin Parts /\ Discard \notin Parts /\ Flush # Discard
         /\ Parts \subseteq Callers /\ 0 \in Callers /\ 0 \notin Parts
         /\ \A c \in Callers : c \in Parts \/ c = 0
  BY DEF BoundsNat, Ios, Parts, Callers, Flush, Discard

LEMMA PartNumbers ==
  ASSUME BoundsNat
  PROVE  /\ \A p \in Parts : p \in Nat /\ p > 0 /\ ~(p <= 0) /\ p <= MaxParts
         /\ 0 \in Nat /\ 0 <= MaxParts
  BY DEF BoundsNat, Parts

(* What the lemmas use of finite sets.  They assume it and the theorems     *)
(* discharge it, so that the library's theorems are not in the way of every *)
(* step.                                                                    *)
SetFacts ==
    /\ \A n \in Nat : IsFiniteSet(1 .. n) /\ Cardinality(1 .. n) = n
    /\ \A S : IsFiniteSet(S) => \A T \in SUBSET S : IsFiniteSet(T) /\ Cardinality(T) \in Nat
    /\ Cardinality({}) = 0 /\ \A x : Cardinality({x}) = 1
    /\ \A S : IsFiniteSet(S) /\ Cardinality(S) = 1 => \E x : S = {x}
    /\ \A S, x : IsFiniteSet(S) =>
          /\ IsFiniteSet(S \cup {x})
          /\ x \notin S => Cardinality(S \cup {x}) = Cardinality(S) + 1
          /\ x \in S => Cardinality(S \ {x}) = Cardinality(S) - 1

LEMMA OutFinite ==
  ASSUME SetFacts, BoundsNat
  PROVE  IsFiniteSet(Out) /\ Cardinality(Out) \in Nat
<1>1. IsFiniteSet(1 .. MaxParts)
  BY DEF BoundsNat, SetFacts
<1>2. IsFiniteSet(Callers)
  BY <1>1, Zenon DEF Callers, Parts, SetFacts
<1> QED  BY <1>2 DEF Out, SetFacts

LEMMA Initial == ASSUME BoundsNat PROVE IoInit => IoInv
<1> SUFFICES ASSUME IoInit PROVE IoInv
  OBVIOUS
<1> USE Names
<1>1. NoIo \in IoRec /\ Idle \in CallerRec
  BY DEF NoIo, Idle, IoRec, CallerRec, Active, States
<1>2. Typed /\ ~ioFault
  <2>1. io \in [Ios -> IoRec] /\ cpl \in [Callers -> CallerRec]
    BY <1>1 DEF IoInit
  <2>2. master \in MasterRec /\ left \in Nat
    BY DEF IoInit, MasterRec
  <2> QED  BY <2>1, <2>2, Zenon DEF IoInit, Typed
<1>3. \A i \in Ios : TokenOK(i, io[i]) /\ io[i].st = "none" /\ ~io[i].err
  BY DEF IoInit, TokenOK, NoIo
<1>4. Numbered
  <2>1. (\A p \in Parts : io[p].st # "none" <=> p <= 0) /\ pc # "split"
    BY <1>3, PartNumbers DEF IoInit
  <2> QED  BY <2>1, PartNumbers DEF Numbered
<1>5. NothingOut /\ NoParts
  BY <1>3 DEF IoInit, NothingOut, NoParts
<1>6. Positions
  BY <1>3, <1>5 DEF IoInit, Positions
<1>7. Counting /\ Errors
  BY <1>3 DEF IoInit, Counting, Errors, Idle
<1> QED  BY <1>2, <1>3, <1>4, <1>6, <1>7 DEF IoInv, Shape

-----------------------------------------------------------------------------
(* Below: an I/O that is under way stays so.                               *)

\* The error e is added to an I/O that stays under way, or one is dropped (d).
LEMMA UnderWayOrDropped ==
  ASSUME IoInv, BoundsNat, NEW i \in Ios, NEW r \in IoRec, NEW e \in BOOLEAN,
         NEW d \in BOOLEAN,
         io' = [io EXCEPT ![i] = r], io[i].st \in Active, r.st \in Active,
         TokenOK(i, r), r.err = (io[i].err \/ e), failed' = (failed \/ e \/ d),
         lost' = (lost \/ d),
         UNCHANGED <<flush, payload, pc, left, master, cpl, ends, ioFault>>
  PROVE  IoInv'
<1> USE Names DEF IoInv, Shape
<1>1. /\ io' \in [Ios -> IoRec] /\ io'[i] = r
      /\ \A j \in Ios \ {i} : io'[j] = io[j]
  BY Zenon DEF Typed
<1>2. /\ \A j \in Ios : io'[j].st = "none" <=> io[j].st = "none"
      /\ \A j \in Ios : io'[j].st = "done" <=> io[j].st = "done"
      /\ \A j \in Ios : io'[j].st \in Active <=> io[j].st \in Active
      /\ \A j \in Ios : io[j].err => io'[j].err
      /\ \A j \in Ios : io'[j].st \in {"none", "done"} => io'[j].err = io[j].err
  BY <1>1, ZenonT(60) DEF Active
<1>3. Typed' /\ ~ioFault'
  BY <1>1, <1>2, ZenonT(60) DEF Typed
<1>4. \A j \in Ios : TokenOK(j, io[j])'
  BY <1>1 DEF TokenOK
<1>5. Numbered'
  BY <1>2 DEF Numbered
<1>6. (NoParts' <=> NoParts) /\ (NothingOut' <=> NothingOut)
  BY <1>2 DEF NoParts, NothingOut
<1>7. Positions'
  BY <1>2, <1>6, ZenonT(60) DEF Positions
<1>8. Out' = Out
  BY <1>2 DEF Out, Busy
<1>9. Counting'
  BY <1>2, <1>6, <1>8 DEF Counting
<1>10. Errors'
  <2>1. \A j \in Ios : io'[j].err => failed'
    BY <1>1, Zenon DEF Errors
  <2>2. e => Remembered'
    BY <1>1, Zenon DEF Remembered, Active
  <2>3. Remembered => Remembered'
    BY <1>2, Zenon DEF Remembered
  <2> QED  BY <1>2, <2>1, <2>2, <2>3, Zenon DEF Errors
<1> QED  BY <1>3, <1>4, <1>5, <1>7, <1>9, <1>10

LEMMA UnderWay ==
  ASSUME IoInv, BoundsNat, NEW i \in Ios, NEW r \in IoRec, NEW e \in BOOLEAN,
         io' = [io EXCEPT ![i] = r], io[i].st \in Active, r.st \in Active,
         TokenOK(i, r), r.err = (io[i].err \/ e), failed' = (failed \/ e),
         UNCHANGED <<fixed, pc, left, master, cpl, ends, ioFault>>
  PROVE  IoInv'
<1>1. failed' = (failed \/ e \/ FALSE) /\ lost' = (lost \/ FALSE)
  BY Zenon DEF fixed, IoInv, Shape, Typed
<1>2. UNCHANGED <<flush, payload, pc, left, master, cpl, ends, ioFault>>
  BY Zenon DEF fixed
<1> QED  BY <1>1, <1>2, UnderWayOrDropped, Zenon

\* An I/O with some of its fields changed.
Has(r, s, c, b, e) == r \in IoRec /\ r.st = s /\ r.count = c /\ r.bios = b /\ r.err = e

LEMMA Fields ==
  ASSUME NEW t \in IoRec
  PROVE  /\ t.st \in States /\ t.count \in Int /\ t.bios \in Int /\ t.sent \in Int
         /\ t.err \in BOOLEAN
  BY DEF IoRec

LEMMA SetStCount ==
  ASSUME NEW t \in IoRec, NEW s \in States, NEW c \in Int
  PROVE  Has([t EXCEPT !.st = s, !.count = c], s, c, t.bios, t.err)
  BY Zenon DEF Has, IoRec

LEMMA SetStErr ==
  ASSUME NEW t \in IoRec, NEW s \in States, NEW e \in BOOLEAN
  PROVE  Has([t EXCEPT !.st = s, !.err = e], s, t.count, t.bios, e)
  BY Zenon DEF Has, IoRec

LEMMA SetSent ==
  ASSUME NEW t \in IoRec, NEW b \in Int, NEW n \in Int, NEW c \in Int
  PROVE  Has([t EXCEPT !.bios = b, !.sent = n, !.count = c], t.st, c, b, t.err)
  BY Zenon DEF Has, IoRec

LEMMA SetBiosSt ==
  ASSUME NEW t \in IoRec, NEW b \in Int, NEW s \in States
  PROVE  Has([t EXCEPT !.bios = b, !.st = s], s, t.count, b, t.err)
  BY Zenon DEF Has, IoRec

LEMMA SetEnd ==
  ASSUME NEW t \in IoRec, NEW c \in Int, NEW e \in BOOLEAN, NEW s \in States
  PROVE  Has([t EXCEPT !.count = c, !.err = e, !.st = s], s, c, t.bios, e)
  BY Zenon DEF Has, IoRec

LEMMA SetStSent ==
  ASSUME NEW t \in IoRec, NEW s \in States, NEW n \in Int
  PROVE  Has([t EXCEPT !.st = s, !.sent = n], s, t.count, t.bios, t.err)
  BY ZenonT(60) DEF Has, IoRec

LEMMA SetSt ==
  ASSUME NEW t \in IoRec, NEW s \in States
  PROVE  Has([t EXCEPT !.st = s], s, t.count, t.bios, t.err)
  BY DEF Has, IoRec

LEMMA SetBios ==
  ASSUME NEW t \in IoRec, NEW b \in Int
  PROVE  Has([t EXCEPT !.bios = b], t.st, t.count, b, t.err)
  BY DEF Has, IoRec

LEMMA ForwardKeeps ==
  ASSUME IoInv, BoundsNat, NEW i \in Ios, Forward(i)
  PROVE  IoInv'
<1>1. PICK t \in IoRec : t = io[i]
  BY Zenon DEF IoInv, Shape, Typed
<1>2. TokenOK(i, t) /\ t.st = "submitted"
  BY <1>1 DEF IoInv, Shape, Forward
<1> DEFINE r == [t EXCEPT !.st = "forwarding", !.count = 1]
<1>3. io' = [io EXCEPT ![i] = r]
  BY <1>1, Zenon DEF Forward, IoInv, Shape, Typed
<1>4. r \in IoRec /\ r.st = "forwarding" /\ r.count = 1 /\ r.bios = t.bios /\ r.err = t.err
  <2>1. "forwarding" \in States /\ 1 \in Int
    BY SMTT(30) DEF States, Active
  <2>2. Has(r, "forwarding", 1, t.bios, t.err)
    BY <2>1, SetStCount, Zenon
  <2> QED  BY <2>2 DEF Has
<1>5. TokenOK(i, r)
  BY <1>2, <1>4 DEF TokenOK
<1>6. (failed' = (failed \/ FALSE)) /\ (r.err = (t.err \/ FALSE))
  BY <1>4, Zenon DEF Forward, IoInv, Shape, Typed, IoRec
<1> HIDE DEF r
<1> QED  BY <1>1, <1>2, <1>3, <1>4, <1>5, <1>6, UnderWay, Zenon DEF Active, Forward

LEMMA EndByOcfKeeps ==
  ASSUME IoInv, BoundsNat, NEW i \in Ios, NEW err \in BOOLEAN, EndByOcf(i, err)
  PROVE  IoInv'
<1>1. PICK t \in IoRec : t = io[i]
  BY Zenon DEF IoInv, Shape, Typed
<1>2. TokenOK(i, t) /\ t.st = "submitted" /\ ~t.err
  BY <1>1 DEF IoInv, Shape, EndByOcf, TokenOK
<1> DEFINE r == [t EXCEPT !.st = "ending", !.err = err]
<1>3. io' = [io EXCEPT ![i] = r]
  BY <1>1, Zenon DEF EndByOcf, IoInv, Shape, Typed
<1>4. r \in IoRec /\ r.st = "ending" /\ r.count = t.count /\ r.bios = t.bios /\ r.err = err
  <2>1. "ending" \in States
    BY DEF States, Active
  <2>2. Has(r, "ending", t.count, t.bios, err)
    BY <2>1, SetStErr, Zenon
  <2> QED  BY <2>2 DEF Has
<1>5. TokenOK(i, r)
  BY <1>2, <1>4 DEF TokenOK
<1>6. r.err = (t.err \/ err)
  BY <1>2, <1>4, SMTT(30)
<1> HIDE DEF r
<1> QED  BY <1>1, <1>2, <1>3, <1>4, <1>5, <1>6, UnderWay, Zenon DEF Active, EndByOcf

LEMMA SendBioKeeps ==
  ASSUME IoInv, BoundsNat, NEW i \in Ios, i # Flush, SendBio(i)
  PROVE  IoInv'
<1>1. PICK t \in IoRec : t = io[i]
  BY Zenon DEF IoInv, Shape, Typed
<1>2. TokenOK(i, t) /\ t.st = "forwarding"
  BY <1>1 DEF IoInv, Shape, SendBio
<1> DEFINE r == [t EXCEPT !.bios = t.bios + 1, !.sent = t.sent + 1, !.count = t.count + 1]
<1>3. io' = [io EXCEPT ![i] = r]
  BY <1>1, Zenon DEF SendBio, IoInv, Shape, Typed
<1>4. /\ r \in IoRec /\ r.st = "forwarding" /\ r.count = t.count + 1
      /\ r.bios = t.bios + 1 /\ r.err = t.err
  <2>1. t.bios + 1 \in Int /\ t.sent + 1 \in Int /\ t.count + 1 \in Int
    BY Fields, SMTT(30)
  <2>2. Has(r, t.st, t.count + 1, t.bios + 1, t.err)
    BY <2>1, SetSent, Zenon
  <2> QED  BY <1>2, <2>2 DEF Has
<1>5. TokenOK(i, r)
  BY <1>2, <1>4 DEF TokenOK, IoRec
<1>6. (failed' = (failed \/ FALSE)) /\ (r.err = (t.err \/ FALSE))
  BY <1>4, ZenonT(60) DEF SendBio, IoInv, Shape, Typed, IoRec
<1> HIDE DEF r
<1> QED  BY <1>1, <1>2, <1>3, <1>4, <1>5, <1>6, UnderWay, ZenonT(60) DEF Active, SendBio

LEMMA ForwardFlushKeeps ==
  ASSUME IoInv, BoundsNat, ForwardFlush
  PROVE  IoInv'
<1>0. Flush \in Ios
  BY Names
<1>1. PICK t \in IoRec : t = io[Flush]
  BY <1>0, Zenon DEF IoInv, Shape, Typed
<1>2. TokenOK(Flush, t) /\ t.st = "forwarding"
  BY <1>0, <1>1 DEF IoInv, Shape, ForwardFlush
<1> DEFINE r == [t EXCEPT !.bios = 1, !.st = "sent"]
<1>3. io' = [io EXCEPT ![Flush] = r]
  BY <1>0, <1>1, Zenon DEF ForwardFlush, IoInv, Shape, Typed
<1>4. r \in IoRec /\ r.st = "sent" /\ r.count = t.count /\ r.bios = 1 /\ r.err = t.err
  <2>1. "sent" \in States /\ 1 \in Int
    BY SMTT(30) DEF States, Active
  <2>2. Has(r, "sent", t.count, 1, t.err)
    BY <2>1, SetBiosSt, Zenon
  <2> QED  BY <2>2 DEF Has
<1>5. TokenOK(Flush, r)
  BY <1>2, <1>4 DEF TokenOK, IoRec
<1>6. (failed' = (failed \/ FALSE)) /\ (r.err = (t.err \/ FALSE))
  BY <1>4, Zenon DEF ForwardFlush, IoInv, Shape, Typed, IoRec
<1> HIDE DEF r
<1> QED  BY <1>0, <1>1, <1>2, <1>3, <1>4, <1>5, <1>6, UnderWay, ZenonT(60) DEF Active,
            ForwardFlush

\* ocf_forward_end on a token that has a reference for each bio, and one for
\* the loop as long as it sends.
LEMMA ForwardEndEffect ==
  ASSUME NEW i \in Ios, NEW t \in IoRec, NEW e \in BOOLEAN,
         t.st \in {"forwarding", "sent"}, t.bios >= 0, t.count >= 1,
         t.count = t.bios + (IF t.st = "forwarding" THEN 2 ELSE 1),
         i = Flush /\ t.st = "forwarding" => t.bios = 0
  PROVE  /\ ForwardEnd(t, e) \in IoRec /\ ForwardEnd(t, e).st \in Active
         /\ ForwardEnd(t, e).err = (t.err \/ e)
         /\ TokenOK(i, ForwardEnd(t, e))
<1> DEFINE r == ForwardEnd(t, e)
<1>1. /\ r \in IoRec /\ r.count = t.count - 1 /\ r.bios = t.bios /\ r.err = (t.err \/ e)
      /\ r.st = (IF t.count = 1 THEN "ending" ELSE t.st)
  <2>1. t.count - 1 \in Int /\ (t.err \/ e) \in BOOLEAN
    BY Fields
  <2>2. (IF t.count = 1 THEN "ending" ELSE t.st) \in States
    BY SMTT(30) DEF States, Active
  <2>3. Has([t EXCEPT !.count = t.count - 1, !.err = t.err \/ e,
                       !.st = IF t.count = 1 THEN "ending" ELSE t.st],
            IF t.count = 1 THEN "ending" ELSE t.st, t.count - 1, t.bios, t.err \/ e)
    BY <2>1, <2>2, SetEnd, Zenon
  <2> QED  BY <2>3 DEF Has, ForwardEnd
<1>2. t.bios \in Int /\ t.count \in Int
  BY Fields
<1> HIDE DEF r
<1>3. TokenOK(i, r) /\ r.st \in Active
  BY <1>1, <1>2 DEF TokenOK, Active
<1> QED  BY <1>1, <1>3 DEF r

LEMMA StopSendingKeeps ==
  ASSUME IoInv, BoundsNat, NEW i \in Ios, NEW err \in BOOLEAN, StopSending(i, err)
  PROVE  IoInv'
<1>1. PICK t \in IoRec : t = io[i]
  BY Zenon DEF IoInv, Shape, Typed
<1>2. TokenOK(i, t) /\ t.st = "forwarding"
  BY <1>1 DEF IoInv, Shape, StopSending
<1> DEFINE s == [t EXCEPT !.st = "sent", !.sent = 0]
           r == ForwardEnd(s, err)
<1>3. io' = [io EXCEPT ![i] = r]
  BY <1>1, Zenon DEF StopSending, IoInv, Shape, Typed
<1>4. s \in IoRec /\ s.st = "sent" /\ s.count = t.count /\ s.bios = t.bios /\ s.err = t.err
  <2>1. "sent" \in States /\ 0 \in Int
    BY DEF States, Active
  <2>2. Has(s, "sent", t.count, t.bios, t.err)
    BY <2>1, SetStSent, Zenon
  <2> QED  BY <2>2 DEF Has
<1>5. s.bios >= 0 /\ s.count >= 1 /\ s.count = s.bios + 1
  BY <1>2, <1>4 DEF TokenOK, IoRec
<1> HIDE DEF s
<1>6. r \in IoRec /\ r.st \in Active /\ r.err = (s.err \/ err) /\ TokenOK(i, r)
  BY <1>4, <1>5, ForwardEndEffect
<1> HIDE DEF r
<1> QED  BY <1>1, <1>2, <1>3, <1>4, <1>6, UnderWay, Zenon DEF Active, StopSending

LEMMA BioEndKeeps ==
  ASSUME IoInv, BoundsNat, NEW i \in Ios, NEW dir, NEW status, BioEnd(i, dir, status)
  PROVE  IoInv'
<1>1. PICK t \in IoRec : t = io[i]
  BY Zenon DEF IoInv, Shape, Typed
<1> DEFINE excused == status = "not supported" /\ DiscardFlag(i, dir)
<1>2. PICK e \in BOOLEAN, d \in BOOLEAN :
        e = (status # "ok" /\ ~excused) /\ d = (excused /\ i # Discard)
  BY Zenon
<1>3. TokenOK(i, t) /\ t.bios > 0 /\ t.st \in {"forwarding", "sent"}
  <2>1. TokenOK(i, t) /\ t.bios > 0 /\ t.st \in States
    BY <1>1, Fields, Zenon DEF IoInv, Shape, BioEnd
  <2> QED  BY <2>1 DEF TokenOK, States, Active
<1> DEFINE s == [t EXCEPT !.bios = t.bios - 1]
           r == ForwardEnd(s, e)
<1>4. io' = [io EXCEPT ![i] = r] /\ failed' = (failed \/ e \/ d) /\ lost' = (lost \/ d)
  <2>1. io' = [io EXCEPT ![i] = ForwardEnd([io[i] EXCEPT !.bios = io[i].bios - 1], e)]
    <3>1. io' = [io EXCEPT ![i] = ForwardEnd([io[i] EXCEPT !.bios = io[i].bios - 1],
              status # "ok" /\ ~excused)]
      BY Zenon DEF BioEnd
    <3> QED  BY <1>2, <3>1, Zenon
  <2>2. failed' = (failed \/ e \/ d) /\ lost' = (lost \/ d)
    BY <1>2, Zenon DEF BioEnd
  <2> QED  BY <1>1, <2>1, <2>2
<1>5. s \in IoRec /\ s.st = t.st /\ s.count = t.count /\ s.bios = t.bios - 1 /\ s.err = t.err
  <2>1. t.bios - 1 \in Int
    BY Fields
  <2> QED  BY <2>1, SetBios, Zenon DEF Has
<1>6. /\ s.bios >= 0 /\ s.count >= 1
      /\ s.count = s.bios + (IF s.st = "forwarding" THEN 2 ELSE 1)
      /\ i = Flush /\ s.st = "forwarding" => s.bios = 0
  BY <1>3, <1>5 DEF TokenOK, IoRec
<1> HIDE DEF s
<1>7. r \in IoRec /\ r.st \in Active /\ r.err = (s.err \/ e) /\ TokenOK(i, r)
  BY <1>3, <1>5, <1>6, ForwardEndEffect
<1> HIDE DEF r
<1> QED  BY <1>1, <1>3, <1>4, <1>5, <1>7, UnderWayOrDropped, ZenonT(60) DEF Active, BioEnd

LEMMA BelowKeeps ==
  ASSUME IoInv, BoundsNat, BelowStep
  PROVE  IoInv'
<1>1. CASE ForwardFlush
  BY <1>1, ForwardFlushKeeps
<1>2. CASE ForwardDiscard \/ \E p \in Parts : ForwardData(p)
  BY <1>2, SendBioKeeps, Names DEF ForwardDiscard, ForwardData
<1>3. CASE \E i \in Ios : Forward(i)
  BY <1>3, ForwardKeeps
<1>4. CASE \E i \in Ios : \E err \in BOOLEAN : EndByOcf(i, err) \/ StopSending(i, err)
  BY <1>4, EndByOcfKeeps, StopSendingKeeps
<1>5. CASE \E i \in Ios : \E dir, status : BioEnd(i, dir, status)
  BY <1>5, BioEndKeeps, Zenon
<1> QED  BY <1>1, <1>2, <1>3, <1>4, <1>5, Zenon DEF BelowStep

-----------------------------------------------------------------------------
(* Above: the way of the request until it is given to OCF.                 *)

\* Nothing but the request's own position changes.
LEMMA Frame ==
  ASSUME UNCHANGED <<io, master, cpl>>
  PROVE  /\ NoParts' <=> NoParts
         /\ NothingOut' <=> NothingOut
  BY DEF NoParts, NothingOut

\* The request goes on to be handled, or to its data.
LEMMA MovedOn ==
  ASSUME IoInv, BoundsNat, UNCHANGED <<fixed, io, master, cpl, ends, failed, ioFault>>,
         \/ /\ pc \in {"submit", "deferred"} /\ pc' \in {"deferred", "handle"} /\ left' = left
         \/ /\ \/ pc = "deferred noflush"
               \/ pc = "handle" /\ ~flush
            /\ pc' = "noflush" /\ left' = left
         \/ pc = "noflush" /\ pc' = "split" /\ left' \in Parts
  PROVE  IoInv'
<1> USE Names DEF IoInv, Shape
<1>1. UNCHANGED <<flush, payload, lost>> /\ (NoParts' <=> NoParts) /\ (NothingOut' <=> NothingOut)
  BY Frame, ZenonT(60) DEF fixed
<1>2. /\ NoParts /\ NothingOut /\ ends = <<>> /\ io[Discard].st = "none"
      /\ pc' # "ended"
  BY Zenon DEF Positions
<1>3. left' \in Parts => left' \in Nat /\ left' > 0 /\ left' <= MaxParts
  BY PartNumbers, ZenonT(60)
<1>4. Typed' /\ ~ioFault' /\ \A i \in Ios : TokenOK(i, io[i])'
  BY <1>1, <1>3, ZenonT(60) DEF Typed, TokenOK
<1>5. Numbered'
  <2>1. \A p \in Parts : io'[p].st # "none" <=> p <= 0
    BY <1>2, PartNumbers, Zenon DEF NoParts
  <2>2. pc' = "split" => 0 + left' <= MaxParts /\ 0 + left' > 0
    BY <1>3, SMTT(30)
  <2> QED  BY <2>1, <2>2, PartNumbers, Zenon DEF Numbered
<1>6. Positions'
  <2>1. pc' \in {"noflush", "split"} =>
          io[Flush].st = (IF flush THEN "done" ELSE "none") /\ ~io[Flush].err
    BY ZenonT(60) DEF Positions, TokenOK
  <2>2. pc' \in {"deferred", "handle"} => io[Flush].st = "none"
    BY Zenon DEF Positions
  <2>3. cpl[0] = Idle /\ ~master.alive
    BY <1>2, Zenon DEF NothingOut
  <2> QED  BY <1>1, <1>2, <2>1, <2>2, <2>3, ZenonT(60) DEF Positions
<1>7. Counting'
  BY <1>2, ZenonT(60) DEF Counting, NothingOut
<1>8. Errors'
  BY <1>1, Zenon DEF Errors, Remembered
<1> QED  BY <1>4, <1>5, <1>6, <1>7, <1>8, ZenonT(60)

\* The request is ended with an error and nothing is under way for it.
LEMMA EndedEarly ==
  ASSUME IoInv, BoundsNat, UNCHANGED <<fixed, io, master, cpl, ioFault>>, left' \in Nat,
         NoParts, pc \in {"submit", "deferred", "handle", "noflush", "split"},
         End(TRUE), failed' = TRUE
  PROVE  IoInv'
<1> USE Names DEF IoInv, Shape
<1>1. UNCHANGED <<flush, payload, lost>> /\ (NoParts' <=> NoParts) /\ (NothingOut' <=> NothingOut)
  BY Frame DEF fixed
<1>2. NothingOut /\ ends = <<>> /\ io[Discard].st = "none" /\ io[Flush].st \in {"none", "done"}
  BY Zenon DEF Positions
<1>3. ends' = <<TRUE>> /\ pc' = "ended"
  BY <1>2, SMTT(30) DEF End
<1>4. Typed' /\ ~ioFault' /\ \A i \in Ios : TokenOK(i, io[i])'
  BY <1>1, <1>3, ZenonT(60) DEF Typed, TokenOK
<1>5. Numbered'
  BY <1>3, SMTT(30) DEF Numbered
<1>6. Positions'
  <2>1. ends' # <<>>
    BY <1>3
  <2>2. \A p \in Parts : io[p].st = "none"
    BY DEF NoParts
  <2> QED  BY <1>1, <1>2, <1>3, <2>1, <2>2, Zenon DEF Positions
<1>7. Counting'
  BY <1>2, Zenon DEF Counting, NothingOut
<1>8. Errors'
  BY <1>1, <1>3 DEF Errors, Remembered
<1> QED  BY <1>4, <1>5, <1>6, <1>7, <1>8, SMTT(30)

LEMMA SubmitKeeps ==
  ASSUME IoInv, BoundsNat, Submit
  PROVE  IoInv'
<1>1. NoParts /\ left \in Nat
  BY DEF Submit, IoInv, Shape, Positions, Typed
<1> QED  BY <1>1, MovedOn, EndedEarly, Zenon DEF Submit, Defer, DeferTo, DeferFails

LEMMA HandledWithoutIo ==
  ASSUME IoInv, BoundsNat,
         DeferredWork \/ HandleNoFlush \/ NewIoFails \/ HandleEmpty \/ HandleData
  PROVE  IoInv'
<1>1. left \in Nat /\ (pc \in {"handle", "noflush"} => NoParts)
  BY Zenon DEF IoInv, Shape, Positions, Typed
<1>2. CASE DeferredWork \/ HandleNoFlush \/ HandleData
  BY <1>2, MovedOn, Zenon DEF DeferredWork, HandleNoFlush, HandleData
<1>3. CASE NewIoFails \/ HandleEmpty
  BY <1>1, <1>3, EndedEarly, Zenon DEF NewIoFails, HandleEmpty, EndFailed
<1> QED  BY <1>2, <1>3

\* A new I/O is not the same as none, and has no error and no bios.
LEMMA NewIoEffect ==
  ASSUME IoInv, NEW i \in Ios, NewIo(i)
  PROVE  /\ io' \in [Ios -> IoRec] /\ TokenOK(i, io'[i])
         /\ io'[i].st = "submitted" /\ ~io'[i].err
         /\ \A j \in Ios \ {i} : io'[j] = io[j]
<1>1. NoIo \in IoRec /\ NoIo.count = 0 /\ NoIo.bios = 0 /\ ~NoIo.err
  BY DEF NoIo, IoRec, States, Active
<1>2. "submitted" \in States
  BY DEF States, Active
<1>3. PICK r : r = [NoIo EXCEPT !.st = "submitted"]
  BY ZenonT(60)
<1>4. Has(r, "submitted", 0, 0, NoIo.err)
  BY <1>1, <1>2, <1>3, SetSt
<1>5. r \in IoRec /\ TokenOK(i, r) /\ r.st = "submitted" /\ ~r.err
  BY <1>1, <1>4 DEF Has, TokenOK
<1>6. io' = [io EXCEPT ![i] = r]
  BY <1>3, Zenon DEF NewIo
<1> QED  BY <1>5, <1>6, Zenon DEF IoInv, Shape, Typed

\* The I/O of a flush or of a discard.
LEMMA OneIo ==
  ASSUME IoInv, BoundsNat, NEW i \in {Flush, Discard}, NewIo(i), pc' = "wait",
         UNCHANGED <<fixed, left, master, cpl, ends, failed, ioFault>>,
         \/ i = Flush /\ pc = "handle" /\ flush
         \/ i = Discard /\ pc = "noflush" /\ ~flush
  PROVE  IoInv'
<1> USE Names DEF IoInv, Shape
<1>1. /\ io' \in [Ios -> IoRec] /\ TokenOK(i, io'[i])
      /\ io'[i].st = "submitted" /\ ~io'[i].err
      /\ \A j \in Ios \ {i} : io'[j] = io[j]
  BY NewIoEffect, SMTT(30)
<1>2. /\ UNCHANGED <<flush, payload, lost>>
      /\ \A p \in Parts : io'[p] = io[p]
  BY <1>1, SMTT(30) DEF fixed
<1>3. NoParts /\ NothingOut /\ ends = <<>> /\ io[i].st = "none" /\ ~io[i].err
  BY ZenonT(60) DEF Positions, TokenOK
<1>4. NoParts' /\ NothingOut'
  BY <1>2, <1>3 DEF NoParts, NothingOut
<1>5. Typed' /\ ~ioFault' /\ \A j \in Ios : TokenOK(j, io[j])'
  BY <1>1, <1>2, ZenonT(60) DEF Typed
<1>6. Numbered'
  BY <1>2, SMTT(30) DEF Numbered
<1>7. Positions'
  <2>1. ~master'.alive
    BY <1>3, SMTT(30) DEF NothingOut
  <2>2. i = Flush => io'[Discard].st = "none"
    BY <1>1, ZenonT(60) DEF Positions
  <2>3. i = Discard => io'[Flush].st = "none" /\ ~flush'
    BY <1>1, <1>2, ZenonT(60) DEF Positions
  <2>4. io'[Flush].st # "none" => flush'
    BY <1>1, <1>2, ZenonT(60) DEF Positions
  <2>5. io'[Flush].st \in Active \/ io'[Discard].st \in Active
    BY <1>1, Zenon DEF Active
  <2> QED  BY <1>3, <1>4, <2>1, <2>2, <2>3, <2>4, <2>5, ZenonT(60) DEF Positions
<1>8. Counting'
  BY <1>3, <1>4, SMTT(30) DEF Counting, NothingOut, Idle
<1>9. Errors'
  <2>1. Remembered => Remembered'
    BY <1>1, <1>3, Zenon DEF Remembered
  <2> QED  BY <1>1, <1>2, <2>1, ZenonT(60) DEF Errors
<1> QED  BY <1>5, <1>6, <1>7, <1>8, <1>9, Zenon

-----------------------------------------------------------------------------
(* The master and those that count in it.                                  *)

\* A part under way, or a caller in the master, finds the master alive.
LEMMA MasterAlive ==
  ASSUME IoInv, BoundsNat, NEW c \in Callers,
         cpl[c].at # "none" \/ (c \in Parts /\ io[c].st \in Active)
  PROVE  master.alive /\ pc \in {"split", "wait"} /\ master.remaining = Cardinality(Out) /\ c \in Out
<1> USE DEF IoInv, Shape
<1>1. ~(NoParts /\ NothingOut)
  BY DEF NoParts, NothingOut, Idle, Active
<1>2. pc # "ended"
  <2>1. pc = "ended" => /\ cpl[c].at = "none"
                        /\ c \in Parts => io[c].st \in {"none", "done"}
    BY DEF Positions, NothingOut, Idle
  <2> QED  BY <2>1, Zenon DEF Active
<1>3. master.alive
  BY <1>1, <1>2, Zenon DEF Positions, Typed
<1> QED  BY <1>3, Zenon DEF Counting, Out, Busy

\* A caller record, or the master, with some of its fields changed.
CallerHas(r, a, s, e) == r \in CallerRec /\ r.at = a /\ r.seen = s /\ r.err = e
CallerAts == {"none", "load", "store", "dec"}
MasterHas(m, a, n, e) == m \in MasterRec /\ m.alive = a /\ m.remaining = n /\ m.error = e

LEMMA SetAt ==
  ASSUME NEW t \in CallerRec, NEW a \in CallerAts
  PROVE  CallerHas([t EXCEPT !.at = a], a, t.seen, t.err)
  BY DEF CallerHas, CallerRec, CallerAts

LEMMA SetAtSeen ==
  ASSUME NEW t \in CallerRec, NEW a \in CallerAts, NEW s \in BOOLEAN
  PROVE  CallerHas([t EXCEPT !.at = a, !.seen = s], a, s, t.err)
  BY ZenonT(60) DEF CallerHas, CallerRec, CallerAts

LEMMA SetRemaining ==
  ASSUME NEW m \in MasterRec, NEW n \in Int
  PROVE  MasterHas([m EXCEPT !.remaining = n], m.alive, n, m.error)
  BY Zenon DEF MasterHas, MasterRec

\* A caller goes on in the master, and may change the error there.
LEMMA CallerMoves ==
  ASSUME IoInv, BoundsNat, NEW c \in Callers, NEW r \in CallerRec,
         cpl[c].at # "none", r.at \in {"store", "dec"}, cpl' = [cpl EXCEPT ![c] = r],
         r.seen \/ r.err => failed,
         master' \in MasterRec, master'.alive = master.alive,
         master'.remaining = master.remaining, master'.error => failed,
         lost' \in BOOLEAN, failed /\ ~lost' => Remembered',
         UNCHANGED <<flush, payload, pc, left, io, ends, failed>>, ~ioFault'
  PROVE  IoInv'
<1> USE Names DEF IoInv, Shape
<1>1. /\ cpl' \in [Callers -> CallerRec] /\ cpl'[c] = r
      /\ \A d \in Callers \ {c} : cpl'[d] = cpl[d]
  BY Zenon DEF Typed
<1>2. master.alive /\ pc \in {"split", "wait"} /\ ~NoParts
  BY MasterAlive, Zenon DEF Counting
<1>3. pc = "split" => c # 0
  BY SMTT(30) DEF Positions, Idle
<1>4. Typed' /\ ~ioFault' /\ \A i \in Ios : TokenOK(i, io[i])'
  BY <1>1, ZenonT(60) DEF Typed, TokenOK
<1>5. Numbered'
  BY DEF Numbered
<1>6. NoParts' <=> NoParts
  BY SMTT(30) DEF NoParts
<1>7. Positions'
  <2>1. pc = "split" => cpl'[0] = Idle
    BY <1>1, <1>3, Zenon DEF Positions
  <2> QED  BY <1>2, <1>6, <2>1, ZenonT(60) DEF Positions
<1>8. Out' = Out
  BY <1>1, Zenon DEF Out, Busy
<1>9. Counting'
  BY <1>1, <1>2, <1>6, <1>8, SMTT(30) DEF Counting
<1>10. Errors'
  BY <1>1, Zenon DEF Errors
<1> QED  BY <1>4, <1>5, <1>7, <1>9, <1>10

LEMMA LoadErrorKeeps ==
  ASSUME IoInv, BoundsNat, NEW c \in Callers, LoadError(c)
  PROVE  IoInv'
<1> USE DEF IoInv, Shape
<1>1. PICK t \in CallerRec : t = cpl[c]
  BY Zenon DEF Typed
<1>2. PICK a \in {"store", "dec"} :
        /\ cpl' = [cpl EXCEPT ![c] = [t EXCEPT !.at = a, !.seen = master.error]]
        /\ a = "dec" => ~t.err
  BY <1>1, ZenonT(60) DEF LoadError, Typed
<1>3. PICK r : r = [t EXCEPT !.at = a, !.seen = master.error]
  OBVIOUS
<1>4. r \in CallerRec /\ r.at = a /\ r.err = t.err /\ r.seen = master.error
  <2>1. master.error \in BOOLEAN
    BY Zenon DEF Typed, MasterRec
  <2>2. a \in CallerAts
    BY SMTT(30) DEF CallerAts
  <2>3. CallerHas([t EXCEPT !.at = a, !.seen = master.error], a, master.error, t.err)
    BY <2>1, <2>2, SetAtSeen, Zenon
  <2> QED  BY <1>3, <2>3 DEF CallerHas
<1>5. master.alive /\ t.at = "load"
  BY <1>1, MasterAlive, SMTT(30) DEF LoadError
<1>6. r.seen \/ r.err => failed
  BY <1>1, <1>4 DEF Errors
<1>7. /\ cpl'[c] = r /\ \A d \in Callers \ {c} : cpl'[d] = cpl[d]
  BY <1>2, <1>3, Zenon DEF Typed
<1>8. UNCHANGED <<flush, payload, pc, left, io, ends, failed, lost, master>> /\ ~ioFault'
  BY <1>5, Zenon DEF LoadError, fixed
<1>9. Remembered => Remembered'
  BY <1>1, <1>2, <1>4, <1>5, <1>7, <1>8, ZenonT(60) DEF Remembered
<1>10. failed /\ ~lost' => Remembered'
  BY <1>8, <1>9 DEF Errors
<1>11. master' \in MasterRec /\ lost' \in BOOLEAN /\ (master'.error => failed)
  BY <1>8, ZenonT(60) DEF Typed, Errors
<1> HIDE DEF IoInv, Shape
<1> QED  BY <1>1, <1>2, <1>3, <1>4, <1>5, <1>6, <1>8, <1>10, <1>11, CallerMoves,
            ZenonT(60)

LEMMA StoreErrorKeeps ==
  ASSUME IoInv, BoundsNat, NEW c \in Callers, StoreError(c)
  PROVE  IoInv'
<1> USE DEF IoInv, Shape
<1>1. PICK t \in CallerRec : t = cpl[c]
  BY Zenon DEF Typed
<1>2. PICK r : r = [t EXCEPT !.at = "dec"]
  BY Zenon
<1>3. r \in CallerRec /\ r.at = "dec" /\ r.err = t.err /\ r.seen = t.seen
  <2>1. "dec" \in CallerAts
    BY DEF CallerAts
  <2>2. CallerHas([t EXCEPT !.at = "dec"], "dec", t.seen, t.err)
    BY <2>1, SetAt
  <2> QED  BY <1>2, <2>2 DEF CallerHas
<1>4. cpl' = [cpl EXCEPT ![c] = r]
  BY <1>1, <1>2, Zenon DEF StoreError, Typed
<1>5. cpl'[c] = r /\ \A d \in Callers \ {c} : cpl'[d] = cpl[d]
  BY <1>4, Zenon DEF Typed
<1>6. master.alive /\ t.at = "store"
  BY <1>1, MasterAlive DEF StoreError
<1>7. PICK e \in BOOLEAN : e = (t.seen \/ t.err)
  BY DEF CallerRec
<1>8. /\ master' \in MasterRec /\ master'.alive = master.alive
      /\ master'.remaining = master.remaining /\ master'.error = e
  <2>1. master' = [master EXCEPT !.error = e]
    BY <1>1, <1>7 DEF StoreError
  <2> QED  BY <2>1, Zenon DEF Typed, MasterRec
<1>9. /\ UNCHANGED <<flush, payload, pc, left, io, ends, failed>> /\ ~ioFault'
      /\ lost' = (lost \/ (master.error /\ ~t.seen /\ ~t.err))
  BY <1>1, <1>6, Zenon DEF StoreError
<1>10. e => failed
  BY <1>1, <1>7, Zenon DEF Errors
<1>11. failed /\ ~lost' => Remembered'
  <2> SUFFICES ASSUME failed, ~lost', ~e PROVE Remembered'
    BY <1>8, Zenon DEF Remembered
  <2>1. ~master.error /\ ~t.err /\ ~lost
    BY <1>7, <1>9, Zenon
  <2>2. Remembered
    BY <2>1 DEF Errors
  <2> QED  BY <1>1, <1>5, <1>9, <2>1, <2>2, Zenon DEF Remembered
<1>12. lost' \in BOOLEAN /\ (r.seen \/ r.err => failed)
  BY <1>3, <1>7, <1>9, <1>10, Zenon
<1> HIDE DEF IoInv, Shape
<1> QED  BY <1>1, <1>3, <1>4, <1>6, <1>8, <1>9, <1>10, <1>11, <1>12, CallerMoves, Zenon

\* One caller less.
LEMMA DecRemainingKeeps ==
  ASSUME SetFacts, IoInv, BoundsNat, NEW c \in Callers, DecRemaining(c), master.remaining # 1
  PROVE  IoInv'
<1> USE Names DEF IoInv, Shape
<1>1. master.alive /\ pc \in {"split", "wait"} /\ master.remaining = Cardinality(Out) /\ c \in Out
  BY MasterAlive DEF DecRemaining
<1>2. /\ cpl' \in [Callers -> CallerRec] /\ cpl'[c] = Idle
      /\ \A d \in Callers \ {c} : cpl'[d] = cpl[d]
  <2>1. Idle \in CallerRec
    BY DEF Idle, CallerRec
  <2> QED  BY <2>1, Zenon DEF DecRemaining, Typed
<1>3. /\ UNCHANGED <<flush, payload, lost, pc, left, io, ends, failed>> /\ ~ioFault'
      /\ master' = [master EXCEPT !.remaining = master.remaining - 1]
  BY <1>1, Zenon DEF DecRemaining, fixed
<1>4. /\ master' \in MasterRec /\ master'.alive = master.alive
      /\ master'.remaining = master.remaining - 1 /\ master'.error = master.error
  <2>0. master \in MasterRec
    BY Zenon DEF Typed
  <2>a. master.remaining \in Int
    BY <2>0 DEF MasterRec
  <2>1. master \in MasterRec /\ master.remaining - 1 \in Int
    BY <2>0, <2>a
  <2>2. MasterHas([master EXCEPT !.remaining = master.remaining - 1],
                  master.alive, master.remaining - 1, master.error)
    BY <2>1, SetRemaining, Zenon
  <2> QED  BY <1>3, <2>2 DEF MasterHas
<1>5. (pc = "split" => c # 0) /\ (c \in Parts => io[c].st \notin Active)
  <2>1. cpl[c].at = "dec" /\ Idle.at = "none"
    BY Zenon DEF DecRemaining, Idle
  <2>2. pc = "split" => cpl[0].at = "none"
    BY <2>1, Zenon DEF Positions
  <2>3. c \in Parts => io[c].st = "done"
    BY <2>1 DEF Counting
  <2> QED  BY <2>1, <2>2, <2>3 DEF Active
<1>6. Out' = Out \ {c}
  BY <1>2, <1>3, <1>5, SMTT(30) DEF Out, Busy, Idle
<1>7. Cardinality(Out') = Cardinality(Out) - 1
  BY <1>1, <1>6, OutFinite, ZenonT(60) DEF SetFacts
<1>8. Typed' /\ \A i \in Ios : TokenOK(i, io[i])'
  BY <1>2, <1>3, <1>4, ZenonT(60) DEF Typed, TokenOK
<1>9. Numbered' /\ (NoParts' <=> NoParts)
  BY <1>3 DEF Numbered, NoParts
<1>10. Positions'
  <2>1. pc = "split" => cpl'[0] = Idle
    BY <1>2, <1>5, Zenon DEF Positions
  <2>2. ~NoParts
    BY <1>1, Zenon DEF Counting
  <2> QED  BY <1>1, <1>3, <1>4, <1>9, <2>1, <2>2, Zenon DEF Positions
<1>a. master'.remaining = Cardinality(Out') /\ master'.remaining > 0
  <2>1. master.remaining > 0
    BY <1>1, Zenon DEF Counting
  <2>2. Cardinality(Out) \in Nat
    BY OutFinite
  <2> QED  BY <1>1, <1>4, <1>7, <2>1, <2>2, SMTT(30)
<1>11. Counting'
  BY <1>1, <1>2, <1>3, <1>4, <1>9, <1>a, SMTT(30) DEF Counting, Idle
<1>12. Errors'
  <2>0. cpl[c].at = "dec" /\ ~Idle.seen /\ ~Idle.err
    BY DEF DecRemaining, Idle
  <2>1. Remembered => Remembered'
    BY <1>2, <1>3, <1>4, <2>0, Zenon DEF Remembered
  <2>2. \A d \in Callers : cpl'[d].seen \/ cpl'[d].err => failed
    BY <1>2, <2>0 DEF Errors
  <2> QED  BY <1>3, <1>4, <2>1, <2>2, Zenon DEF Errors
<1> QED  BY <1>3, <1>8, <1>9, <1>10, <1>11, <1>12, Zenon

\* The request is ended for the first time.
LEMMA OneEnd ==
  ASSUME NEW e \in BOOLEAN
  PROVE  /\ Append(<<>>, e) = <<e>> /\ Append(<<>>, e) # <<>>
         /\ e <=> Append(<<>>, e) = <<TRUE>>
         /\ Append(<<>>, e) \in {<<>>, <<TRUE>>, <<FALSE>>}
<1>1. /\ Append(<<>>, TRUE) = <<TRUE>> /\ Append(<<>>, FALSE) = <<FALSE>>
      /\ <<TRUE>> # <<>> /\ <<FALSE>> # <<>>
  OBVIOUS
<1>2. <<FALSE>> # <<TRUE>>
  <2>1. <<FALSE>>[1] = FALSE /\ <<TRUE>>[1] = TRUE
    OBVIOUS
  <2> QED  BY <2>1
<1>3. CASE e = TRUE
  BY <1>1, <1>3
<1>4. CASE e = FALSE
  BY <1>1, <1>2, <1>4, Zenon
<1> QED  BY <1>3, <1>4, Zenon

\* The last caller ends the request.
LEMMA LastCallerKeeps ==
  ASSUME SetFacts, IoInv, BoundsNat, NEW c \in Callers, DecRemaining(c), master.remaining = 1
  PROVE  IoInv'
<1> USE Names DEF IoInv, Shape
<1>1. master.alive /\ pc \in {"split", "wait"} /\ Cardinality(Out) = 1 /\ c \in Out
  BY MasterAlive DEF DecRemaining
<1>2. Out = {c}
  <2>1. PICK x : Out = {x}
    BY <1>1, OutFinite, Zenon DEF SetFacts
  <2> QED  BY <1>1, <2>1, Zenon
<1>3. cpl[c].at = "dec" /\ Idle.at = "none" /\ ~Idle.seen /\ ~Idle.err
  BY DEF DecRemaining, Idle
<1>4. pc = "wait"
  <2>1. pc = "split" => 0 \in Out /\ cpl[0].at = "none"
    <3>1. pc = "split" => cpl[0] = Idle
      BY Zenon DEF Positions
    <3> HIDE DEF IoInv, Shape
    <3> QED  BY <1>3, <3>1, SMTT(30) DEF Out, Busy
  <2> QED  BY <1>1, <1>2, <1>3, <2>1, Zenon
<1>5. \A d \in Callers \ {c} : cpl[d] = Idle
  BY <1>2, Zenon DEF Out, Busy, Counting
<1>6. \A p \in Parts : io[p].st \in {"none", "done"}
  <2>1. \A p \in Parts \ {c} : io[p].st \notin Active
    BY <1>2, Zenon DEF Out, Busy
  <2>2. c \in Parts => io[c].st = "done"
    BY <1>3 DEF Counting
  <2>3. \A p \in Parts : io[p].st \in States
    BY ZenonT(60) DEF Typed, IoRec
  <2> QED  BY <2>1, <2>2, <2>3, Zenon DEF States
<1>7. /\ io[Flush].st = (IF flush THEN "done" ELSE "none") /\ ~io[Flush].err
      /\ io[Discard].st = "none" /\ ends = <<>>
  BY <1>1, <1>4 DEF Positions
<1>8. PICK e \in BOOLEAN : e = master.error
  BY Zenon DEF Typed, MasterRec
<1>9. /\ UNCHANGED <<flush, payload, lost, left, io, failed>> /\ ~ioFault'
      /\ ends' = Append(ends, e) /\ pc' = "ended"
      /\ master' = [alive |-> FALSE, remaining |-> 0, error |-> FALSE]
      /\ cpl' = [cpl EXCEPT ![c] = Idle]
  BY <1>1, <1>8, Zenon DEF DecRemaining, End, fixed
<1>10. ends' = <<e>> /\ ends' # <<>> /\ (e <=> ends' = <<TRUE>>)
  BY <1>7, <1>9, OneEnd, ZenonT(60)
<1>11. \A d \in Callers : cpl'[d] = Idle
  BY <1>5, <1>9, Zenon DEF Typed
<1>12. master' \in MasterRec /\ ~master'.alive /\ ~master'.error
  BY <1>9, SMTT(30) DEF MasterRec
<1>13. NothingOut' /\ (NoParts' <=> NoParts)
  BY <1>9, <1>11, <1>12, SMTT(30) DEF NothingOut, NoParts
<1>14. Typed'
  <2>1. cpl' \in [Callers -> CallerRec]
    <3>1. Idle \in CallerRec
      BY DEF Idle, CallerRec
    <3> QED  BY <1>9, <3>1, Zenon DEF Typed
  <2>2. ends' \in {<<>>, <<TRUE>>, <<FALSE>>}
    BY <1>10, Zenon
  <2> QED  BY <1>9, <1>12, <2>1, <2>2, ZenonT(60) DEF Typed
<1>15. (\A i \in Ios : TokenOK(i, io[i])') /\ Numbered'
  BY <1>9 DEF TokenOK, Numbered
<1>16. Positions'
  BY <1>6, <1>7, <1>9, <1>10, <1>12, <1>13, ZenonT(60) DEF Positions
<1>17. Counting'
  BY <1>3, <1>11, <1>12, SMTT(30) DEF Counting
<1>18. Errors'
  <2>1. Remembered => master.error
    <3>1. \A i \in Ios : io[i].st # "done" => ~io[i].err
      BY <1>6, <1>7, Zenon DEF TokenOK
    <3>2. \A d \in Callers : cpl[d].at \notin {"load", "store"}
      BY <1>3, <1>5, Zenon
    <3>3. ends # <<TRUE>>
      BY <1>7
    <3> QED  BY <3>1, <3>2, <3>3, ZenonT(60) DEF Remembered
  <2>2. failed' /\ ~lost' => Remembered'
    BY <1>8, <1>9, <1>10, <2>1, Zenon DEF Errors, Remembered
  <2>3. ends' = <<TRUE>> => failed'
    BY <1>8, <1>9, <1>10, Zenon DEF Errors
  <2>4. \A d \in Callers : ~cpl'[d].seen /\ ~cpl'[d].err
    BY <1>3, <1>11, Zenon
  <2> QED  BY <1>9, <1>12, <2>2, <2>3, <2>4, Zenon DEF Errors
<1> QED  BY <1>9, <1>14, <1>15, <1>16, <1>17, <1>18, Zenon

\* The loop becomes a caller: it counted in the master already.
LEMMA LoopEnds ==
  ASSUME IoInv, BoundsNat, pc = "split", ~NoParts, pc' = "wait", left' \in Nat,
         NEW e \in BOOLEAN, Enter(0, e), failed' = (failed \/ e),
         UNCHANGED <<fixed, io, master, ends, ioFault>>
  PROVE  IoInv'
<1> USE Names DEF IoInv, Shape
<1>1. PICK r : r = [at |-> "load", seen |-> FALSE, err |-> e]
  BY ZenonT(60)
<1>2. r \in CallerRec /\ r.at = "load" /\ r.seen = FALSE /\ r.err = e
  BY <1>1, Zenon DEF CallerRec
<1>3. /\ cpl' \in [Callers -> CallerRec] /\ cpl'[0] = r
      /\ \A d \in Callers \ {0} : cpl'[d] = cpl[d]
  BY <1>1, <1>2, Zenon DEF Typed, Enter
<1>4. UNCHANGED <<flush, payload, lost>> /\ (NoParts' <=> NoParts)
  BY Zenon DEF fixed, NoParts
<1>5. /\ master.alive /\ master.remaining = Cardinality(Out)
      /\ io[Flush].st = (IF flush THEN "done" ELSE "none") /\ ~io[Flush].err
      /\ io[Discard].st = "none" /\ ends = <<>>
  BY DEF Positions, Counting
<1>6. Typed' /\ ~ioFault' /\ (\A i \in Ios : TokenOK(i, io[i])') /\ Numbered'
  BY <1>3, <1>4, ZenonT(60) DEF Typed, TokenOK, Numbered
<1>7. Positions'
  BY <1>4, <1>5, Zenon DEF Positions
<1>8. Out' = Out
  BY <1>2, <1>3, SMTT(30) DEF Out, Busy
<1>9. Counting'
  BY <1>2, <1>3, <1>4, <1>5, <1>8, ZenonT(60) DEF Counting
<1>10. Errors'
  <2>1. \A d \in Callers : cpl'[d].seen \/ cpl'[d].err => failed'
    BY <1>2, <1>3, Zenon DEF Errors
  <2>2. e => Remembered'
    BY <1>2, <1>3, Zenon DEF Remembered
  <2>3. Remembered => Remembered'
    <3>1. cpl[0].at = "none"
      <4>1. cpl[0] = Idle
        BY Zenon DEF Positions
      <4> HIDE DEF IoInv, Shape
      <4> QED  BY <4>1 DEF Idle
    <3> QED  BY <1>3, <3>1, Zenon DEF Remembered
  <2> QED  BY <1>4, <2>1, <2>2, <2>3, Zenon DEF Errors
<1> QED  BY <1>6, <1>7, <1>9, <1>10, SMTT(30)

LEMMA LoopStops ==
  ASSUME IoInv, BoundsNat, LoopDone \/ PartFails
  PROVE  IoInv'
<1>1. left \in Nat /\ 0 \in Nat /\ (Submitted = {} <=> NoParts)
  BY Zenon DEF IoInv, Shape, Typed, Submitted, NoParts
<1>2. ASSUME LoopDone PROVE ~NoParts
  <2>1. PICK n \in Nat : (\A p \in Parts : io[p].st # "none" <=> p <= n) /\ n + left > 0 /\ n <= MaxParts
    <3>1. Numbered /\ pc = "split"
      BY <1>2, Zenon DEF IoInv, Shape, LoopDone
    <3> QED  BY <3>1, SMTT(30) DEF Numbered
  <2>2. 1 <= n /\ 1 \in Parts
    BY <1>2, <2>1, SMTT(30) DEF LoopDone, Parts, BoundsNat
  <2> QED  BY <2>1, <2>2, SMTT(30) DEF NoParts
<1>3. CASE LoopDone
  <2>1. (FALSE \in BOOLEAN) /\ (failed' = (failed \/ FALSE)) /\ left' \in Nat
    BY <1>1, <1>3, Zenon DEF LoopDone, IoInv, Shape, Typed
  <2> QED  BY <1>2, <1>3, <2>1, LoopEnds, ZenonT(60) DEF LoopDone
<1>4. CASE PartFails /\ Submitted = {}
  BY <1>1, <1>4, EndedEarly, SMTT(30) DEF PartFails
<1>5. CASE PartFails /\ Submitted # {}
  <2>1. (TRUE \in BOOLEAN) /\ (failed' = (failed \/ TRUE)) /\ left' \in Nat /\ Enter(0, TRUE)
    BY <1>1, <1>5, ZenonT(60) DEF PartFails, AbortMaster
  <2> QED  BY <1>1, <1>5, <2>1, LoopEnds, Zenon DEF PartFails
<1> QED  BY <1>3, <1>4, <1>5

\* One more part is submitted, and counted.
LEMMA HandlePartKeeps ==
  ASSUME SetFacts, IoInv, BoundsNat, HandlePart
  PROVE  IoInv'
<1> USE Names DEF IoInv, Shape
<1>1. PICK n \in Nat : /\ n <= MaxParts /\ n + left <= MaxParts /\ n + left > 0
                       /\ \A p \in Parts : io[p].st # "none" <=> p <= n
  BY DEF Numbered, HandlePart
<1>2. left \in Nat /\ left > 0 /\ pc = "split"
  BY DEF Typed, HandlePart
<1>3. PICK q : q = n + 1
  BY Zenon
<1>4. q \in Parts /\ ~(q <= n) /\ (\A p \in Parts : p <= q <=> (p <= n \/ p = q))
  BY <1>1, <1>2, <1>3, SMTT(30) DEF Parts, BoundsNat
<1>5. Cardinality(Submitted) = n
  <2>1. Submitted = 1 .. n
    BY <1>1 DEF Submitted, Parts, BoundsNat
  <2>2. Cardinality(1 .. n) = n
    BY SMTT(30) DEF SetFacts
  <2> QED  BY <2>1, <2>2, Zenon
<1>6. Submitted = {} <=> NoParts
  BY Zenon DEF Submitted, NoParts
<1>7. NewIo(q) /\ q \in Ios /\ io[q].st = "none" /\ ~io[q].err
  <2>1. NewIo(q)
    BY <1>3, <1>5, Zenon DEF HandlePart
  <2>2. q \in Ios /\ io[q].st = "none"
    BY <1>1, <1>4, Zenon
  <2> QED  BY <2>1, <2>2 DEF TokenOK
<1>8. /\ io' \in [Ios -> IoRec] /\ TokenOK(q, io'[q])
      /\ io'[q].st = "submitted" /\ ~io'[q].err
      /\ \A j \in Ios \ {q} : io'[j] = io[j]
  BY <1>7, NewIoEffect
<1>9. UNCHANGED <<flush, payload, lost, pc, cpl, ends, failed>>
  BY DEF HandlePart, fixed
<1>10. left' \in Nat /\ (n + 1) + left' <= MaxParts /\ (n + 1) + left' > 0
  BY <1>1, <1>2, SMTT(30) DEF HandlePart, BoundsNat
<1>11. master.alive <=> ~NoParts
  BY <1>2, Zenon DEF Positions, Counting, NothingOut
<1>12. ~ioFault'
  BY <1>6, <1>11, ZenonT(60) DEF HandlePart
<1>13. cpl[q].at = "none"
  BY <1>4, <1>7, Zenon DEF Counting
<1>14. Out' = Out \cup {q} /\ q \notin Out
  <2>1. \A c \in Callers : Busy(c)' <=> Busy(c) \/ c = q
    BY <1>4, <1>8, <1>9, Zenon DEF Busy, Active
  <2>2. ~Busy(q)
    BY <1>4, <1>7, <1>13, SMTT(30) DEF Busy, Active
  <2> QED  BY <1>4, <2>1, <2>2, Zenon DEF Out
<1>15. Cardinality(Out') = Cardinality(Out) + 1
  BY <1>14, OutFinite, Zenon DEF SetFacts
<1>16. NoParts => Cardinality(Out) = 1
  <2> SUFFICES ASSUME NoParts PROVE Cardinality(Out) = 1
    BY SMTT(30)
  <2>1. \A c \in Callers : Busy(c) <=> c = 0
    <3>1. pc = "split" /\ NothingOut
      BY <1>2, Zenon DEF Positions
    <3> HIDE DEF IoInv, Shape
    <3>2. \A c \in Callers : cpl[c].at = "none"
      BY <3>1, SMTT(30) DEF NothingOut, Idle
    <3>3. \A c \in Parts : io[c].st \notin Active
      BY SMTT(30) DEF NoParts, Active
    <3> QED  BY <3>1, <3>2, <3>3, SMTT(30) DEF Busy
  <2>2. Out = {0}
    BY <2>1, Zenon DEF Out
  <2> QED  BY <2>2, Zenon DEF SetFacts
<1>b. Cardinality(Out') > 0
  BY <1>15, OutFinite, SMTT(30)
<1>17. /\ master' \in MasterRec /\ master'.alive /\ master'.remaining = Cardinality(Out')
       /\ master'.error = master.error
  <2>0. master \in MasterRec
    BY Zenon DEF Typed
  <2>a. master.remaining \in Int
    BY <2>0 DEF MasterRec
  <2>1. CASE NoParts
    <3>1. master' = [alive |-> TRUE, remaining |-> 2, error |-> FALSE]
      BY <1>6, <2>1, Zenon DEF HandlePart, LoopAndPart
    <3>2. master.error = FALSE
      BY <1>2, <2>0, <2>1, Zenon DEF Positions, NothingOut, MasterRec
    <3>3. /\ master' \in MasterRec /\ master'.alive /\ master'.remaining = 2
          /\ master'.error = FALSE
      BY <3>1, SMTT(30) DEF MasterRec
    <3>4. Cardinality(Out') = 2
      BY <1>15, <1>16, <2>1, SMTT(30)
    <3> QED  BY <3>2, <3>3, <3>4, ZenonT(60)
  <2>2. CASE ~NoParts
    <3>1. master' = [master EXCEPT !.remaining = master.remaining + 1]
      BY <1>6, <2>2 DEF HandlePart
    <3>2. master.remaining + 1 \in Int
      BY <2>a
    <3>3. MasterHas(master', master.alive, master.remaining + 1, master.error)
      BY <2>0, <3>1, <3>2, SetRemaining, Zenon
    <3>4. master.alive /\ master.remaining = Cardinality(Out)
      BY <1>11, <2>2, Zenon DEF Counting
    <3> QED  BY <1>15, <3>3, <3>4 DEF MasterHas
  <2> QED  BY <2>1, <2>2
<1>18. Typed' /\ \A i \in Ios : TokenOK(i, io[i])'
  <2>1. Typed'
    BY <1>8, <1>9, <1>10, <1>17, ZenonT(60) DEF Typed
  <2>2. \A i \in Ios : TokenOK(i, io[i])'
    BY <1>8, Zenon
  <2> QED  BY <2>1, <2>2, SMTT(30)
<1>19. Numbered'
  <2>1. \A p \in Parts : io'[p].st # "none" <=> p <= q
    BY <1>1, <1>4, <1>8, SMTT(30)
  <2>2. q \in Nat /\ q <= MaxParts /\ q + left' <= MaxParts /\ q + left' > 0
    BY <1>3, <1>4, <1>10, PartNumbers, Zenon
  <2> QED  BY <2>1, <2>2, Zenon DEF Numbered
<1>20. ~NoParts'
  BY <1>4, <1>8, Zenon DEF NoParts
<1>21. Positions'
  <2>1. /\ io'[Flush] = io[Flush] /\ io'[Discard] = io[Discard]
    BY <1>4, <1>8, Zenon
  <2> QED  BY <1>2, <1>9, <1>17, <1>20, <2>1, ZenonT(60) DEF Positions
<1>22. Counting'
  <2>1. \A p \in Parts : cpl'[p].at # "none" => io'[p].st = "done"
    BY <1>8, <1>9, <1>13, SMTT(30) DEF Counting
  <2> QED  BY <1>2, <1>9, <1>17, <1>20, <1>b, <2>1, Zenon DEF Counting
<1>23. Errors'
  <2>1. Remembered => Remembered'
    BY <1>7, <1>8, <1>9, <1>17, Zenon DEF Remembered
  <2>2. \A i \in Ios : io'[i].err => failed'
    BY <1>8, <1>9 DEF Errors
  <2> QED  BY <1>9, <1>17, <2>1, <2>2, ZenonT(60) DEF Errors
<1> QED  BY <1>12, <1>18, <1>19, <1>21, <1>22, <1>23, Zenon

\* An I/O that is completed.
LEMMA Completed ==
  ASSUME IoInv, NEW i \in Ios, io[i].st = "ending", io' = [io EXCEPT ![i].st = "done"]
  PROVE  /\ io' \in [Ios -> IoRec] /\ \A j \in Ios : TokenOK(j, io[j])'
         /\ io'[i].st = "done" /\ io'[i].err = io[i].err
         /\ \A j \in Ios \ {i} : io'[j] = io[j]
<1>1. PICK t \in IoRec : t = io[i]
  BY Zenon DEF IoInv, Shape, Typed
<1>2. PICK r : r = [t EXCEPT !.st = "done"]
  BY ZenonT(60)
<1>3. "done" \in States
  BY DEF States
<1>4. Has(r, "done", t.count, t.bios, t.err)
  BY <1>2, <1>3, SetSt, Zenon
<1>5. TokenOK(i, r)
  BY <1>1, <1>4 DEF IoInv, Shape, TokenOK, Has
<1>6. io' = [io EXCEPT ![i] = r]
  BY <1>1, <1>2, Zenon DEF IoInv, Shape, Typed
<1>7. r \in IoRec /\ r.st = "done" /\ r.err = t.err
  BY <1>4 DEF Has
<1>8. io'[i] = r /\ \A j \in Ios \ {i} : io'[j] = io[j]
  BY <1>6, Zenon DEF IoInv, Shape, Typed
<1>9. io' \in [Ios -> IoRec]
  BY <1>6, <1>7, Zenon DEF IoInv, Shape, Typed
<1>10. \A j \in Ios : TokenOK(j, io'[j])
  BY <1>5, <1>8, Zenon DEF IoInv, Shape
<1> QED  BY <1>1, <1>7, <1>8, <1>9, <1>10, SMTT(30)

LEMMA CompletePartKeeps ==
  ASSUME IoInv, BoundsNat, NEW p \in Parts, CompletePart(p)
  PROVE  IoInv'
<1> USE Names DEF IoInv, Shape
<1>1. /\ master.alive /\ pc \in {"split", "wait"} /\ master.remaining = Cardinality(Out)
      /\ io[p].st = "ending"
  BY MasterAlive DEF CompletePart, Active
<1>2. /\ io' \in [Ios -> IoRec] /\ (\A j \in Ios : TokenOK(j, io[j])')
      /\ io'[p].st = "done" /\ io'[p].err = io[p].err
      /\ \A j \in Ios \ {p} : io'[j] = io[j]
  BY <1>1, Completed, Zenon DEF CompletePart
<1>3. PICK e \in BOOLEAN : e = io[p].err
  BY Fields, Zenon DEF Typed
<1>4. PICK r : r = [at |-> "load", seen |-> FALSE, err |-> e]
  BY Zenon
<1>5. r \in CallerRec /\ r.at = "load" /\ r.seen = FALSE /\ r.err = e
  BY <1>4 DEF CallerRec
<1>6. /\ cpl' \in [Callers -> CallerRec] /\ cpl'[p] = r
      /\ \A d \in Callers \ {p} : cpl'[d] = cpl[d]
  BY <1>3, <1>4, <1>5, Zenon DEF Typed, Enter, CompletePart
<1>7. UNCHANGED <<flush, payload, lost, pc, left, master, ends, failed>> /\ ~ioFault'
  BY <1>1, ZenonT(60) DEF CompletePart, fixed
<1>8. Typed'
  BY <1>2, <1>6, <1>7, Zenon DEF Typed
<1>9. \A j \in Ios : io'[j].st = "none" <=> io[j].st = "none"
  BY <1>1, <1>2, Zenon
<1>10. Numbered' /\ (NoParts' <=> NoParts)
  BY <1>7, <1>9, Zenon DEF Numbered, NoParts
<1>11. Positions'
  <2>1. io'[Flush] = io[Flush] /\ io'[Discard] = io[Discard] /\ cpl'[0] = cpl[0]
    BY <1>2, <1>6, Zenon
  <2>2. ~NoParts
    BY <1>1, Zenon DEF NoParts
  <2> QED  BY <1>1, <1>7, <1>10, <2>1, <2>2, ZenonT(60) DEF Positions
<1>12. Out' = Out
  <2>1. \A c \in Callers : Busy(c)' <=> Busy(c)
    BY <1>1, <1>2, <1>5, <1>6, <1>7, Zenon DEF Busy, Active
  <2> QED  BY <2>1, Zenon DEF Out
<1>13. Counting'
  <2>1. \A c \in Parts : cpl'[c].at # "none" => io'[c].st = "done"
    <3>1. \A c \in Parts : cpl[c].at # "none" => io[c].st = "done"
      BY Zenon DEF Counting
    <3> HIDE DEF IoInv, Shape
    <3> QED  BY <1>2, <1>6, <3>1, SMTT(30)
  <2>2. \A c \in Callers : cpl'[c].at = "none" => cpl'[c] = Idle
    <3>1. \A c \in Callers : cpl[c].at = "none" => cpl[c] = Idle
      BY Zenon DEF Counting
    <3> HIDE DEF IoInv, Shape
    <3> QED  BY <1>5, <1>6, <3>1, SMTT(30)
  <2> QED  BY <1>1, <1>7, <1>10, <1>12, <2>1, <2>2, ZenonT(60) DEF Counting
<1>14. Errors'
  <2>1. Remembered => Remembered'
    BY <1>1, <1>2, <1>3, <1>5, <1>6, <1>7, ZenonT(60) DEF Remembered, Counting
  <2>2. \A i \in Ios : io'[i].err => failed'
    BY <1>2, <1>7, Zenon DEF Errors
  <2>3. \A d \in Callers : cpl'[d].seen \/ cpl'[d].err => failed'
    BY <1>3, <1>5, <1>6, <1>7, Zenon DEF Errors
  <2> QED  BY <1>7, <2>1, <2>2, <2>3, Zenon DEF Errors
<1> QED  BY <1>2, <1>7, <1>8, <1>10, <1>11, <1>13, <1>14, Zenon

-----------------------------------------------------------------------------
(* The end of a flush or of a discard.                                     *)

\* Nothing else is under way.
LEMMA AloneUnderWay ==
  ASSUME IoInv, BoundsNat, NEW i \in {Flush, Discard}, io[i].st = "ending"
  PROVE  /\ pc = "wait" /\ NoParts /\ NothingOut /\ ends = <<>>
         /\ \A j \in Ios \ {i} : io[j].st = "none" /\ ~io[j].err
         /\ i = Flush => flush
<1> USE Names DEF IoInv, Shape
<1>1. /\ pc \notin {"submit", "deferred", "handle", "noflush", "deferred noflush", "split", "ended"}
      /\ ~(pc = "wait" /\ master.alive)
  BY ZenonT(60) DEF Positions
<1>2. pc = "wait" /\ ~master.alive
  BY <1>1, ZenonT(60) DEF Typed
<1>3. /\ NoParts /\ NothingOut /\ ends = <<>> /\ (i = Flush => flush)
      /\ io[Discard].st = "none" \/ (io[Flush].st = "none" /\ ~flush)
  BY <1>2, Zenon DEF Positions
<1>4. \A j \in Ios \ {i} : io[j].st = "none"
  BY <1>3 DEF NoParts
<1> QED  BY <1>2, <1>3, <1>4, Zenon DEF TokenOK

\* The request ends with it.
LEMMA EndsWithIo ==
  ASSUME IoInv, BoundsNat, NEW i \in {Flush, Discard}, io[i].st = "ending",
         io' = [io EXCEPT ![i].st = "done"], NEW e \in BOOLEAN, End(e),
         io[i].err => e, e => failed', failed => failed', failed' => failed \/ e,
         failed' \in BOOLEAN, UNCHANGED <<fixed, left, master, cpl, ioFault>>
  PROVE  IoInv'
<1> USE Names DEF IoInv, Shape
<1>1. /\ pc = "wait" /\ NoParts /\ NothingOut /\ ends = <<>>
      /\ \A j \in Ios \ {i} : io[j].st = "none" /\ ~io[j].err
      /\ i = Flush => flush
  BY AloneUnderWay
<1>a. i \in Ios
  OBVIOUS
<1>2. /\ io' \in [Ios -> IoRec] /\ (\A j \in Ios : TokenOK(j, io[j])')
      /\ io'[i].st = "done" /\ io'[i].err = io[i].err
      /\ \A j \in Ios \ {i} : io'[j] = io[j]
  BY <1>a, Completed, Zenon
<1>3. /\ ends' = <<e>> /\ ends' # <<>> /\ (e <=> ends' = <<TRUE>>)
      /\ ends' \in {<<>>, <<TRUE>>, <<FALSE>>} /\ pc' = "ended"
  BY <1>1, OneEnd, Zenon DEF End
<1>4. UNCHANGED <<flush, payload, lost, left, master, cpl>> /\ ~ioFault'
  BY DEF fixed
<1>5. Typed'
  BY <1>2, <1>3, <1>4, ZenonT(60) DEF Typed
<1>6. NoParts' /\ NothingOut'
  <2>1. \A p \in Parts : io'[p] = io[p]
    BY <1>2
  <2> QED  BY <1>1, <1>4, <2>1, Zenon DEF NoParts, NothingOut
<1>7. Numbered'
  <2>1. \A p \in Parts : io'[p] = io[p]
    BY <1>2
  <2> QED  BY <1>3, <2>1, Zenon DEF Numbered
<1>8. Positions'
  <2>1. \A j \in Ios : io'[j].st \in {"none", "done"}
    BY <1>1, <1>2
  <2>2. io'[Flush].st # "none" => flush'
    BY <1>1, <1>2, <1>4, Zenon
  <2> QED  BY <1>3, <1>6, <2>1, <2>2, ZenonT(60) DEF Positions
<1>9. Counting'
  BY <1>1, <1>4 DEF Counting, NothingOut, Idle
<1>10. Errors'
  <2>1. Remembered => e
    <3>1. \A c \in Callers : cpl[c].at \notin {"load", "store"}
      BY <1>1 DEF NothingOut, Idle
    <3>2. ~master.error /\ ends # <<TRUE>>
      BY <1>1 DEF NothingOut
    <3> QED  BY <1>1, <3>1, <3>2, Zenon DEF Remembered
  <2>2. failed' /\ ~lost' => e
    BY <1>4, <2>1 DEF Errors
  <2>3. e => Remembered'
    BY <1>3 DEF Remembered
  <2>4. \A j \in Ios : io'[j].err => failed'
    BY <1>1, <1>2
  <2>5. \A c \in Callers : cpl'[c].seen \/ cpl'[c].err => failed'
    BY <1>4 DEF Errors
  <2>6. ~master'.error
    BY <1>6, SMTT(30) DEF NothingOut
  <2> QED  BY <1>3, <2>2, <2>3, <2>4, <2>5, <2>6, Zenon DEF Errors
<1> QED  BY <1>2, <1>4, <1>5, <1>7, <1>8, <1>9, <1>10, Zenon

\* Nothing fails, and what was remembered is.
LEMMA ErrorsStay ==
  ASSUME Errors, UNCHANGED <<master, cpl, ends, failed, lost>>,
         \A i \in Ios : ~io'[i].err, Remembered => Remembered'
  PROVE  Errors'
  BY Zenon DEF Errors

\* The data follow a flush that succeeded.
LEMMA DataFollow ==
  ASSUME IoInv, BoundsNat, io[Flush].st = "ending", io' = [io EXCEPT ![Flush].st = "done"],
         ~io[Flush].err, pc' = "deferred noflush",
         UNCHANGED <<fixed, left, master, cpl, ends, failed, ioFault>>
  PROVE  IoInv'
<1> USE Names DEF IoInv, Shape
<1>1. /\ pc = "wait" /\ NoParts /\ NothingOut /\ ends = <<>>
      /\ \A j \in Ios \ {Flush} : io[j].st = "none" /\ ~io[j].err
      /\ flush
  BY AloneUnderWay, Zenon
<1>2. /\ io' \in [Ios -> IoRec] /\ (\A j \in Ios : TokenOK(j, io[j])')
      /\ io'[Flush].st = "done" /\ io'[Flush].err = io[Flush].err
      /\ \A j \in Ios \ {Flush} : io'[j] = io[j]
  BY Completed, Zenon
<1>3. UNCHANGED <<flush, payload, lost, left, master, cpl, ends, failed>> /\ ~ioFault'
  BY Zenon DEF fixed
<1>4. Typed'
  BY <1>2, <1>3, Zenon DEF Typed
<1>5. \A p \in Parts : io'[p] = io[p]
  BY <1>2, Zenon
<1>6. NoParts' /\ NothingOut' /\ Numbered'
  BY <1>1, <1>3, <1>5, ZenonT(60) DEF NoParts, NothingOut, Numbered
<1>7. Positions'
  <2>1. io'[Discard].st = "none" /\ ~io'[Flush].err
    BY <1>1, <1>2, Zenon
  <2> QED  BY <1>1, <1>2, <1>3, <1>6, <2>1, ZenonT(60) DEF Positions
<1>8. Counting'
  BY <1>1, <1>3, Zenon DEF Counting, NothingOut, Idle
<1>9. Errors'
  <2>1. \A j \in Ios : ~io[j].err /\ ~io'[j].err
    BY <1>1, <1>2, ZenonT(60)
  <2>2. Remembered => Remembered'
    BY <1>3, <2>1, Zenon DEF Remembered
  <2> QED  BY <1>3, <2>1, <2>2, ErrorsStay, ZenonT(60)
<1> QED  BY <1>2, <1>3, <1>4, <1>6, <1>7, <1>8, <1>9, Zenon

LEMMA CompleteFlushKeeps ==
  ASSUME IoInv, BoundsNat, CompleteFlush
  PROVE  IoInv'
<1>1. /\ io[Flush].st = "ending" /\ io' = [io EXCEPT ![Flush].st = "done"]
      /\ UNCHANGED <<fixed, left, master, cpl, ioFault>>
  BY ZenonT(60) DEF CompleteFlush
<1>2. PICK e \in BOOLEAN : e = io[Flush].err
  BY Fields, Names, ZenonT(60) DEF IoInv, Shape, Typed
<1>3. failed \in BOOLEAN /\ (io[Flush].err => failed)
  BY Names, Zenon DEF IoInv, Shape, Typed, Errors
<1>4. CASE End(e) /\ failed' = failed
  BY <1>1, <1>2, <1>3, <1>4, EndsWithIo, SMTT(30)
<1>5. CASE DeferTo("deferred noflush") /\ ~io[Flush].err
  BY <1>1, <1>5, DataFollow, Zenon DEF DeferTo
<1>6. CASE DeferFails
  <2>1. End(TRUE) /\ failed' = TRUE /\ TRUE \in BOOLEAN
    BY <1>6, ZenonT(60) DEF DeferFails
  <2> QED  BY <1>1, <2>1, EndsWithIo, Zenon
<1> QED  BY <1>2, <1>4, <1>5, <1>6, ZenonT(60) DEF CompleteFlush, Defer

LEMMA CompleteDiscardKeeps ==
  ASSUME IoInv, BoundsNat, CompleteDiscard
  PROVE  IoInv'
<1>1. PICK e \in BOOLEAN : e = io[Discard].err
  BY Fields, Names, ZenonT(60) DEF IoInv, Shape, Typed
<1>2. failed \in BOOLEAN /\ (io[Discard].err => failed)
  BY Names, Zenon DEF IoInv, Shape, Typed, Errors
<1>3. /\ io[Discard].st = "ending" /\ io' = [io EXCEPT ![Discard].st = "done"]
      /\ End(e) /\ failed' = failed /\ UNCHANGED <<fixed, left, master, cpl, ioFault>>
  BY <1>1 DEF CompleteDiscard
<1> QED  BY <1>1, <1>2, <1>3, EndsWithIo, SMTT(30)

LEMMA TopKeeps ==
  ASSUME SetFacts, IoInv, BoundsNat, TopStep
  PROVE  IoInv'
<1>1. CASE Submit
  BY <1>1, SubmitKeeps
<1>2. CASE DeferredWork \/ HandleNoFlush \/ NewIoFails \/ HandleEmpty \/ HandleData
  BY <1>2, HandledWithoutIo
<1>3. CASE HandleFlush
  BY <1>3, OneIo, Zenon DEF HandleFlush
<1>4. CASE HandleDiscard
  <2>1. ~flush
    BY <1>4 DEF HandleDiscard, IoInv, Shape, Typed
  <2> QED  BY <1>4, <2>1, OneIo, Zenon DEF HandleDiscard
<1>5. CASE HandlePart
  BY <1>5, HandlePartKeeps
<1>6. CASE PartFails \/ LoopDone
  BY <1>6, LoopStops
<1>7. CASE CompleteFlush \/ CompleteDiscard
  BY <1>7, CompleteFlushKeeps, CompleteDiscardKeeps, SMTT(30)
<1>8. CASE \E p \in Parts : CompletePart(p)
  BY <1>8, CompletePartKeeps
<1>9. CASE \E c \in Callers : LoadError(c) \/ StoreError(c) \/ DecRemaining(c)
  BY <1>9, LoadErrorKeeps, StoreErrorKeeps, DecRemainingKeeps, LastCallerKeeps, Zenon
<1> QED  BY <1>1, <1>2, <1>3, <1>4, <1>5, <1>6, <1>7, <1>8, <1>9, Zenon DEF TopStep

LEMMA StutterKeeps == ASSUME IoInv, UNCHANGED ioVars PROVE IoInv'
<1>1. UNCHANGED <<flush, payload, pc, left, io, master, cpl, ends, failed, lost, ioFault>>
  BY Zenon DEF ioVars
<1>2. Out' = Out /\ (NoParts' <=> NoParts) /\ (NothingOut' <=> NothingOut)
  BY <1>1, SMTT(30) DEF Out, Busy, NoParts, NothingOut
<1>3. Typed' /\ Numbered' /\ \A i \in Ios : TokenOK(i, io[i])'
  BY <1>1, ZenonT(60) DEF IoInv, Shape, Typed, Numbered, TokenOK
<1>4. Positions' /\ Counting'
  BY <1>1, <1>2, ZenonT(60) DEF IoInv, Shape, Positions, Counting
<1>5. Errors'
  BY <1>1, Zenon DEF IoInv, Errors, Remembered
<1> QED  BY <1>1, <1>3, <1>4, <1>5, Zenon DEF IoInv, Shape

LEMMA ZeroOrOne == \A n : n = 0 \/ n = 1 => n <= 1
  OBVIOUS

LEMMA AtMostOne ==
  ASSUME NEW s \in {<<>>, <<TRUE>>, <<FALSE>>}
  PROVE  Len(s) <= 1
<1>1. Len(<<>>) = 0 /\ Len(<<TRUE>>) = 1 /\ Len(<<FALSE>>) = 1
  OBVIOUS
<1>2. Len(s) = 0 \/ Len(s) = 1
  BY <1>1, Zenon
<1> QED  BY <1>2, ZeroOrOne, Zenon

LEMMA EndsFollow ==
  ASSUME SetFacts, BoundsNat, IoInv
  PROVE  EndsExact
<1> USE Names DEF IoInv, Shape
<1>1. Len(ends) <= 1
  BY AtMostOne, ZenonT(60) DEF Typed
<1>2. \A i \in Ios : io[i].count = io[i].bios + (IF io[i].st = "forwarding" THEN 1 ELSE 0)
  BY Zenon DEF TokenOK
<1>3. ends # <<>> => /\ \A i \in Ios : io[i].st \in {"none", "done"}
                     /\ \A c \in Callers : cpl[c] = Idle
                     /\ ~master.alive
  BY Zenon DEF Positions, NothingOut
<1>4. ends # <<>> => /\ ends[1] => failed
                     /\ failed => ends[1] \/ lost
  <2> SUFFICES ASSUME ends # <<>>
               PROVE  (ends[1] => failed) /\ (failed => ends[1] \/ lost)
    OBVIOUS
  <2>1. ends = <<TRUE>> \/ ends = <<FALSE>>
    BY Zenon DEF Typed
  <2>2. ends[1] <=> ends = <<TRUE>>
    <3>1. <<TRUE>>[1] = TRUE /\ <<FALSE>>[1] = FALSE
      BY Zenon
    <3> QED  BY <2>1, <3>1, ZenonT(60)
  <2>3. pc = "ended" /\ ~master.error /\ \A c \in Callers : cpl[c].at = "none"
    <3>1. pc = "ended"
      BY Zenon DEF Positions
    <3>2. ~master.error
      BY <3>1, Zenon DEF Positions, NothingOut
    <3>3. Idle.at = "none"
      BY Zenon DEF Idle
    <3> QED  BY <1>3, <3>1, <3>2, <3>3, Zenon
  <2>4. \A i \in Ios : io[i].st # "done" => ~io[i].err
    BY <1>3, SMTT(30) DEF TokenOK
  <2>5. Remembered => ends = <<TRUE>>
    BY <2>3, <2>4, Zenon DEF Remembered
  <2> QED  BY <2>2, <2>5, Zenon DEF Errors
<1>5. flush /\ (\E p \in Parts : io[p].st # "none") => io[Flush].st = "done" /\ ~io[Flush].err
  <2> SUFFICES ASSUME flush, ~NoParts
               PROVE  io[Flush].st = "done" /\ ~io[Flush].err
    BY DEF NoParts
  <2> QED  BY Zenon DEF Positions, Typed
<1>6. ends # <<>> \/ Pending
  <2> SUFFICES ASSUME pc = "wait" PROVE Pending
    BY Zenon DEF Pending, Positions, Typed
  <2>1. \A i \in Ios : io[i].st \in Active =>
            io[i].st \in {"submitted", "forwarding", "ending"} \/ io[i].bios > 0
    BY DEF Active, TokenOK
  <2>2. CASE ~master.alive
    BY <2>1, <2>2, Zenon DEF Positions, Pending
  <2>3. CASE master.alive
    <3>1. Out # {}
      <4>1. Cardinality(Out) > 0
        BY <2>3, Zenon DEF Counting
      <4>2. Cardinality({}) = 0
        BY DEF SetFacts
      <4>3. ~(0 > 0)
        OBVIOUS
      <4> QED  BY <4>1, <4>2, <4>3, Zenon
    <3>2. PICK c \in Callers : cpl[c].at # "none" \/ (c \in Parts /\ io[c].st \in Active)
      BY <3>1, Zenon DEF Out, Busy
    <3> QED  BY <2>1, <3>2, Zenon DEF Pending
  <2> QED  BY <2>2, <2>3, Zenon
<1> QED  BY <1>1, <1>2, <1>3, <1>4, <1>5, <1>6, Zenon DEF EndsExact

-----------------------------------------------------------------------------
INSTANCE FiniteSetTheorems

LEMMA SetFactsHold == SetFacts
<1>1. ASSUME NEW n \in Nat PROVE IsFiniteSet(1 .. n) /\ Cardinality(1 .. n) = n
  BY FS_Interval
<1>2. ASSUME NEW S, IsFiniteSet(S), NEW T \in SUBSET S
      PROVE  IsFiniteSet(T) /\ Cardinality(T) \in Nat
  BY <1>2, FS_Subset, FS_CardinalityType
<1>3. /\ Cardinality({}) = 0 /\ \A x : Cardinality({x}) = 1
      /\ \A S : IsFiniteSet(S) /\ Cardinality(S) = 1 => \E x : S = {x}
  BY FS_EmptySet, FS_Singleton, Zenon
<1>4. ASSUME NEW S, NEW x, IsFiniteSet(S)
      PROVE  /\ IsFiniteSet(S \cup {x})
             /\ x \notin S => Cardinality(S \cup {x}) = Cardinality(S) + 1
             /\ x \in S => Cardinality(S \ {x}) = Cardinality(S) - 1
  BY <1>4, FS_AddElement, FS_RemoveElement
<1> QED  BY <1>1, <1>2, <1>3, <1>4, Zenon DEF SetFacts

\* Whatever the number of parts and bios, and in whatever order they end:
\* master->remaining counts exactly the parts under way, the callers of
\* blkdev_complete_data_master and the loop of blkdev_handle_data; a token
\* has one reference per bio and one for its loop; and a failure is kept
\* somewhere until the request is ended with it, or is overwritten in
\* master->error, or was excused below as that of a discard
\* (vol_block_dev_top.c:191-398, vol_block_dev_bottom.c:128-361).
THEOREM RequestInvariant == BoundsNat => (IoSpec => []IoInv)
<1> SUFFICES ASSUME BoundsNat PROVE IoSpec => []IoInv
  OBVIOUS
<1>1. IoInit => IoInv
  BY Initial, Zenon
<1>2. IoInv /\ [IoNext]_ioVars => IoInv'
  BY SetFactsHold, TopKeeps, BelowKeeps, StutterKeeps, Zenon DEF IoNext
<1> QED  BY <1>1, <1>2, PTL DEF IoSpec

\* A request on an exported object is ended at most once, with nothing of it
\* still under way and with the error that it met, but for the errors that
\* EndsExact says the code loses; nobody uses its master after it was freed,
\* and its data follow a flush that ended without an error, for any number of
\* parts and bios (blkdev_complete_data_master and its callers,
\* vol_block_dev_top.c:191-398, cas_bd_forward_end,
\* vol_block_dev_bottom.c:128-147).
THEOREM RequestEndsOnce == BoundsNat => (IoSpec => []EndsExact)
<1> SUFFICES ASSUME BoundsNat PROVE IoSpec => []EndsExact
  BY Zenon
<1>1. IoInv => EndsExact
  BY EndsFollow, SetFactsHold
<1> QED  BY <1>1, RequestInvariant, PTL
=============================================================================
