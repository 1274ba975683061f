------------------------------- MODULE Burst -------------------------------
(***************************************************************************)
(* BurstyApplication, which cuts bursts into fragments, and BurstSink, which *)
(* puts them together again, over a network that delivers datagrams late,   *)
(* out of order or not at all, but none of them twice.                      *)
(*                                                                          *)
(* One sender is modelled: BurstSink keeps a BurstHandler of its own for    *)
(* each.  A fragment is the number of its burst and its place in it; what   *)
(* else its SeqTsSizeFragHeader says follows from the size of the burst.    *)
(* The operators marked as a fault are slips that the code does not have.   *)
(***************************************************************************)
EXTENDS Integers, FiniteSets, SequencesExt

CONSTANTS BurstSizes,  \* the burst sizes the BurstGenerator yields
          MaxBursts,   \* the bursts it yields before it has no next one
          FragSize,    \* m_fragSize
          HeaderSize,  \* 24: SeqTsSizeFragHeader::GetSerializedSize
          Word         \* 2^16: fragment numbers and counts are uint16_t

ASSUME BurstAssumption ==
  /\ BurstSizes \subseteq Nat /\ MaxBursts \in Nat
  /\ HeaderSize \in Nat \ {0} /\ FragSize \in Nat /\ FragSize >= HeaderSize
  /\ Word \in Nat /\ Word > 2

VARIABLES
  sent,       \* the sizes of the bursts sent; their number is m_totTxBursts
  network,    \* the fragments under way
  lost,       \* the fragments that will never reach the sink
  current,    \* m_currentBurstSeq
  merged,     \* m_fragmentsMerged
  unordered,  \* m_unorderedFragments
  buffer,     \* m_burstBuffer, the fragments it was put together from
  received,   \* the bursts m_rxBurstTrace reported; their number is m_totRxBursts
  pc          \* running, or what ended the simulation

handler == <<current, merged, unordered, buffer>>
vars == <<sent, network, lost, handler, received, pc>>

Init ==
  /\ sent = <<>>
  /\ network = {} /\ lost = {}
  /\ current = 0 /\ merged = 0
  /\ unordered = {} /\ buffer = <<>>
  /\ received = <<>>
  /\ pc = "running"

-----------------------------------------------------------------------------
\* Fault: a last fragment smaller than the header is made larger without taking
\* the bytes from the one before.
PaddedLast(b) ==
  LET last == b % FragSize
  IN [i \in 1..b \div FragSize |-> FragSize]
       \o (IF last > 0 THEN <<IF last < HeaderSize THEN HeaderSize ELSE last>>
                        ELSE <<>>)

\* A fragment of n bytes, if that is more than none.
Present(n) == IF n > 0 THEN <<n>> ELSE <<>>

(***************************************************************************)
(* The sizes of the fragments of a burst of b bytes, headers included: full *)
(* ones and a remainder, which takes bytes from the fragment before it when *)
(* it is too small for the header.                                          *)
(***************************************************************************)
Fragments(b) ==
  LET whole == b \div FragSize
      full == IF whole = 0 THEN 0 ELSE whole - 1
      last == b % FragSize
      short == whole > 0 /\ last > 0 /\ last < HeaderSize
      secondToLast == IF whole = 0 THEN 0
                      ELSE IF short THEN FragSize + last - HeaderSize ELSE FragSize
  IN [i \in 1..full |-> FragSize]
       \o Present(secondToLast) \o Present(IF short THEN HeaderSize ELSE last)

\* The payload of a burst, the size its headers announce.
Payload(b) == b - HeaderSize * Len(Fragments(b))

\* SendFragmentedBurst, all of whose fragments are sent at once.  A generated
\* burst smaller than a header is passed over.
SendBurst(b) ==
  /\ pc = "running" /\ Len(sent) < MaxBursts /\ b >= HeaderSize
  /\ \A i \in DOMAIN Fragments(b) : Fragments(b)[i] >= HeaderSize
  /\ sent' = Append(sent, b)
  /\ network' = network \cup
       [burst : {Len(sent)}, frag : 0..Len(Fragments(b)) - 1]
  /\ UNCHANGED <<lost, handler, received, pc>>

\* SendFragmentedBurst aborts: a fragment would be smaller than its header.
SendAborts(b) ==
  /\ pc = "running" /\ Len(sent) < MaxBursts /\ b >= HeaderSize
  /\ \E i \in DOMAIN Fragments(b) : Fragments(b)[i] < HeaderSize
  /\ pc' = "aborted"
  /\ UNCHANGED <<sent, network, lost, handler, received>>

\* A fragment is dropped on its way, or finds the sink's socket closed.
Lose(m) ==
  /\ pc = "running"
  /\ network' = network \ {m} /\ lost' = lost \cup {m}
  /\ UNCHANGED <<sent, handler, received, pc>>

-----------------------------------------------------------------------------
\* The fields of the header of fragment m.
Size(m) == Payload(sent[m.burst + 1])
FragSeq(m) == m.frag % Word
Frags(m) == Len(Fragments(sent[m.burst + 1])) % Word

\* The bytes in a burst buffer.
BytesOf(s) ==
  FoldSeq(+, 0, [i \in DOMAIN s |-> Fragments(sent[s[i].burst + 1])[s[i].frag + 1] - HeaderSize])

\* Fault: any other burst counts as a new one.
IsOther(m) == m.burst # current

\* The fragment is the first of a new burst.
IsNewer(m) == m.burst > current

\* Fault: the fragments that wait are kept when a new burst starts.
KeptWaiting(m) == unordered

\* The fragments that wait, once a new burst has discarded those of the last.
Waiting(m) == IF IsNewer(m) THEN {} ELSE unordered
MergedBefore(m) == IF IsNewer(m) THEN 0 ELSE merged
BufferBefore(m) == IF IsNewer(m) THEN <<>> ELSE buffer

\* The end of FragmentReceived: a complete burst is reported, and its size has
\* to be right.
CheckComplete(m) ==
  IF merged' # Frags(m) THEN UNCHANGED <<received, pc>>
  ELSE IF BytesOf(buffer') = Size(m)
  THEN received' = Append(received, m.burst) /\ UNCHANGED pc
  ELSE pc' = "asserted" /\ UNCHANGED received

\* Fault: an if where the code has a while.
RunOfOne(n, waiting) ==
  SelectSeq(SetToSeq(waiting), LAMBDA u : FragSeq(u) = n + 1)

\* The fragments in waiting that follow fragment number n without a gap.
RunAfter(n, waiting) ==
  LET next == CHOOSE k \in n + 1..n + 1 + Cardinality(waiting) :
                /\ \A i \in n + 1..k - 1 : \E u \in waiting : FragSeq(u) = i
                /\ \A u \in waiting : FragSeq(u) # k
  IN [i \in 1..next - 1 - n |-> CHOOSE u \in waiting : FragSeq(u) = n + i]

\* Fault: the count is wider than the field.
WideCount(n) == n

\* The value of m_fragmentsMerged after n increments.
Count(n) == n % Word

\* The fragment is the next one: it is merged, with those that waited for it.
Merge(m) ==
  /\ FragSeq(m) = MergedBefore(m)
  /\ LET run == RunAfter(FragSeq(m), Waiting(m))
     IN /\ buffer' = BufferBefore(m) \o <<m>> \o run
        /\ merged' = Count(FragSeq(m) + 1 + Len(run))
        /\ unordered' = Waiting(m) \ ToSet(run)
  /\ CheckComplete(m)

\* The fragment came too early: it waits.
Store(m) ==
  /\ FragSeq(m) > MergedBefore(m)
  /\ unordered' = IF \E u \in Waiting(m) : FragSeq(u) = FragSeq(m)
                  THEN Waiting(m) ELSE Waiting(m) \cup {m}
  /\ merged' = MergedBefore(m) /\ buffer' = BufferBefore(m)
  /\ CheckComplete(m)

\* The fragment's number was merged before: NS_ASSERT_MSG.
Repeated(m) ==
  /\ FragSeq(m) < MergedBefore(m)
  /\ pc' = "asserted"
  /\ UNCHANGED <<merged, unordered, buffer, received>>

\* BurstSink::FragmentReceived, for each datagram HandleRead takes.
FragmentReceived(m) ==
  /\ pc = "running"
  /\ network' = network \ {m}
  /\ UNCHANGED <<sent, lost>>
  /\ \/ /\ Size(m) = 0
        /\ pc' = "aborted"
        /\ UNCHANGED <<handler, received>>
     \/ /\ Size(m) # 0 /\ ~IsNewer(m) /\ m.burst # current
        /\ UNCHANGED <<handler, received, pc>>
     \/ /\ Size(m) # 0 /\ (IsNewer(m) \/ m.burst = current)
        /\ current' = m.burst
        /\ Merge(m) \/ Store(m) \/ Repeated(m)

Next ==
  \/ \E b \in BurstSizes : SendBurst(b) \/ SendAborts(b)
  \/ \E m \in network : Lose(m) \/ FragmentReceived(m)

Spec == Init /\ [][Next]_vars

-----------------------------------------------------------------------------
\* The fragments of burst k.
AllOf(k) == [burst : {k}, frag : 0..Len(Fragments(sent[k + 1])) - 1]

\* The types of the fields; every fragment belongs to a burst that was sent, and
\* none that is lost is still under way.
TypeOK ==
  /\ sent \in Seq(BurstSizes) /\ Len(sent) <= MaxBursts
  /\ network \cup lost \cup unordered \cup ToSet(buffer)
       \subseteq UNION {AllOf(k) : k \in 0..Len(sent) - 1}
  /\ network \cap lost = {}
  /\ current \in Nat /\ merged \in 0..Word - 1
  /\ received \in Seq(Nat)
  /\ pc \in {"running", "aborted", "asserted"}

\* The uint16_t of the header can count the fragments of burst k.
Countable(k) == Len(Fragments(sent[k + 1])) < Word

\* The sink's assertions, on the fragment numbers and on the size of a complete
\* burst, never fail, whatever is lost or late, but on bursts of more fragments
\* than their uint16_t can count.
AssertsOnlyOnOverflow ==
  pc = "asserted" => ~Countable(current)

\* The fragments of every burst add up to it, and none is smaller than its
\* header, larger than the fragment size, or one too many.
CutExactly ==
  \A k \in DOMAIN sent :
    LET s == Fragments(sent[k])
    IN /\ FoldSeq(+, 0, s) = sent[k]
       /\ \A i \in DOMAIN s : s[i] \in HeaderSize..FragSize
       /\ (Len(s) - 1) * FragSize < sent[k]

\* A burst all of whose fragments have arrived before any of a later one has
\* been reported, whatever the order they came in (burst-sink.h: "If all
\* fragments from a burst are received, the burst is successfully received"); of
\* a burst that the uint16_t cannot count a fragment may pass for another one.
CompleteIsReported ==
  \A k \in 0..Len(sent) - 1 :
    /\ pc = "running" /\ k = current /\ Countable(k)
    /\ AllOf(k) \cap (network \cup lost) = {}
    => k \in ToSet(received)

\* Bursts are reported in the order they were sent and none of them twice, though
\* fragments of earlier bursts keep arriving.
ReportedInOrder ==
  \A i, j \in DOMAIN received : i < j => received[i] < received[j]

\* What is reported as a burst is that burst, all its fragments in order and none
\* of another one (for bursts that the uint16_t can count: larger ones may come
\* out in the wrong order, with no assertion to notice).
ReportedIntact ==
  [][received' # received /\ Countable(current') =>
       buffer' = [i \in 1..Len(Fragments(sent[current' + 1])) |->
                    [burst |-> current', frag |-> i - 1]]]_vars
=============================================================================
