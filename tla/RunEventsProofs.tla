-------------------------- MODULE RunEventsProofs ---------------------------
(***************************************************************************)
(* What RunEvents keeps of a Run's events, for files of any length, any    *)
(* limits on the copies, any number of checkpoints, failed writes and      *)
(* crashes: the types, that an honest Agent is accepted, that the end of   *)
(* the stream is announced after the last event, and that no event that    *)
(* was acknowledged or sent to a follower changes or comes back.           *)
(*                                                                         *)
(* The streams come first: every one of them is a history of which a range *)
(* after the first event is given up for a gap (Stream), and the copies    *)
(* and merges of the model are computed on those two.  Then what each      *)
(* action does to the ledger's events: they say what they said, and more   *)
(* (Grows, LedgerStep).  The invariants follow: Streams, Ended and Told.   *)
(***************************************************************************)
EXTENDS RunEvents, SequenceTheorems, TLAPS
-----------------------------------------------------------------------------
(* Streams.  Every stream of events in the system is the history of a Run, *)
(* a sequence of kinds, of which the events from the second to number g    *)
(* are given up for a gap; without a gap g is 1.  The last event is there. *)

Histories == {l \in Seq(Kinds) : 2 <= Len(l) /\ l[1] = "accepted"}
Cuts(l) == 1..(Len(l) - 1)

Size(l, g) == IF g = 1 THEN Len(l) ELSE Len(l) - g + 2
Stream(l, g) ==
    [i \in 1..Size(l, g) |->
       IF i = 1 \/ g = 1 THEN Event(i, l[i])
       ELSE IF i = 2 THEN Gap(g) ELSE Event(g + i - 2, l[g + i - 2])]

\* The numbers of the events that a stream still has.
Shown(l, g) == {1} \cup (g + 1)..Len(l)

\* What is in an entry.
LEMMA EntryIs ==
    /\ \A n, k : Event(n, k).seq = n /\ Event(n, k).kind = k /\ Event(n, k).last = n
    /\ \A g : Gap(g).seq = 2 /\ Gap(g).kind = "gap" /\ Gap(g).last = g
    /\ \A n \in Nat : \A k \in Kinds : Event(n, k) \in Items /\ IsEvent(Event(n, k))
    /\ \A g \in Nat : Gap(g) \in Items /\ ~IsEvent(Gap(g))
    BY DEF Event, Gap, Items, IsEvent, Kinds

\* A history has its first events, of their kinds.
LEMMA HistoryIs ==
    ASSUME NEW l \in Histories
    PROVE  /\ l \in Seq(Kinds) /\ Len(l) \in Nat /\ 2 <= Len(l) /\ l[1] = "accepted"
           /\ \A n \in 1..Len(l) : l[n] \in Kinds
           /\ Cuts(l) \subseteq Nat /\ 1 \in Cuts(l)
           /\ \A g \in Cuts(l) : 1 <= g /\ g < Len(l)
    BY DEF Histories, Cuts

\* The entries of a stream, by position.
LEMMA StreamIs ==
    ASSUME NEW l \in Histories, NEW g \in Cuts(l)
    PROVE  /\ Stream(l, g) \in Seq(Items) /\ Len(Stream(l, g)) = Size(l, g)
           /\ Size(l, g) \in Nat /\ 2 <= Size(l, g)
           /\ DOMAIN Stream(l, g) = 1..Size(l, g)
           /\ g = 1 => \A i \in 1..Size(l, g) : Stream(l, g)[i] = Event(i, l[i])
           /\ g # 1 => /\ Stream(l, g)[1] = Event(1, l[1]) /\ Stream(l, g)[2] = Gap(g)
                       /\ \A i \in 3..Size(l, g) : Stream(l, g)[i] = Event(g + i - 2, l[g + i - 2])
<1>1. /\ Len(l) \in Nat /\ 2 <= Len(l) /\ g \in Nat /\ 1 <= g /\ g < Len(l)
      /\ \A n \in 1..Len(l) : l[n] \in Kinds
    BY HistoryIs
<1>2. Size(l, g) \in Nat /\ 2 <= Size(l, g)
    BY <1>1 DEF Size
<1>3. PICK s : s = Stream(l, g)
    OBVIOUS
<1>4. DOMAIN s = 1..Size(l, g) /\ s = [i \in 1..Size(l, g) |-> s[i]]
    BY <1>3 DEF Stream
<1>5. ASSUME g = 1 PROVE \A i \in 1..Size(l, g) : s[i] = Event(i, l[i]) /\ s[i] \in Items
    BY <1>1, <1>3, <1>5, EntryIs DEF Stream, Size
<1>6. ASSUME g # 1 PROVE /\ s[1] = Event(1, l[1]) /\ s[2] = Gap(g) /\ s[1] \in Items /\ s[2] \in Items
    BY <1>1, <1>2, <1>3, <1>6, EntryIs DEF Stream
<1>7. ASSUME g # 1, NEW i \in 3..Size(l, g)
      PROVE  s[i] = Event(g + i - 2, l[g + i - 2]) /\ s[i] \in Items
    <2>1. g + i - 2 \in 1..Len(l)
        BY <1>1, <1>7 DEF Size
    <2>2. s[i] = Event(g + i - 2, l[g + i - 2])
        BY <1>3, <1>7 DEF Stream
    <2> QED
        BY <1>1, <2>1, <2>2, EntryIs
<1>8. \A i \in 1..Size(l, g) : s[i] \in Items
    BY <1>2, <1>5, <1>6, <1>7
<1>9. s \in [1..Size(l, g) -> Items]
    BY <1>4, <1>8
<1>10. s \in Seq(Items) /\ Len(s) = Size(l, g)
    BY <1>2, <1>9, SeqDef
<1> QED
    BY <1>2, <1>3, <1>4, <1>5, <1>6, <1>7, <1>10

\* What a stream has, as a set, and that it is in order.
LEMMA ContentIs ==
    ASSUME NEW l \in Histories, NEW g \in Cuts(l)
    PROVE  /\ Actual(Stream(l, g)) = {Event(n, l[n]) : n \in Shown(l, g)}
           /\ Gaps(Stream(l, g)) = IF g = 1 THEN {} ELSE {Gap(g)}
           /\ \A e : e \in Entries(Stream(l, g)) <=>
                       e \in {Event(n, l[n]) : n \in Shown(l, g)} \/ (g # 1 /\ e = Gap(g))
           /\ \A n : Inside(n, Stream(l, g)) <=> g # 1 /\ 2 <= n /\ n <= g
           /\ Final(Stream(l, g)) = Len(l)
           /\ Head(Stream(l, g)) = Event(1, "accepted")
           /\ Ordered(Stream(l, g))
<1>1. /\ Len(l) \in Nat /\ 2 <= Len(l) /\ g \in Nat /\ 1 <= g /\ g < Len(l) /\ l[1] = "accepted"
      /\ \A n \in 1..Len(l) : l[n] \in Kinds
    BY HistoryIs
<1>2. PICK s : s = Stream(l, g)
    OBVIOUS
<1>3. PICK z : z = Size(l, g)
    OBVIOUS
<1>4. /\ s \in Seq(Items) /\ Len(s) = z /\ z \in Nat /\ 2 <= z /\ DOMAIN s = 1..z
      /\ g = 1 => \A i \in 1..z : s[i] = Event(i, l[i])
      /\ g # 1 => /\ s[1] = Event(1, l[1]) /\ s[2] = Gap(g)
                  /\ \A i \in 3..z : s[i] = Event(g + i - 2, l[g + i - 2])
    BY <1>2, <1>3, StreamIs
<1>5. z = IF g = 1 THEN Len(l) ELSE Len(l) - g + 2
    BY <1>3 DEF Size
<1>6. ASSUME NEW e
      PROVE  e \in Entries(s) <=> e \in {Event(n, l[n]) : n \in Shown(l, g)} \/ (g # 1 /\ e = Gap(g))
    <2>1. CASE g = 1
        <3>1. Shown(l, g) = 1..z
            BY <1>1, <1>5, <2>1 DEF Shown
        <3> QED
            BY <1>4, <2>1, <3>1 DEF Entries
    <2>2. CASE g # 1
        <3>1. ASSUME e \in Entries(s)
              PROVE  e \in {Event(n, l[n]) : n \in Shown(l, g)} \/ e = Gap(g)
            <4>1. PICK i \in 1..z : e = s[i]
                BY <1>4, <3>1 DEF Entries
            <4>2. CASE i = 1
                BY <1>4, <2>2, <4>1, <4>2 DEF Shown
            <4>3. CASE i = 2
                BY <1>4, <2>2, <4>1, <4>3
            <4>4. CASE i \in 3..z
                <5>1. g + i - 2 \in Shown(l, g)
                    BY <1>1, <1>4, <1>5, <2>2, <4>4 DEF Shown
                <5> QED
                    BY <1>4, <2>2, <4>1, <4>4, <5>1
            <4> QED
                BY <1>4, <4>1, <4>2, <4>3, <4>4
        <3>2. ASSUME NEW n \in Shown(l, g), e = Event(n, l[n]) PROVE e \in Entries(s)
            <4>1. CASE n = 1
                BY <1>4, <2>2, <3>2, <4>1 DEF Entries
            <4>2. CASE n # 1
                <5>1. n - g + 2 \in 3..z /\ g + (n - g + 2) - 2 = n
                    BY <1>1, <1>4, <1>5, <2>2, <3>2, <4>2 DEF Shown
                <5>2. s[n - g + 2] = e
                    BY <1>4, <2>2, <3>2, <5>1
                <5> QED
                    BY <1>4, <5>1, <5>2 DEF Entries
            <4> QED
                BY <4>1, <4>2
        <3>3. Gap(g) \in Entries(s)
            BY <1>4, <2>2 DEF Entries
        <3> QED
            BY <2>2, <3>1, <3>2, <3>3
    <2> QED
        BY <2>1, <2>2
<1>7. \A n \in Shown(l, g) : n \in Nat /\ l[n] \in Kinds /\ IsEvent(Event(n, l[n]))
    BY <1>1, EntryIs DEF Shown
<1>8. ~IsEvent(Gap(g))
    BY <1>1, EntryIs
<1>9. \A e : e \in Actual(s) <=> e \in {Event(n, l[n]) : n \in Shown(l, g)}
    BY <1>6, <1>7, <1>8 DEF Actual
<1>10. \A e : e \in Gaps(s) <=> g # 1 /\ e = Gap(g)
    BY <1>6, <1>7, <1>8, <1>9 DEF Gaps, Actual
<1>11. Actual(s) = {Event(n, l[n]) : n \in Shown(l, g)}
    BY <1>9
<1>12. Gaps(s) = IF g = 1 THEN {} ELSE {Gap(g)}
    BY <1>10
<1>13. ASSUME NEW n PROVE Inside(n, s) <=> g # 1 /\ 2 <= n /\ n <= g
    BY <1>10, EntryIs DEF Inside
<1>14. Final(s) = Len(l)
    <2>1. CASE g = 1
        BY <1>1, <1>4, <1>5, <2>1, EntryIs DEF Final
    <2>2. CASE g # 1
        <3>1. z \in 3..z /\ g + z - 2 = Len(l)
            BY <1>1, <1>4, <1>5, <2>2
        <3> QED
            BY <1>4, <2>2, <3>1, EntryIs DEF Final
    <2> QED
        BY <2>1, <2>2
<1>15. s[1] = Event(1, "accepted") /\ Head(s) = s[1]
    BY <1>1, <1>4
<1>16. Ordered(s)
    <2>1. s[1].seq = 1
        BY <1>15, EntryIs
    <2>2. ASSUME NEW i \in 2..z PROVE s[i].seq = s[i - 1].last + 1
        <3>1. CASE g = 1
            <4>1. i \in 1..z /\ i - 1 \in 1..z /\ i = (i - 1) + 1
                BY <1>4, <2>2
            <4>2. s[i] = Event(i, l[i]) /\ s[i - 1] = Event(i - 1, l[i - 1])
                BY <1>4, <3>1, <4>1
            <4> QED
                BY <4>1, <4>2, EntryIs
        <3>2. CASE g # 1 /\ i = 2
            BY <1>1, <1>4, <3>2, EntryIs
        <3>3. CASE g # 1 /\ i = 3
            BY <1>1, <1>4, <2>2, <3>3, EntryIs
        <3>4. CASE g # 1 /\ i > 3
            <4>1. i \in 3..z /\ i - 1 \in 3..z
                BY <1>4, <2>2, <3>4
            <4>2. s[i] = Event(g + i - 2, l[g + i - 2]) /\ s[i - 1] = Event(g + (i - 1) - 2, l[g + (i - 1) - 2])
                BY <1>4, <3>4, <4>1
            <4>3. s[i].seq = g + i - 2 /\ s[i - 1].last = g + (i - 1) - 2
                BY <4>2, EntryIs
            <4> QED
                BY <1>1, <4>1, <4>3
        <3> QED
            BY <2>2, <3>1, <3>2, <3>3, <3>4
    <2>3. ASSUME NEW i \in 3..z PROVE IsEvent(s[i])
        <3>1. CASE g = 1
            <4>1. i \in 1..Len(l) /\ i \in 1..z /\ i \in Nat
                BY <1>4, <1>5, <2>3, <3>1
            <4> QED
                BY <1>1, <1>4, <3>1, <4>1, EntryIs
        <3>2. CASE g # 1
            <4>1. g + i - 2 \in 1..Len(l) /\ g + i - 2 \in Nat
                BY <1>1, <1>4, <1>5, <2>3, <3>2
            <4> QED
                BY <1>1, <1>4, <2>3, <3>2, <4>1, EntryIs
        <3> QED
            BY <3>1, <3>2
    <2> QED
        BY <1>4, <2>1, <2>2, <2>3 DEF Ordered
<1> QED
    BY <1>2, <1>6, <1>11, <1>12, <1>13, <1>14, <1>15, <1>16

\* A file of lines is the stream of its history without a gap.
LEMMA NumberedIs == ASSUME NEW l \in Histories PROVE Numbered(l) = Stream(l, 1)
<1>1. l \in Seq(Kinds) /\ Len(l) \in Nat /\ 1 \in Cuts(l)
    BY HistoryIs
<1>2. DOMAIN l = 1..Len(l)
    BY <1>1
<1> QED
    BY <1>2 DEF Numbered, Stream, Size

\* The newest entries of a sequence.
LEMMA NewestIs ==
    ASSUME NEW t \in Seq(Items), NEW n \in Int, NEW k \in Nat,
           k = IF n < 0 THEN 0 ELSE IF Len(t) <= n THEN Len(t) ELSE n
    PROVE  /\ Newest(t, n) \in Seq(Items) /\ Len(Newest(t, n)) = k
           /\ \A i \in 1..k : Newest(t, n)[i] = t[Len(t) - k + i]
<1>1. Len(t) \in Nat /\ \A i \in 1..Len(t) : t[i] \in Items
    BY ElementOfSeq, LenProperties
<1>2. CASE Len(t) <= n
    <2>1. k = Len(t) /\ Newest(t, n) = t
        BY <1>1, <1>2 DEF Newest
    <2>2. \A i \in 1..k : Len(t) - k + i = i
        BY <1>1, <2>1
    <2> QED
        BY <2>1, <2>2
<1>3. CASE Len(t) > n /\ n < 0
    <2>1. \A i \in (Len(t) - n + 1)..Len(t) : t[i] \in Items
        BY <1>1, <1>3
    <2>2. /\ SubSeq(t, Len(t) - n + 1, Len(t)) \in Seq(Items)
          /\ Len(SubSeq(t, Len(t) - n + 1, Len(t))) = 0
        BY <1>1, <1>3, <2>1, SubSeqProperties
    <2> QED
        BY <1>1, <1>3, <2>2 DEF Newest
<1>4. CASE Len(t) > n /\ 0 <= n
    <2>1. \A i \in (Len(t) - n + 1)..Len(t) : t[i] \in Items
        BY <1>1, <1>4
    <2>2. k = n /\ Newest(t, n) = SubSeq(t, Len(t) - n + 1, Len(t))
        BY <1>1, <1>4 DEF Newest
    <2>3. PICK a \in Int : a = Len(t) - n + 1
        BY <1>1
    <2>4. /\ SubSeq(t, a, Len(t)) \in Seq(Items)
          /\ Len(SubSeq(t, a, Len(t))) = IF a <= Len(t) THEN Len(t) - a + 1 ELSE 0
          /\ \A i \in 1..(Len(t) - a + 1) : SubSeq(t, a, Len(t))[i] = t[a + i - 1]
        BY <1>1, <2>1, <2>3, SubSeqProperties
    <2>5. Len(t) - a + 1 = n /\ (a <= Len(t) <=> n # 0)
        BY <1>1, <1>4, <2>3
    <2>6. Len(SubSeq(t, a, Len(t))) = k
        BY <2>2, <2>4, <2>5
    <2>7. ASSUME NEW i \in 1..n PROVE SubSeq(t, a, Len(t))[i] = t[Len(t) - n + i]
        <3>1. a + i - 1 = Len(t) - n + i
            BY <1>1, <2>3, <2>7
        <3>2. SubSeq(t, a, Len(t))[i] = t[a + i - 1]
            BY <2>4, <2>5, <2>7
        <3> QED
            BY <3>1, <3>2
    <2>8. Newest(t, n) = SubSeq(t, a, Len(t))
        BY <2>2, <2>3
    <2> QED
        BY <2>2, <2>4, <2>6, <2>7, <2>8
<1>5. Len(t) <= n \/ (Len(t) > n /\ n < 0) \/ (Len(t) > n /\ 0 <= n)
    BY <1>1
<1> QED
    BY <1>2, <1>3, <1>4, <1>5

\* A stream from its first event, its gap and the events after the gap.
LEMMA JoinIs ==
    ASSUME NEW l \in Histories, NEW h \in Cuts(l), NEW t \in Seq(Items), Len(t) = Len(l) - h,
           \A i \in 1..Len(t) : t[i] = Event(h + i, l[h + i])
    PROVE  /\ h = 1 => (<<Event(1, "accepted")>> \o <<>>) \o t = Stream(l, h)
           /\ h # 1 => (<<Event(1, "accepted")>> \o <<Gap(h)>>) \o t = Stream(l, h)
           /\ h # 1 => <<Event(1, "accepted"), Gap(h)>> \o t = Stream(l, h)
<1>1. /\ Len(l) \in Nat /\ 2 <= Len(l) /\ h \in Nat /\ 1 <= h /\ h < Len(l) /\ l[1] = "accepted"
    BY HistoryIs
<1>2. PICK s : s = Stream(l, h)
    OBVIOUS
<1>3. PICK z : z = Size(l, h)
    OBVIOUS
<1>4. /\ s \in Seq(Items) /\ Len(s) = z /\ z \in Nat /\ 2 <= z /\ DOMAIN s = 1..z
      /\ h = 1 => \A i \in 1..z : s[i] = Event(i, l[i])
      /\ h # 1 => /\ s[1] = Event(1, l[1]) /\ s[2] = Gap(h)
                  /\ \A i \in 3..z : s[i] = Event(h + i - 2, l[h + i - 2])
    BY <1>2, <1>3, StreamIs
<1>5. z = IF h = 1 THEN Len(l) ELSE Len(l) - h + 2
    BY <1>3 DEF Size
<1>6. PICK a : a = Event(1, "accepted")
    OBVIOUS
<1>7. PICK b : b = Gap(h)
    OBVIOUS
<1>8. a \in Items /\ b \in Items
    BY <1>1, <1>6, <1>7, EntryIs DEF Kinds
<1>9. CASE h = 1
    <2>1. <<a>> \in Seq(Items) /\ Len(<<a>>) = 1 /\ <<a>>[1] = a /\ <<a>> \o <<>> = <<a>>
        BY <1>8
    <2>2. PICK u : u = <<a>> \o t
        OBVIOUS
    <2>3. /\ u \in Seq(Items) /\ Len(u) = 1 + Len(t)
          /\ \A i \in 1..(1 + Len(t)) : u[i] = IF i <= 1 THEN <<a>>[i] ELSE t[i - 1]
        BY <2>1, <2>2, ConcatProperties
    <2>4. Len(u) = Len(s)
        BY <1>1, <1>4, <1>5, <1>9, <2>3
    <2>5. ASSUME NEW i \in 1..Len(u) PROVE u[i] = s[i]
        <3>1. CASE i = 1
            BY <1>1, <1>4, <1>6, <1>9, <2>1, <2>3, <3>1
        <3>2. CASE i # 1
            <4>1. i - 1 \in 1..Len(t) /\ h + (i - 1) = i
                BY <1>1, <1>9, <2>3, <2>5, <3>2
            <4>2. u[i] = t[i - 1]
                BY <2>3, <2>5, <3>2
            <4>3. t[i - 1] = Event(i, l[i])
                BY <4>1
            <4> QED
                BY <1>4, <1>9, <2>4, <2>5, <4>2, <4>3
        <3> QED
            BY <3>1, <3>2
    <2>6. u = s
        BY <1>4, <2>3, <2>4, <2>5, SeqEqual
    <2> QED
        BY <1>2, <1>6, <1>9, <2>1, <2>2, <2>6
<1>10. CASE h # 1
    <2>1. <<a, b>> \in Seq(Items) /\ Len(<<a, b>>) = 2 /\ <<a, b>>[1] = a /\ <<a, b>>[2] = b
        BY <1>8
    <2>2. <<a>> \o <<b>> = <<a, b>>
        <3>1. /\ <<a>> \in Seq(Items) /\ Len(<<a>>) = 1 /\ <<a>>[1] = a
              /\ <<b>> \in Seq(Items) /\ Len(<<b>>) = 1 /\ <<b>>[1] = b
            BY <1>8
        <3>2. PICK u : u = <<a>> \o <<b>>
            OBVIOUS
        <3>3. /\ u \in Seq(Items) /\ Len(u) = 1 + 1
              /\ \A i \in 1..(1 + 1) : u[i] = IF i <= 1 THEN <<a>>[i] ELSE <<b>>[i - 1]
            BY <3>1, <3>2, ConcatProperties
        <3>4. u[1] = a /\ u[2] = b /\ Len(u) = 2
            BY <3>1, <3>3
        <3>5. \A i \in 1..2 : u[i] = <<a, b>>[i]
            BY <2>1, <3>4
        <3> QED
            BY <2>1, <3>2, <3>3, <3>4, <3>5, SeqEqual
    <2>3. PICK u : u = <<a, b>> \o t
        OBVIOUS
    <2>4. /\ u \in Seq(Items) /\ Len(u) = 2 + Len(t)
          /\ \A i \in 1..(2 + Len(t)) : u[i] = IF i <= 2 THEN <<a, b>>[i] ELSE t[i - 2]
        BY <2>1, <2>3, ConcatProperties
    <2>5. Len(u) = Len(s)
        BY <1>1, <1>4, <1>5, <1>10, <2>4
    <2>6. ASSUME NEW i \in 1..Len(u) PROVE u[i] = s[i]
        <3>1. CASE i = 1 \/ i = 2
            BY <1>1, <1>4, <1>6, <1>7, <1>10, <2>1, <2>4, <3>1
        <3>2. CASE i \in 3..Len(u)
            <4>1. i - 2 \in 1..Len(t) /\ h + (i - 2) = h + i - 2
                BY <1>1, <2>4, <3>2
            <4>2. u[i] = t[i - 2]
                BY <2>4, <3>2
            <4>3. t[i - 2] = Event(h + i - 2, l[h + i - 2])
                BY <4>1
            <4> QED
                BY <1>4, <1>10, <2>5, <3>2, <4>2, <4>3
        <3> QED
            BY <2>4, <2>6, <3>1, <3>2
    <2>7. u = s
        BY <1>4, <2>4, <2>5, <2>6, SeqEqual
    <2> QED
        BY <1>2, <1>6, <1>7, <1>10, <2>2, <2>3, <2>7
<1> QED
    BY <1>9, <1>10

-----------------------------------------------------------------------------
(* What the operators of the model do to streams.                          *)

\* The events after the gap of a stream.
LEMMA FollowingIs ==
    ASSUME NEW l \in Histories, NEW g \in Cuts(l)
    PROVE  /\ Following(Stream(l, g)) \in Seq(Items)
           /\ Len(Following(Stream(l, g))) = Len(l) - g
           /\ \A i \in 1..(Len(l) - g) : Following(Stream(l, g))[i] = Event(g + i, l[g + i])
<1>1. Len(l) \in Nat /\ 2 <= Len(l) /\ g \in Nat /\ 1 <= g /\ g < Len(l)
    BY HistoryIs
<1>2. PICK s : s = Stream(l, g)
    OBVIOUS
<1>3. PICK z : z = Size(l, g)
    OBVIOUS
<1>4. /\ s \in Seq(Items) /\ Len(s) = z /\ z \in Nat /\ 2 <= z
      /\ g = 1 => \A i \in 1..z : s[i] = Event(i, l[i])
      /\ g # 1 => \A i \in 3..z : s[i] = Event(g + i - 2, l[g + i - 2])
    BY <1>2, <1>3, StreamIs
<1>5. z = IF g = 1 THEN Len(l) ELSE Len(l) - g + 2
    BY <1>3 DEF Size
<1>6. Gaps(s) = IF g = 1 THEN {} ELSE {Gap(g)}
    BY <1>2, ContentIs
<1>7. PICK a \in Int : a = IF g = 1 THEN 2 ELSE 3
    OBVIOUS
<1>8. Following(s) = SubSeq(s, a, z)
    BY <1>4, <1>6, <1>7 DEF Following
<1>9. \A i \in a..z : s[i] \in Items
    <2>1. \A i \in 1..z : s[i] \in Items
        BY <1>4, ElementOfSeq
    <2> QED
        BY <1>4, <1>7, <2>1
<1>10. z - a + 1 = Len(l) - g /\ a <= z /\ z \in Int
    BY <1>1, <1>4, <1>5, <1>7
<1>11. /\ SubSeq(s, a, z) \in Seq(Items) /\ Len(SubSeq(s, a, z)) = Len(l) - g
       /\ \A i \in 1..(Len(l) - g) : SubSeq(s, a, z)[i] = s[a + i - 1]
    BY <1>9, <1>10, SubSeqProperties
<1>12. ASSUME NEW i \in 1..(Len(l) - g) PROVE s[a + i - 1] = Event(g + i, l[g + i])
    <2>1. CASE g = 1
        <3>1. a + i - 1 \in 1..z /\ a + i - 1 = g + i
            BY <1>1, <1>5, <1>7, <1>12, <2>1
        <3> QED
            BY <1>4, <2>1, <3>1
    <2>2. CASE g # 1
        <3>1. a + i - 1 \in 3..z /\ g + (a + i - 1) - 2 = g + i
            BY <1>1, <1>5, <1>7, <1>12, <2>2
        <3>2. s[a + i - 1] = Event(g + (a + i - 1) - 2, l[g + (a + i - 1) - 2])
            BY <1>4, <2>2, <3>1
        <3> QED
            BY <3>1, <3>2
    <2> QED
        BY <2>1, <2>2
<1> QED
    BY <1>2, <1>8, <1>11, <1>12

\* Where a bounded copy of the stream of n events has its gap.
Cut(n, g, max) == IF g = 1 /\ n <= max THEN 1
                  ELSE IF n - max + 2 <= g THEN g ELSE n - max + 2

\* A bounded copy is a stream of the same history, within its limit.
LEMMA CopyIs ==
    ASSUME NEW l \in Histories, NEW g \in Cuts(l), NEW max \in Nat, 3 <= max
    PROVE  /\ Cut(Len(l), g, max) \in Cuts(l)
           /\ g <= Cut(Len(l), g, max)
           /\ Size(l, Cut(Len(l), g, max)) <= max
           /\ copyBoundedLedgerEvents(Stream(l, g), max) = Stream(l, Cut(Len(l), g, max))
<1>1. Len(l) \in Nat /\ 2 <= Len(l) /\ g \in Nat /\ 1 <= g /\ g < Len(l)
    BY HistoryIs
<1>2. PICK h : h = Cut(Len(l), g, max)
    OBVIOUS
<1>3. /\ h \in Nat /\ 1 <= h /\ h < Len(l) /\ g <= h
      /\ h = 1 <=> g = 1 /\ Len(l) <= max
      /\ h # 1 => h = IF Len(l) - max + 2 <= g THEN g ELSE Len(l) - max + 2
    BY <1>1, <1>2 DEF Cut
<1>4. h \in Cuts(l)
    BY <1>1, <1>3 DEF Cuts
<1>5. Size(l, h) <= max
    <2>1. CASE h = 1
        BY <1>3, <2>1 DEF Size
    <2>2. CASE h # 1
        BY <1>1, <1>3, <2>2 DEF Size
    <2> QED
        BY <2>1, <2>2
<1>6. PICK s : s = Stream(l, g)
    OBVIOUS
<1>7. PICK t : t = Following(s)
    OBVIOUS
<1>8. /\ t \in Seq(Items) /\ Len(t) = Len(l) - g
      /\ \A i \in 1..(Len(l) - g) : t[i] = Event(g + i, l[g + i])
    BY <1>6, <1>7, FollowingIs
<1>9. Final(s) = Len(l) /\ Head(s) = Event(1, "accepted")
    BY <1>6, ContentIs
<1>10. PICK k : k = IF Final(s) - 1 = Len(t) /\ Final(s) - 1 < max THEN t ELSE Newest(t, max - 2)
    OBVIOUS
<1>11. k \in Seq(Items) /\ Len(k) = Len(l) - h /\ \A i \in 1..Len(k) : k[i] = Event(h + i, l[h + i])
    <2>1. CASE h = 1
        <3>1. g = 1 /\ k = t
            BY <1>1, <1>3, <1>8, <1>9, <1>10, <2>1
        <3> QED
            BY <1>8, <2>1, <3>1
    <2>2. CASE h # 1
        <3>1. k = Newest(t, max - 2)
            BY <1>1, <1>3, <1>8, <1>9, <1>10, <2>2
        <3>2. PICK c \in Nat : c = Len(l) - h
            BY <1>1, <1>3
        <3>3. PICK m \in Int : m = max - 2
            OBVIOUS
        <3>4. c = IF m < 0 THEN 0 ELSE IF Len(t) <= m THEN Len(t) ELSE m
            <4>1. CASE Len(l) - max + 2 <= g
                <5>1. h = g /\ Len(t) <= m /\ 0 <= m
                    BY <1>1, <1>3, <1>8, <2>2, <3>3, <4>1
                <5> QED
                    BY <1>1, <1>8, <3>2, <3>3, <5>1
            <4>2. CASE ~(Len(l) - max + 2 <= g)
                <5>1. h = Len(l) - max + 2 /\ ~(Len(t) <= m) /\ 0 <= m
                    BY <1>1, <1>3, <1>8, <2>2, <3>3, <4>2
                <5> QED
                    BY <1>1, <3>2, <3>3, <5>1
            <4> QED
                BY <4>1, <4>2
        <3>5. k \in Seq(Items) /\ Len(k) = c /\ \A i \in 1..c : k[i] = t[Len(t) - c + i]
            <4>1. k = Newest(t, m)
                BY <3>1, <3>3
            <4> QED
                BY <1>8, <3>4, <4>1, NewestIs
        <3>6. ASSUME NEW i \in 1..c PROVE k[i] = Event(h + i, l[h + i])
            <4>1. Len(t) - c + i \in 1..(Len(l) - g) /\ g + (Len(t) - c + i) = h + i
                BY <1>1, <1>3, <1>8, <3>2, <3>6
            <4>2. t[Len(t) - c + i] = Event(g + (Len(t) - c + i), l[g + (Len(t) - c + i)])
                BY <1>8, <4>1
            <4> QED
                BY <3>5, <3>6, <4>1, <4>2
        <3> QED
            BY <3>2, <3>5, <3>6
    <2> QED
        BY <2>1, <2>2
<1>12. PICK o : o = (Final(s) - 1) - Len(k)
    OBVIOUS
<1>13. o = h - 1
    BY <1>1, <1>3, <1>9, <1>11, <1>12
<1>14. (o > 0 <=> h # 1) /\ 1 + o = h
    BY <1>3, <1>13
<1>15. copyBoundedLedgerEvents(s, max)
       = (<<Head(s)>> \o (IF o > 0 THEN <<Gap(1 + o)>> ELSE <<>>)) \o k
    BY <1>7, <1>10, <1>12 DEF copyBoundedLedgerEvents
<1>16. copyBoundedLedgerEvents(s, max) = Stream(l, h)
    <2>1. CASE h = 1
        BY <1>4, <1>9, <1>11, <1>14, <1>15, <2>1, JoinIs
    <2>2. CASE h # 1
        BY <1>4, <1>9, <1>11, <1>14, <1>15, <2>2, JoinIs
    <2> QED
        BY <2>1, <2>2
<1> QED
    BY <1>2, <1>3, <1>4, <1>5, <1>6, <1>16

\* One more event.
LEMMA LongerIs ==
    ASSUME NEW l \in Histories, NEW k \in Kinds
    PROVE  /\ Append(l, k) \in Histories /\ Len(Append(l, k)) = Len(l) + 1
           /\ \A n \in 1..Len(l) : Append(l, k)[n] = l[n]
           /\ Append(l, k)[Len(l) + 1] = k
           /\ Cuts(l) \subseteq Cuts(Append(l, k))
<1>1. l \in Seq(Kinds) /\ Len(l) \in Nat /\ 2 <= Len(l) /\ l[1] = "accepted"
    BY HistoryIs
<1>2. PICK b : b = Append(l, k)
    OBVIOUS
<1>3. /\ b \in Seq(Kinds) /\ Len(b) = Len(l) + 1
      /\ \A n \in 1..Len(l) : b[n] = l[n]
      /\ b[Len(l) + 1] = k
    BY <1>1, <1>2, AppendProperties
<1>4. b[1] = "accepted" /\ 2 <= Len(b)
    BY <1>1, <1>3
<1>5. b \in Histories
    BY <1>3, <1>4 DEF Histories
<1>6. Cuts(l) \subseteq Cuts(b)
    <2>1. PICK n : n = Len(b)
        OBVIOUS
    <2>2. n = Len(l) + 1
        BY <1>3, <2>1
    <2>3. 1..(Len(l) - 1) \subseteq 1..(n - 1)
        BY <1>1, <2>2
    <2> QED
        BY <2>1, <2>3 DEF Cuts
<1> QED
    BY <1>2, <1>3, <1>5, <1>6

\* A stream gets one more event.
LEMMA AppendedIs ==
    ASSUME NEW l \in Histories, NEW g \in Cuts(l), NEW k \in Kinds
    PROVE  Append(Stream(l, g), Event(Len(l) + 1, k)) = Stream(Append(l, k), g)
<1>1. Len(l) \in Nat /\ 2 <= Len(l) /\ g \in Nat /\ 1 <= g /\ g < Len(l)
    BY HistoryIs
<1>2. PICK b : b = Append(l, k)
    OBVIOUS
<1>3. /\ b \in Histories /\ Len(b) = Len(l) + 1 /\ g \in Cuts(b)
      /\ \A n \in 1..Len(l) : b[n] = l[n]
      /\ b[Len(l) + 1] = k
    BY <1>2, LongerIs
<1>4. PICK s : s = Stream(l, g)
    OBVIOUS
<1>5. PICK z : z = Size(l, g)
    OBVIOUS
<1>6. /\ s \in Seq(Items) /\ Len(s) = z /\ z \in Nat /\ 2 <= z
      /\ g = 1 => \A i \in 1..z : s[i] = Event(i, l[i])
      /\ g # 1 => /\ s[1] = Event(1, l[1]) /\ s[2] = Gap(g)
                  /\ \A i \in 3..z : s[i] = Event(g + i - 2, l[g + i - 2])
    BY <1>4, <1>5, StreamIs
<1>7. z = IF g = 1 THEN Len(l) ELSE Len(l) - g + 2
    BY <1>5 DEF Size
<1>8. PICK t : t = Stream(b, g)
    OBVIOUS
<1>9. PICK y : y = Size(b, g)
    OBVIOUS
<1>10. /\ t \in Seq(Items) /\ Len(t) = y
       /\ g = 1 => \A i \in 1..y : t[i] = Event(i, b[i])
       /\ g # 1 => /\ t[1] = Event(1, b[1]) /\ t[2] = Gap(g)
                   /\ \A i \in 3..y : t[i] = Event(g + i - 2, b[g + i - 2])
    BY <1>3, <1>8, <1>9, StreamIs
<1>11. y = z + 1
    BY <1>1, <1>3, <1>7, <1>9 DEF Size
<1>12. PICK e : e = Event(Len(l) + 1, k)
    OBVIOUS
<1>13. e \in Items
    <2>1. Len(l) + 1 \in Nat
        BY <1>1
    <2> QED
        BY <1>12, <2>1, EntryIs
<1>14. PICK u : u = Append(s, e)
    OBVIOUS
<1>15. /\ u \in Seq(Items) /\ Len(u) = z + 1
       /\ \A i \in 1..z : u[i] = s[i]
       /\ u[z + 1] = e
    BY <1>6, <1>13, <1>14, AppendProperties
<1>16. ASSUME NEW i \in 1..(z + 1) PROVE u[i] = t[i]
    <2>1. CASE i = z + 1
        <3>1. CASE g = 1
            <4>1. z + 1 = Len(l) + 1 /\ z + 1 \in 1..y
                BY <1>6, <1>7, <1>11, <3>1
            <4> QED
                BY <1>3, <1>10, <1>12, <1>15, <2>1, <3>1, <4>1
        <3>2. CASE g # 1
            <4>1. z + 1 \in 3..y /\ g + (z + 1) - 2 = Len(l) + 1
                BY <1>1, <1>6, <1>7, <1>11, <3>2
            <4>2. t[z + 1] = Event(g + (z + 1) - 2, b[g + (z + 1) - 2])
                BY <1>10, <3>2, <4>1
            <4> QED
                BY <1>3, <1>12, <1>15, <2>1, <4>1, <4>2
        <3> QED
            BY <3>1, <3>2
    <2>2. CASE i \in 1..z
        <3>1. CASE g = 1
            <4>1. i \in 1..Len(l) /\ i \in 1..y
                BY <1>6, <1>7, <1>11, <2>2, <3>1
            <4> QED
                BY <1>3, <1>6, <1>10, <1>15, <2>2, <3>1, <4>1
        <3>2. CASE g # 1 /\ i \in 3..z
            <4>1. i \in 3..y /\ g + i - 2 \in 1..Len(l)
                BY <1>1, <1>6, <1>7, <1>11, <3>2
            <4>2. b[g + i - 2] = l[g + i - 2]
                BY <1>3, <4>1
            <4> QED
                BY <1>6, <1>10, <1>15, <2>2, <3>2, <4>1, <4>2
        <3>3. CASE g # 1 /\ (i = 1 \/ i = 2)
            <4>1. b[1] = l[1]
                BY <1>1, <1>3
            <4> QED
                BY <1>6, <1>10, <1>15, <2>2, <3>3, <4>1
        <3> QED
            BY <1>6, <2>2, <3>1, <3>2, <3>3
    <2> QED
        BY <1>6, <1>16, <2>1, <2>2
<1>17. u = t
    BY <1>10, <1>11, <1>15, <1>16, SeqEqual
<1> QED
    BY <1>2, <1>4, <1>8, <1>12, <1>14, <1>17

\* A stream says what an earlier one said: nothing is cut off at the end, what
\* was given up stays given up, and an event is given up or as it was.
Extends(l, g, m, h) == /\ Len(l) <= Len(m) /\ (g # 1 => g <= h)
                       /\ \A n \in (g + 1)..Len(l) : n <= h \/ l[n] = m[n]

\* What mergeHostAgentProgressEvents accepts: a longer history with the same events,
\* of which no less is given up.
LEMMA MergeableIs ==
    ASSUME NEW l \in Histories, NEW g \in Cuts(l), NEW m \in Histories, NEW h \in Cuts(m)
    PROVE  mergeable(Stream(l, g), Stream(m, h)) <=> Extends(l, g, m, h)
<1>1. Len(l) \in Nat /\ 2 <= Len(l) /\ g \in Nat /\ 1 <= g /\ g < Len(l)
    BY HistoryIs
<1>2. Len(m) \in Nat /\ 2 <= Len(m) /\ h \in Nat /\ 1 <= h /\ h < Len(m)
    BY HistoryIs
<1>3. PICK s : s = Stream(l, g)
    OBVIOUS
<1>4. PICK t : t = Stream(m, h)
    OBVIOUS
<1>5. /\ Actual(s) = {Event(n, l[n]) : n \in Shown(l, g)} /\ Ordered(s)
      /\ \A n : Inside(n, s) <=> g # 1 /\ 2 <= n /\ n <= g
    BY <1>3, ContentIs
<1>6. /\ Actual(t) = {Event(n, m[n]) : n \in Shown(m, h)} /\ Ordered(t)
      /\ \A n : Inside(n, t) <=> h # 1 /\ 2 <= n /\ n <= h
      /\ \A e : e \in Entries(t) <=> e \in {Event(n, m[n]) : n \in Shown(m, h)} \/ (h # 1 /\ e = Gap(h))
    BY <1>4, ContentIs
<1>7. NotStale(s, t) <=> Len(l) <= Len(m)
    <2>1. NotStale(s, t) <=> \A n \in Shown(l, g) : \E k \in Shown(m, h) : k >= n
        BY <1>5, <1>6, EntryIs DEF NotStale
    <2>2. Len(l) \in Shown(l, g) /\ Len(m) \in Shown(m, h)
        BY <1>1, <1>2 DEF Shown
    <2>3. (\A n \in Shown(l, g) : n \in Nat /\ n <= Len(l)) /\ (\A n \in Shown(m, h) : n \in Nat /\ n <= Len(m))
        BY <1>1, <1>2 DEF Shown
    <2>4. ASSUME Len(l) <= Len(m), NEW n \in Shown(l, g) PROVE Len(m) >= n
        BY <1>1, <1>2, <2>3, <2>4
    <2>5. ASSUME NEW k \in Shown(m, h), k >= Len(l) PROVE Len(l) <= Len(m)
        BY <1>1, <1>2, <2>3, <2>5
    <2> QED
        BY <2>1, <2>2, <2>4, <2>5
<1>8. (\A f \in Actual(t) : ~Inside(f.seq, s)) <=> (g # 1 => g <= h)
    <2>1. (\A f \in Actual(t) : ~Inside(f.seq, s)) <=> \A n \in Shown(m, h) : ~(g # 1 /\ 2 <= n /\ n <= g)
        BY <1>5, <1>6, EntryIs
    <2>2. h + 1 \in Shown(m, h)
        BY <1>2 DEF Shown
    <2>3. ASSUME g # 1, ~(g <= h) PROVE 2 <= h + 1 /\ h + 1 <= g
        BY <1>1, <1>2, <2>3
    <2>4. ASSUME g <= h, NEW n \in Shown(m, h), 2 <= n, n <= g PROVE FALSE
        BY <1>1, <1>2, <2>4 DEF Shown
    <2> QED
        BY <2>1, <2>2, <2>3, <2>4
<1>9. ASSUME Len(l) <= Len(m)
      PROVE  (\A e \in Actual(s) : e.seq = 1 \/ e \in Entries(t) \/ Inside(e.seq, t))
             <=> \A n \in (g + 1)..Len(l) : n <= h \/ l[n] = m[n]
    <2>1. (\A e \in Actual(s) : e.seq = 1 \/ e \in Entries(t) \/ Inside(e.seq, t))
          <=> \A n \in Shown(l, g) : n = 1 \/ Event(n, l[n]) \in Entries(t) \/ Inside(n, t)
        BY <1>5, EntryIs
    <2>2. ASSUME NEW n \in (g + 1)..Len(l)
          PROVE  Event(n, l[n]) \in Entries(t) <=> n > h /\ l[n] = m[n]
        <3>1. n \in Nat /\ n \in 1..Len(l) /\ n # 1
            BY <1>1, <2>2
        <3>2. l[n] \in Kinds
            BY <3>1, HistoryIs
        <3>3. Event(n, l[n]) # Gap(h)
            BY <1>2, <3>1, <3>2, EntryIs
        <3>4. n \in Shown(m, h) <=> n > h
            BY <1>1, <1>2, <1>9, <2>2, <3>1 DEF Shown
        <3> QED
            BY <1>6, <3>3, <3>4, EntryIs
    <2>3. ASSUME NEW n \in (g + 1)..Len(l)
          PROVE  n # 1 /\ (Inside(n, t) <=> n <= h) /\ (n > h <=> ~(n <= h)) /\ n \in Shown(l, g)
        BY <1>1, <1>2, <1>6, <2>3 DEF Shown
    <2>4. \A n \in Shown(l, g) : n = 1 \/ n \in (g + 1)..Len(l)
        BY DEF Shown
    <2> QED
        BY <2>1, <2>2, <2>3, <2>4
<1> QED
    BY <1>3, <1>4, <1>5, <1>6, <1>7, <1>8, <1>9 DEF mergeable, Extends

\* Every stream begins with the same event: a merge takes the incoming one.
LEMMA MergedIs ==
    ASSUME NEW l \in Histories, NEW g \in Cuts(l), NEW m \in Histories, NEW h \in Cuts(m)
    PROVE  merged(Stream(l, g), Stream(m, h)) = Stream(m, h)
<1>1. PICK t : t = Stream(m, h)
    OBVIOUS
<1>2. t \in Seq(Items) /\ 2 <= Len(t) /\ Len(t) \in Nat
    BY <1>1, StreamIs
<1>3. Head(Stream(l, g)) = Event(1, "accepted") /\ Head(t) = Event(1, "accepted")
    BY <1>1, ContentIs
<1>4. PICK a : a = Head(t)
    OBVIOUS
<1>5. t # <<>>
    BY <1>2
<1>6. a \in Items /\ Tail(t) \in Seq(Items) /\ Len(Tail(t)) = Len(t) - 1
      /\ \A i \in 1..Len(Tail(t)) : Tail(t)[i] = t[i + 1]
    BY <1>2, <1>4, <1>5, HeadTailProperties
<1>7. <<a>> \in Seq(Items) /\ Len(<<a>>) = 1 /\ <<a>>[1] = a /\ a = t[1]
    BY <1>2, <1>4, <1>6
<1>8. PICK r : r = Tail(t)
    OBVIOUS
<1>9. PICK u : u = <<a>> \o r
    OBVIOUS
<1>10. /\ u \in Seq(Items) /\ Len(u) = 1 + Len(r)
       /\ \A i \in 1..(1 + Len(r)) : u[i] = IF i <= 1 THEN <<a>>[i] ELSE r[i - 1]
    BY <1>6, <1>7, <1>8, <1>9, ConcatProperties
<1>11. Len(u) = Len(t)
    BY <1>2, <1>6, <1>8, <1>10
<1>12. ASSUME NEW i \in 1..Len(u) PROVE u[i] = t[i]
    <2>1. CASE i = 1
        BY <1>7, <1>10, <1>12, <2>1
    <2>2. CASE i # 1
        <3>1. i - 1 \in 1..Len(r) /\ (i - 1) + 1 = i
            BY <1>2, <1>6, <1>8, <1>10, <1>12, <2>2
        <3>2. u[i] = r[i - 1]
            BY <1>10, <1>12, <2>2
        <3>3. r[i - 1] = t[(i - 1) + 1]
            BY <1>6, <1>8, <3>1
        <3> QED
            BY <3>1, <3>2, <3>3
    <2> QED
        BY <2>1, <2>2
<1>13. u = t
    BY <1>2, <1>10, <1>11, <1>12, SeqEqual
<1> QED
    BY <1>1, <1>3, <1>4, <1>8, <1>9, <1>13 DEF merged

\* The gap that two streams give up between them.
Wider(g, h) == IF g <= h THEN h ELSE g

\* The parts of a terminal history whose widest gap ends at w.
LEMMA WidestIs ==
    ASSUME NEW l \in Histories, NEW g \in Cuts(l), NEW m \in Histories, NEW h \in Cuts(m)
    PROVE  /\ Wider(g, h) = 1 => sanitized(Stream(l, g), Stream(m, h)) = Stream(m, h)
           /\ Wider(g, h) # 1 =>
                sanitized(Stream(l, g), Stream(m, h))
                = <<Event(1, "accepted"), Gap(Wider(g, h))>> \o Newest(Stream(m, h), Len(m) - Wider(g, h))
<1>1. g \in Nat /\ 1 <= g /\ h \in Nat /\ 1 <= h
    BY HistoryIs
<1>2. PICK s : s = Stream(l, g)
    OBVIOUS
<1>3. PICK t : t = Stream(m, h)
    OBVIOUS
<1>4. Gaps(s) = IF g = 1 THEN {} ELSE {Gap(g)}
    BY <1>2, ContentIs
<1>5. /\ Gaps(t) = IF h = 1 THEN {} ELSE {Gap(h)}
      /\ Final(t) = Len(m) /\ Head(t) = Event(1, "accepted")
    BY <1>3, ContentIs
<1>6. PICK w : w = Wider(g, h)
    OBVIOUS
<1>7. w \in Nat /\ g <= w /\ h <= w /\ (w = g \/ w = h)
    BY <1>1, <1>6 DEF Wider
<1>8. CASE w = 1
    <2>1. g = 1 /\ h = 1
        BY <1>1, <1>7, <1>8
    <2>2. Gaps(s) \cup Gaps(t) = {}
        BY <1>4, <1>5, <2>1
    <2> QED
        BY <1>2, <1>3, <1>6, <1>8, <2>2 DEF sanitized
<1>9. CASE w # 1
    <2>1. PICK D : D = Gaps(s) \cup Gaps(t)
        OBVIOUS
    <2>2. Gap(w) \in D /\ D \subseteq {Gap(g), Gap(h)}
        BY <1>4, <1>5, <1>7, <1>9, <2>1
    <2>3. \A d \in D : d.last <= w
        BY <1>7, <2>2, EntryIs
    <2>4. PICK x : x = CHOOSE d \in D : \A e \in D : e.last <= d.last
        OBVIOUS
    <2>5. Gap(w).last = w
        BY EntryIs
    <2>6. x \in D /\ \A e \in D : e.last <= x.last
        BY <2>2, <2>3, <2>4, <2>5
    <2>7. w <= x.last
        BY <2>2, <2>5, <2>6
    <2>8. x = Gap(w)
        <3>1. x.last <= w
            BY <2>3, <2>6
        <3>2. x = Gap(g) \/ x = Gap(h)
            BY <2>2, <2>6
        <3>3. CASE x = Gap(g)
            BY <1>1, <1>7, <2>7, <3>1, <3>3, EntryIs
        <3>4. CASE x = Gap(h)
            BY <1>1, <1>7, <2>7, <3>1, <3>4, EntryIs
        <3> QED
            BY <3>2, <3>3, <3>4
    <2>9. D # {}
        BY <2>2
    <2>10. sanitized(s, t) = <<Head(t), x>> \o Newest(t, Final(t) - x.last)
        BY <2>1, <2>4, <2>9 DEF sanitized
    <2> QED
        BY <1>2, <1>3, <1>5, <1>6, <1>9, <2>5, <2>8, <2>10
<1> QED
    BY <1>6, <1>8, <1>9

\* A terminal history that goes beyond the gap of the ledger keeps that gap.
LEMMA SanitizedIs ==
    ASSUME NEW l \in Histories, NEW g \in Cuts(l), NEW m \in Histories, NEW h \in Cuts(m), g < Len(m)
    PROVE  /\ Wider(g, h) \in Cuts(m)
           /\ sanitized(Stream(l, g), Stream(m, h)) = Stream(m, Wider(g, h))
<1>1. g \in Nat /\ 1 <= g /\ Len(m) \in Nat /\ 2 <= Len(m) /\ h \in Nat /\ 1 <= h /\ h < Len(m)
    BY HistoryIs
<1>2. PICK w : w = Wider(g, h)
    OBVIOUS
<1>3. w \in Nat /\ 1 <= w /\ w < Len(m) /\ h <= w /\ (w = 1 => h = 1)
    BY <1>1, <1>2 DEF Wider
<1>4. w \in Cuts(m)
    BY <1>1, <1>3 DEF Cuts
<1>5. PICK t : t = Stream(m, h)
    OBVIOUS
<1>6. PICK z : z = Size(m, h)
    OBVIOUS
<1>7. /\ t \in Seq(Items) /\ Len(t) = z /\ z \in Nat /\ 2 <= z
      /\ h = 1 => \A i \in 1..z : t[i] = Event(i, m[i])
      /\ h # 1 => \A i \in 3..z : t[i] = Event(h + i - 2, m[h + i - 2])
    BY <1>5, <1>6, StreamIs
<1>8. z = IF h = 1 THEN Len(m) ELSE Len(m) - h + 2
    BY <1>6 DEF Size
<1>9. CASE w = 1
    <2>1. h = w /\ Wider(g, h) = 1
        BY <1>2, <1>3, <1>9
    <2>2. sanitized(Stream(l, g), Stream(m, h)) = Stream(m, h)
        BY <2>1, WidestIs
    <2> QED
        BY <1>2, <1>4, <2>1, <2>2
<1>10. CASE w # 1
    <2>1. PICK k \in Nat : k = Len(m) - w
        BY <1>1, <1>3
    <2>2. k \in Int /\ k = IF k < 0 THEN 0 ELSE IF Len(t) <= k THEN Len(t) ELSE k
        BY <1>1, <1>3, <1>7, <1>8, <2>1
    <2>3. PICK r : r = Newest(t, k)
        OBVIOUS
    <2>4. r \in Seq(Items) /\ Len(r) = k /\ \A i \in 1..k : r[i] = t[Len(t) - k + i]
        BY <1>7, <2>2, <2>3, NewestIs
    <2>5. ASSUME NEW i \in 1..k PROVE r[i] = Event(w + i, m[w + i])
        <3>1. CASE h = 1
            <4>1. z - k + i \in 1..z /\ z - k + i = w + i
                BY <1>1, <1>3, <1>8, <2>1, <2>5, <3>1
            <4> QED
                BY <1>7, <2>4, <2>5, <3>1, <4>1
        <3>2. CASE h # 1
            <4>1. z - k + i \in 3..z /\ h + (z - k + i) - 2 = w + i
                BY <1>1, <1>3, <1>8, <2>1, <2>5, <3>2
            <4>2. t[z - k + i] = Event(h + (z - k + i) - 2, m[h + (z - k + i) - 2])
                BY <1>7, <3>2, <4>1
            <4> QED
                BY <1>7, <2>4, <2>5, <4>1, <4>2
        <3> QED
            BY <3>1, <3>2
    <2>6. <<Event(1, "accepted"), Gap(w)>> \o r = Stream(m, w)
        BY <1>4, <1>10, <2>1, <2>4, <2>5, JoinIs
    <2> QED
        BY <1>2, <1>4, <1>5, <1>10, <2>1, <2>3, <2>6, WidestIs
<1> QED
    BY <1>9, <1>10

\* One that does not is refused.
LEMMA RefusedIs ==
    ASSUME NEW l \in Histories, NEW g \in Cuts(l), NEW m \in Histories, NEW h \in Cuts(m), ~(g < Len(m))
    PROVE  ~mergeable(Stream(l, g), sanitized(Stream(l, g), Stream(m, h)))
<1>1. /\ Len(l) \in Nat /\ 2 <= Len(l) /\ g \in Nat /\ g < Len(l)
      /\ Len(m) \in Nat /\ 2 <= Len(m) /\ h \in Nat /\ 1 <= h /\ h < Len(m)
    BY HistoryIs
<1>2. Wider(g, h) = g /\ g # 1
    BY <1>1 DEF Wider
<1>3. PICK t : t = Stream(m, h)
    OBVIOUS
<1>4. t \in Seq(Items) /\ Len(t) \in Nat /\ 2 <= Len(t)
    BY <1>3, StreamIs
<1>5. PICK k \in Int : k = Len(m) - g
    <2>1. Len(m) - g \in Int
        BY <1>1
    <2> QED
        BY <2>1
<1>6. 0 \in Nat /\ 0 = IF k < 0 THEN 0 ELSE IF Len(t) <= k THEN Len(t) ELSE k
    BY <1>1, <1>4, <1>5
<1>7. PICK r : r = Newest(t, k)
    OBVIOUS
<1>8. r \in Seq(Items) /\ Len(r) = 0
    BY <1>4, <1>6, <1>7, NewestIs
<1>9. PICK a : a = Event(1, "accepted")
    OBVIOUS
<1>10. PICK b : b = Gap(g)
    OBVIOUS
<1>11. a \in Items /\ b \in Items /\ a.seq = 1 /\ ~IsEvent(b)
    BY <1>1, <1>9, <1>10, EntryIs DEF Kinds
<1>12. PICK u : u = <<a, b>> \o r
    OBVIOUS
<1>13. <<a, b>> \in Seq(Items) /\ Len(<<a, b>>) = 2 /\ <<a, b>>[1] = a /\ <<a, b>>[2] = b
    BY <1>11
<1>14. /\ u \in Seq(Items) /\ Len(u) = 2 + Len(r)
       /\ \A i \in 1..(2 + Len(r)) : u[i] = IF i <= 2 THEN <<a, b>>[i] ELSE r[i - 2]
    BY <1>8, <1>12, <1>13, ConcatProperties
<1>15. DOMAIN u = 1..2 /\ u[1] = a /\ u[2] = b
    BY <1>8, <1>13, <1>14, LenProperties
<1>16. \A f \in Actual(u) : f = a
    BY <1>11, <1>15 DEF Actual, Entries
<1>17. Event(Len(l), l[Len(l)]) \in Actual(Stream(l, g))
    <2>1. Len(l) \in Shown(l, g)
        BY <1>1 DEF Shown
    <2> QED
        BY <2>1, ContentIs
<1>18. ~NotStale(Stream(l, g), u)
    <2>1. Event(Len(l), l[Len(l)]).seq = Len(l)
        BY EntryIs
    <2>2. ~(a.seq >= Len(l))
        BY <1>1, <1>11
    <2> QED
        BY <1>16, <1>17, <2>1, <2>2 DEF NotStale
<1>19. sanitized(Stream(l, g), t) = u
    BY <1>2, <1>3, <1>5, <1>7, <1>9, <1>10, <1>12, WidestIs
<1> QED
    BY <1>3, <1>18, <1>19 DEF mergeable

\* The model takes these parts by position.  They are what the code's passes
\* leave: the events but the first one, and those after the widest gap.
LEMMA PartsAreFiltered ==
    ASSUME NEW l \in Histories, NEW g \in Cuts(l), NEW m \in Histories, NEW h \in Cuts(m), g < Len(m)
    PROVE  /\ Entries(Following(Stream(l, g))) = {e \in Actual(Stream(l, g)) : e.seq # 1}
           /\ \A w \in Nat : w = Wider(g, h) /\ w # 1 =>
                Entries(sanitized(Stream(l, g), Stream(m, h)))
                = {Event(1, "accepted"), Gap(w)} \cup {e \in Actual(Stream(m, h)) : e.seq > w}
<1>1. /\ g \in Nat /\ 1 <= g /\ Len(l) \in Nat /\ g < Len(l) /\ 2 <= Len(m)
      /\ Len(m) \in Nat /\ h \in Nat /\ 1 <= h /\ h < Len(m) /\ m[1] = "accepted"
    BY HistoryIs
<1>2. Entries(Following(Stream(l, g))) = {e \in Actual(Stream(l, g)) : e.seq # 1}
    <2>1. PICK t : t = Following(Stream(l, g))
        OBVIOUS
    <2>2. /\ t \in Seq(Items) /\ Len(t) = Len(l) - g
          /\ \A i \in 1..(Len(l) - g) : t[i] = Event(g + i, l[g + i])
        BY <2>1, FollowingIs
    <2>3. Entries(t) = {Event(g + i, l[g + i]) : i \in 1..(Len(l) - g)}
        BY <2>2, LenProperties DEF Entries
    <2>4. Actual(Stream(l, g)) = {Event(n, l[n]) : n \in Shown(l, g)}
        BY ContentIs
    <2>5. ASSUME NEW e \in Entries(t) PROVE e \in Actual(Stream(l, g)) /\ e.seq # 1
        <3>1. PICK i \in 1..(Len(l) - g) : e = Event(g + i, l[g + i])
            BY <2>3
        <3>2. g + i \in Shown(l, g) /\ g + i # 1
            BY <1>1 DEF Shown
        <3> QED
            BY <2>4, <3>1, <3>2, EntryIs
    <2>6. ASSUME NEW e \in Actual(Stream(l, g)), e.seq # 1 PROVE e \in Entries(t)
        <3>1. PICK n \in Shown(l, g) : e = Event(n, l[n])
            BY <2>4
        <3>2. n # 1
            BY <2>6, <3>1, EntryIs
        <3>3. PICK i \in 1..(Len(l) - g) : g + i = n
            <4>1. n - g \in 1..(Len(l) - g) /\ g + (n - g) = n
                BY <1>1, <3>2 DEF Shown
            <4> QED
                BY <4>1
        <3> QED
            BY <2>3, <3>1, <3>3
    <2> QED
        BY <2>1, <2>5, <2>6
<1>3. ASSUME NEW w \in Nat, w = Wider(g, h), w # 1
      PROVE  Entries(sanitized(Stream(l, g), Stream(m, h)))
             = {Event(1, "accepted"), Gap(w)} \cup {e \in Actual(Stream(m, h)) : e.seq > w}
    <2>1. w \in Cuts(m) /\ sanitized(Stream(l, g), Stream(m, h)) = Stream(m, w)
        BY <1>3, SanitizedIs
    <2>2. 1 < w /\ h <= w /\ w < Len(m)
        BY <1>1, <1>3, <2>1 DEF Wider, Cuts
    <2>3. \A e : e \in Entries(Stream(m, w)) <=> e \in {Event(n, m[n]) : n \in Shown(m, w)} \/ e = Gap(w)
        BY <1>3, <2>1, ContentIs
    <2>4. Actual(Stream(m, h)) = {Event(n, m[n]) : n \in Shown(m, h)}
        BY ContentIs
    <2>5. ASSUME NEW n \in Shown(m, w)
          PROVE  \/ Event(n, m[n]) = Event(1, "accepted")
                 \/ Event(n, m[n]) \in Actual(Stream(m, h)) /\ Event(n, m[n]).seq > w
        <3>1. CASE n = 1
            BY <1>1, <3>1
        <3>2. CASE n # 1
            <4>1. n \in Shown(m, h) /\ n > w
                BY <1>1, <2>2, <3>2 DEF Shown
            <4> QED
                BY <2>4, <4>1, EntryIs
        <3> QED
            BY <3>1, <3>2
    <2>6. ASSUME NEW e \in Actual(Stream(m, h)), e.seq > w
          PROVE  e \in {Event(n, m[n]) : n \in Shown(m, w)}
        <3>1. PICK n \in Shown(m, h) : e = Event(n, m[n])
            BY <2>4
        <3>2. n > w
            BY <2>6, <3>1, EntryIs
        <3>3. n \in Shown(m, w)
            BY <1>1, <2>2, <3>2 DEF Shown
        <3> QED
            BY <3>1, <3>3
    <2>7. Event(1, "accepted") \in {Event(n, m[n]) : n \in Shown(m, w)}
        BY <1>1 DEF Shown
    <2> QED
        BY <2>1, <2>3, <2>5, <2>6, <2>7
<1> QED
    BY <1>2, <1>3

-----------------------------------------------------------------------------
(* Streams that follow one another.                                        *)

Bounded(s, max) == \E l \in Histories : \E g \in Cuts(l) : s = Stream(l, g) /\ Size(l, g) <= max

Grows(s, t) == \E l \in Histories : \E g \in Cuts(l) : \E m \in Histories : \E h \in Cuts(m) :
    s = Stream(l, g) /\ t = Stream(m, h) /\ Extends(l, g, m, h)

\* Kept, for the events of any stream.
In(e, s) == \E i \in DOMAIN s :
    LET f == s[i] IN f = e \/ (~IsEvent(f) /\ f.seq <= e.seq /\ e.seq <= f.last)

\* A stream within a limit is in order.
LEMMA BoundedIs ==
    ASSUME NEW max, NEW s, Bounded(s, max)
    PROVE  s \in Seq(Items) /\ Len(s) <= max /\ Ordered(s) /\ Final(s) \in Nat
    BY StreamIs, ContentIs, HistoryIs DEF Bounded

\* What a stream keeps is what it has and what its gap covers.
LEMMA InIs ==
    ASSUME NEW l \in Histories, NEW g \in Cuts(l), NEW e
    PROVE  In(e, Stream(l, g)) <=>
             e \in Entries(Stream(l, g)) \/ (g # 1 /\ 2 <= e.seq /\ e.seq <= g)
<1>1. PICK s : s = Stream(l, g)
    OBVIOUS
<1>2. \A n : Inside(n, s) <=> g # 1 /\ 2 <= n /\ n <= g
    BY <1>1, ContentIs
<1>3. In(e, s) <=> e \in Entries(s) \/ Inside(e.seq, s)
    BY DEF In, Inside, Gaps, Actual, Entries
<1> QED
    BY <1>1, <1>2, <1>3

\* A stream that says what an earlier one said: its end is not before the other's,
\* it keeps the other's events, and up to the other's end it has no others.
LEMMA GrowsIs ==
    ASSUME NEW s, NEW t, Grows(s, t)
    PROVE  /\ Final(s) \in Nat /\ Final(t) \in Nat /\ Final(s) <= Final(t)
           /\ \A e \in Items : IsEvent(e) /\ In(e, s) => In(e, t)
           /\ \A e \in Entries(t) : IsEvent(e) /\ e.seq <= Final(s) => e \in Entries(s)
<1>1. PICK l \in Histories : \E g \in Cuts(l) : \E m \in Histories : \E h \in Cuts(m) :
        s = Stream(l, g) /\ t = Stream(m, h) /\ Extends(l, g, m, h)
    BY DEF Grows
<1>g. PICK g \in Cuts(l) : \E m \in Histories : \E h \in Cuts(m) :
        s = Stream(l, g) /\ t = Stream(m, h) /\ Extends(l, g, m, h)
    BY <1>1
<1>m. PICK m \in Histories : \E h \in Cuts(m) :
        s = Stream(l, g) /\ t = Stream(m, h) /\ Extends(l, g, m, h)
    BY <1>g
<1>h. PICK h \in Cuts(m) : s = Stream(l, g) /\ t = Stream(m, h) /\ Extends(l, g, m, h)
    BY <1>m
<1>2. /\ Len(l) \in Nat /\ 2 <= Len(l) /\ g \in Nat /\ 1 <= g /\ g < Len(l) /\ l[1] = "accepted"
      /\ Len(m) \in Nat /\ 2 <= Len(m) /\ h \in Nat /\ 1 <= h /\ h < Len(m) /\ m[1] = "accepted"
    BY HistoryIs
<1>3. /\ Final(s) = Len(l)
      /\ \A e : e \in Entries(s) <=> e \in {Event(n, l[n]) : n \in Shown(l, g)} \/ (g # 1 /\ e = Gap(g))
    BY <1>h, ContentIs
<1>4. /\ Final(t) = Len(m)
      /\ \A e : e \in Entries(t) <=> e \in {Event(n, m[n]) : n \in Shown(m, h)} \/ (h # 1 /\ e = Gap(h))
    BY <1>h, ContentIs
<1>5. ~IsEvent(Gap(g)) /\ ~IsEvent(Gap(h))
    BY <1>2, EntryIs
<1>6. /\ Len(l) <= Len(m) /\ (g # 1 => g <= h)
      /\ \A n \in (g + 1)..Len(l) : n <= h \/ l[n] = m[n]
    BY <1>h DEF Extends
<1>7. ASSUME NEW e \in Items, IsEvent(e), In(e, s) PROVE In(e, t)
    <2>1. e \in Entries(s) \/ (g # 1 /\ 2 <= e.seq /\ e.seq <= g)
        BY <1>h, <1>7, InIs
    <2>2. ASSUME e \in Entries(t) \/ (h # 1 /\ 2 <= e.seq /\ e.seq <= h) PROVE In(e, t)
        BY <1>h, <2>2, InIs
    <2>3. CASE g # 1 /\ 2 <= e.seq /\ e.seq <= g
        <3>1. PICK n : n = e.seq
            OBVIOUS
        <3>2. n \in Nat
            BY <1>7, <3>1 DEF Items
        <3> QED
            BY <1>2, <1>6, <2>2, <2>3, <3>1, <3>2
    <2>4. CASE e \in Entries(s)
        <3>1. PICK n \in Shown(l, g) : e = Event(n, l[n])
            BY <1>3, <1>5, <1>7, <2>4
        <3>2. e.seq = n
            BY <3>1, EntryIs
        <3>3. CASE n = 1
            BY <1>2, <1>4, <2>2, <3>1, <3>3 DEF Shown
        <3>4. CASE n # 1
            <4>1. n \in (g + 1)..Len(l) /\ 2 <= n /\ n \in Nat
                BY <1>2, <3>1, <3>4 DEF Shown
            <4>2. CASE n <= h
                BY <1>2, <2>2, <3>2, <4>1, <4>2
            <4>3. CASE ~(n <= h)
                <5>1. n \in Shown(m, h)
                    BY <1>2, <1>6, <4>1, <4>3 DEF Shown
                <5>2. l[n] = m[n]
                    BY <1>6, <4>1, <4>3
                <5> QED
                    BY <1>4, <2>2, <3>1, <5>1, <5>2
            <4> QED
                BY <4>2, <4>3
        <3> QED
            BY <3>3, <3>4
    <2> QED
        BY <2>1, <2>3, <2>4
<1>8. ASSUME NEW e \in Entries(t), IsEvent(e), e.seq <= Final(s) PROVE e \in Entries(s)
    <2>1. PICK n \in Shown(m, h) : e = Event(n, m[n])
        BY <1>4, <1>5, <1>8
    <2>2. n <= Len(l)
        BY <1>3, <1>8, <2>1, EntryIs
    <2>3. CASE n = 1
        BY <1>2, <1>3, <2>1, <2>3 DEF Shown
    <2>4. CASE n # 1
        <3>1. n \in (g + 1)..Len(l) /\ ~(n <= h)
            BY <1>2, <1>6, <2>1, <2>2, <2>4 DEF Shown
        <3>2. l[n] = m[n] /\ n \in Shown(l, g)
            BY <1>6, <3>1 DEF Shown
        <3> QED
            BY <1>3, <2>1, <3>2
    <2> QED
        BY <2>3, <2>4
<1> QED
    BY <1>2, <1>3, <1>4, <1>6, <1>7, <1>8

\* A stream says what it says itself, and a merge that is accepted takes a
\* stream that says what the current one said.
LEMMA GrowsSelf == ASSUME NEW s, NEW max, Bounded(s, max) PROVE Grows(s, s)
<1>0. PICK l \in Histories : \E g \in Cuts(l) : s = Stream(l, g)
    BY DEF Bounded
<1>1. PICK g \in Cuts(l) : s = Stream(l, g)
    BY <1>0
<1>2. Len(l) \in Nat /\ g \in Nat
    BY HistoryIs
<1>3. Extends(l, g, l, g)
    BY <1>2 DEF Extends
<1> QED
    BY <1>1, <1>3 DEF Grows

\* A merge leaves what the ledger had, or covers it by the gap.
LEMMA MergeGrows ==
    ASSUME NEW s, NEW t, NEW max, NEW top, Bounded(s, max), Bounded(t, top), mergeable(s, t)
    PROVE  merged(s, t) = t /\ Grows(s, t)
<1>0. PICK l \in Histories : \E g \in Cuts(l) : s = Stream(l, g)
    BY DEF Bounded
<1>1. PICK g \in Cuts(l) : s = Stream(l, g)
    BY <1>0
<1>m. PICK m \in Histories : \E h \in Cuts(m) : t = Stream(m, h)
    BY DEF Bounded
<1>2. PICK h \in Cuts(m) : t = Stream(m, h)
    BY <1>m
<1>3. Extends(l, g, m, h)
    BY <1>1, <1>2, MergeableIs
<1>4. merged(s, t) = t
    BY <1>1, <1>2, MergedIs
<1> QED
    BY <1>1, <1>2, <1>3, <1>4 DEF Grows

-----------------------------------------------------------------------------
(* Copies of an events file.                                               *)

Prefixes(lines) == {SubSeq(lines, 1, k) : k \in 2..Len(lines)}

\* A bounded copy, as the file was at some time, and any stream of such a file.
CopyOf(s, lines, max) == \E p \in Prefixes(lines) : s = Stream(p, Cut(Len(p), 1, max))
ViewOf(s, lines) == \E p \in Prefixes(lines) : \E g \in Cuts(p) : s = Stream(p, g)

HasFailed(s) == \E e \in Entries(s) : e.kind = "failed"

\* A prefix of a history is a history.
LEMMA PrefixIs ==
    ASSUME NEW lines \in Histories, NEW p \in Prefixes(lines)
    PROVE  /\ p \in Histories /\ Len(p) <= Len(lines)
           /\ \A n \in 1..Len(p) : p[n] = lines[n]
<1>1. /\ Len(lines) \in Nat /\ 2 <= Len(lines) /\ lines[1] = "accepted"
      /\ \A n \in 1..Len(lines) : lines[n] \in Kinds
    BY HistoryIs
<1>2. PICK k \in 2..Len(lines) : p = SubSeq(lines, 1, k)
    BY DEF Prefixes
<1>3. k \in Int /\ 1 <= k /\ k - 1 + 1 = k /\ \A n \in 1..k : lines[n] \in Kinds
    BY <1>1, <1>2
<1>4. p \in Seq(Kinds) /\ Len(p) = k /\ \A n \in 1..k : p[n] = lines[1 + n - 1]
    BY <1>2, <1>3, SubSeqProperties
<1>5. \A n \in 1..k : 1 + n - 1 = n
    BY <1>3
<1>6. \A n \in 1..k : p[n] = lines[n]
    BY <1>4, <1>5
<1>7. p[1] = "accepted" /\ 2 <= Len(p)
    BY <1>1, <1>2, <1>3, <1>4, <1>6
<1>8. p \in Histories
    BY <1>4, <1>7 DEF Histories
<1>9. Len(p) <= Len(lines)
    BY <1>1, <1>2, <1>4
<1> QED
    BY <1>4, <1>6, <1>8, <1>9

\* What was a prefix stays one when the file grows.
LEMMA PrefixesGrow ==
    ASSUME NEW lines \in Histories, NEW k \in Kinds
    PROVE  lines \in Prefixes(lines) /\ Prefixes(lines) \subseteq Prefixes(Append(lines, k))
<1>1. lines \in Seq(Kinds) /\ Len(lines) \in Nat /\ 2 <= Len(lines)
    BY HistoryIs
<1>2. SubSeq(lines, 1, Len(lines)) = lines
    BY <1>1
<1>3. lines \in Prefixes(lines)
    <2>1. Len(lines) \in 2..Len(lines)
        BY <1>1
    <2>2. SubSeq(lines, 1, Len(lines)) \in Prefixes(lines)
        BY <2>1 DEF Prefixes
    <2> QED
        BY <1>2, <2>2
<1>4. ASSUME NEW p \in Prefixes(lines) PROVE p \in Prefixes(Append(lines, k))
    <2>1. PICK j \in 2..Len(lines) : p = SubSeq(lines, 1, j)
        BY DEF Prefixes
    <2>2. PICK b : b = Append(lines, k)
        OBVIOUS
    <2>3. /\ b \in Histories /\ Len(b) = Len(lines) + 1
          /\ \A n \in 1..Len(lines) : b[n] = lines[n]
        BY <2>2, LongerIs
    <2>4. j \in 2..Len(b)
        BY <1>1, <2>3
    <2>5. PICK q : q = SubSeq(b, 1, j)
        OBVIOUS
    <2>6. q \in Prefixes(b)
        BY <2>4, <2>5 DEF Prefixes
    <2>7. q \in Seq(Kinds) /\ p \in Seq(Kinds) /\ Len(q) = j /\ Len(p) = j
          /\ \A n \in 1..j : q[n] = b[1 + n - 1] /\ p[n] = lines[1 + n - 1]
        <3>1. (\A n \in 1..j : b[n] \in Kinds) /\ (\A n \in 1..j : lines[n] \in Kinds)
            BY <1>1, <2>3, <2>4, HistoryIs
        <3>2. j \in Int /\ 1 <= j /\ j - 1 + 1 = j
            BY <1>1
        <3> QED
            BY <2>1, <2>5, <3>1, <3>2, SubSeqProperties
    <2>8. \A n \in 1..j : q[n] = p[n]
        <3>1. ASSUME NEW n \in 1..j PROVE 1 + n - 1 = n /\ n \in 1..Len(lines)
            BY <1>1, <3>1
        <3> QED
            BY <2>3, <2>7, <3>1
    <2>9. q = p
        BY <2>7, <2>8, SeqEqual
    <2> QED
        BY <2>2, <2>6, <2>9
<1> QED
    BY <1>3, <1>4

\* A copy is a stream of its file, within its limit.
LEMMA CopyOfIs ==
    ASSUME NEW lines \in Histories, NEW s, NEW max \in Nat, 3 <= max, CopyOf(s, lines, max)
    PROVE  Bounded(s, max) /\ ViewOf(s, lines) /\ Final(s) \in Nat /\ Final(s) <= Len(lines)
<1>1. PICK p \in Prefixes(lines) : s = Stream(p, Cut(Len(p), 1, max))
    BY DEF CopyOf
<1>2. p \in Histories /\ Len(p) <= Len(lines)
    BY <1>1, PrefixIs
<1>3. 1 \in Cuts(p) /\ Len(p) \in Nat
    BY <1>2, HistoryIs
<1>4. Cut(Len(p), 1, max) \in Cuts(p) /\ Size(p, Cut(Len(p), 1, max)) <= max
    BY <1>2, <1>3, CopyIs
<1>5. Final(s) = Len(p)
    BY <1>1, <1>2, <1>4, ContentIs
<1> QED
    BY <1>1, <1>2, <1>3, <1>4, <1>5 DEF Bounded, ViewOf

\* A copy of a file is still one after the file has grown.
LEMMA CopiesGrow ==
    ASSUME NEW lines \in Histories, NEW k \in Kinds, NEW s, NEW max
    PROVE  /\ CopyOf(s, lines, max) => CopyOf(s, Append(lines, k), max)
           /\ ViewOf(s, lines) => ViewOf(s, Append(lines, k))
    BY PrefixesGrow DEF CopyOf, ViewOf

\* copyBoundedLedgerEvents makes a copy of the whole file.
LEMMA CopyMade ==
    ASSUME NEW lines \in Histories, NEW max \in Nat, 3 <= max
    PROVE  /\ CopyOf(copyBoundedLedgerEvents(Numbered(lines), max), lines, max)
           /\ Final(copyBoundedLedgerEvents(Numbered(lines), max)) = Len(lines)
           /\ copyBoundedLedgerEvents(Numbered(lines), max) = Stream(lines, Cut(Len(lines), 1, max))
           /\ Cut(Len(lines), 1, max) \in Cuts(lines)
<1>1. 1 \in Cuts(lines) /\ Numbered(lines) = Stream(lines, 1)
    BY HistoryIs, NumberedIs
<1>2. /\ copyBoundedLedgerEvents(Numbered(lines), max) = Stream(lines, Cut(Len(lines), 1, max))
      /\ Cut(Len(lines), 1, max) \in Cuts(lines)
    BY <1>1, CopyIs
<1>3. lines \in Prefixes(lines)
    BY PrefixesGrow DEF Kinds
<1>4. Final(Stream(lines, Cut(Len(lines), 1, max))) = Len(lines)
    BY <1>2, ContentIs
<1> QED
    BY <1>2, <1>3, <1>4 DEF CopyOf

\* Of two copies of a file the longer one can be merged into the other.
LEMMA CopyOrder ==
    ASSUME NEW lines \in Histories, NEW s, NEW t, NEW max \in Nat, 3 <= max,
           CopyOf(s, lines, max), CopyOf(t, lines, max), Final(s) <= Final(t)
    PROVE  mergeable(s, t) /\ merged(s, t) = t /\ Grows(s, t)
<1>1. PICK p \in Prefixes(lines) : s = Stream(p, Cut(Len(p), 1, max))
    BY DEF CopyOf
<1>2. PICK q \in Prefixes(lines) : t = Stream(q, Cut(Len(q), 1, max))
    BY DEF CopyOf
<1>3. p \in Histories /\ q \in Histories
    BY <1>1, <1>2, PrefixIs
<1>4. PICK g : g = Cut(Len(p), 1, max)
    OBVIOUS
<1>5. PICK h : h = Cut(Len(q), 1, max)
    OBVIOUS
<1>6. g \in Cuts(p) /\ h \in Cuts(q) /\ Len(p) \in Nat /\ Len(q) \in Nat /\ g \in Nat /\ h \in Nat /\ 1 <= g
    BY <1>3, <1>4, <1>5, CopyIs, HistoryIs
<1>7. Len(p) <= Len(q)
    <2>1. Final(s) = Len(p) /\ Final(t) = Len(q)
        BY <1>1, <1>2, <1>3, <1>4, <1>5, <1>6, ContentIs
    <2> QED
        BY <2>1
<1>8. g # 1 => g <= h
    BY <1>4, <1>5, <1>6, <1>7 DEF Cut
<1>9. ASSUME NEW n \in (g + 1)..Len(p) PROVE p[n] = q[n]
    <2>1. n \in 1..Len(p) /\ n \in 1..Len(q)
        BY <1>6, <1>7
    <2> QED
        BY <1>1, <1>2, <2>1, PrefixIs
<1>10. Extends(p, g, q, h)
    BY <1>7, <1>8, <1>9 DEF Extends
<1>11. mergeable(s, t)
    BY <1>1, <1>2, <1>3, <1>4, <1>5, <1>6, <1>10, MergeableIs
<1>12. merged(s, t) = t
    BY <1>1, <1>2, <1>3, <1>4, <1>5, <1>6, MergedIs
<1> QED
    BY <1>1, <1>2, <1>3, <1>4, <1>5, <1>6, <1>10, <1>11, <1>12 DEF Grows

\* The terminal history of a file, after what the ledger has given up.
LEMMA TerminalIs ==
    ASSUME NEW lines \in Histories, NEW l \in Histories, NEW g \in Cuts(l), NEW max \in Nat, 3 <= max,
           g < Len(lines)
    PROVE  LET t == sanitized(Stream(l, g), copyBoundedLedgerEvents(Numbered(lines), max))
               w == Wider(g, Cut(Len(lines), 1, max))
           IN  t = Stream(lines, w) /\ w \in Cuts(lines) /\ Bounded(t, max) /\ ViewOf(t, lines)
<1>1. PICK h : h = Cut(Len(lines), 1, max)
    OBVIOUS
<1>2. PICK w : w = Wider(g, h)
    OBVIOUS
<1>3. h \in Cuts(lines) /\ copyBoundedLedgerEvents(Numbered(lines), max) = Stream(lines, h)
    BY <1>1, CopyMade
<1>4. w \in Cuts(lines) /\ sanitized(Stream(l, g), Stream(lines, h)) = Stream(lines, w)
    BY <1>2, <1>3, SanitizedIs
<1>5. Size(lines, h) <= max
    BY <1>1, CopyIs, HistoryIs
<1>6. Len(lines) \in Nat /\ g \in Nat /\ 1 <= g /\ h \in Nat /\ 1 <= h
    BY <1>3, HistoryIs
<1>7. Size(lines, w) <= max
    BY <1>2, <1>5, <1>6 DEF Size, Wider
<1>8. lines \in Prefixes(lines)
    BY PrefixesGrow DEF Kinds
<1> QED
    BY <1>1, <1>2, <1>3, <1>4, <1>7, <1>8 DEF Bounded, ViewOf

\* A terminal history that is accepted is a stream of the Agent's file, within the
\* limit of the ledger.
LEMMA TerminalMade ==
    ASSUME NEW lines \in Histories, NEW s, NEW top, Bounded(s, top), NEW max \in Nat, 3 <= max,
           NEW t, t = sanitized(s, copyBoundedLedgerEvents(Numbered(lines), max)), mergeable(s, t)
    PROVE  Bounded(t, max) /\ ViewOf(t, lines)
<1>1. PICK l \in Histories : \E g \in Cuts(l) : s = Stream(l, g)
    BY DEF Bounded
<1>2. PICK g \in Cuts(l) : s = Stream(l, g)
    BY <1>1
<1>3. PICK h : h = Cut(Len(lines), 1, max)
    OBVIOUS
<1>4. h \in Cuts(lines) /\ copyBoundedLedgerEvents(Numbered(lines), max) = Stream(lines, h)
    BY <1>3, CopyMade
<1>5. g < Len(lines)
    BY <1>2, <1>4, RefusedIs
<1> QED
    BY <1>2, <1>5, TerminalIs

\* It is accepted when the ledger has a stream of that file.
LEMMA TerminalMerges ==
    ASSUME NEW lines \in Histories, NEW s, ViewOf(s, lines), NEW max \in Nat, 3 <= max
    PROVE  mergeable(s, sanitized(s, copyBoundedLedgerEvents(Numbered(lines), max)))
<1>1. PICK p \in Prefixes(lines) : \E g \in Cuts(p) : s = Stream(p, g)
    BY DEF ViewOf
<1>2. PICK g \in Cuts(p) : s = Stream(p, g)
    BY <1>1
<1>3. p \in Histories /\ Len(p) <= Len(lines) /\ \A n \in 1..Len(p) : p[n] = lines[n]
    BY <1>1, PrefixIs
<1>4. /\ Len(p) \in Nat /\ Len(lines) \in Nat /\ g \in Nat /\ 1 <= g /\ g < Len(p)
    BY <1>3, HistoryIs
<1>5. g < Len(lines)
    BY <1>3, <1>4
<1>6. PICK h : h = Cut(Len(lines), 1, max)
    OBVIOUS
<1>7. h \in Nat
    BY <1>6, CopyMade, HistoryIs
<1>8. PICK w : w = Wider(g, h)
    OBVIOUS
<1>9. w \in Cuts(lines) /\ sanitized(s, copyBoundedLedgerEvents(Numbered(lines), max)) = Stream(lines, w)
    BY <1>2, <1>3, <1>5, <1>6, <1>8, TerminalIs
<1>10. g <= w
    BY <1>4, <1>7, <1>8 DEF Wider
<1>11. \A n \in (g + 1)..Len(p) : p[n] = lines[n]
    BY <1>3, <1>4
<1>12. Extends(p, g, lines, w)
    BY <1>3, <1>10, <1>11 DEF Extends
<1> QED
    BY <1>2, <1>3, <1>9, <1>12, MergeableIs

-----------------------------------------------------------------------------
(* What a failure and a synchronisation write.                             *)

\* A stream whose last event is a failure has one.
LEMMA FailedShows ==
    ASSUME NEW l \in Histories, NEW g \in Cuts(l), l[Len(l)] = "failed"
    PROVE  HasFailed(Stream(l, g))
<1>1. Len(l) \in Nat /\ 2 <= Len(l) /\ g \in Nat /\ g < Len(l)
    BY HistoryIs
<1>2. Len(l) \in Shown(l, g)
    BY <1>1 DEF Shown
<1>3. Event(Len(l), l[Len(l)]) \in Entries(Stream(l, g))
    BY <1>2, ContentIs
<1>4. Event(Len(l), l[Len(l)]).kind = "failed"
    BY EntryIs
<1> QED
    BY <1>3, <1>4 DEF HasFailed

\* The acknowledged events, and a failure after them.
LEMMA PreservedIs ==
    ASSUME NEW s, Bounded(s, LedgerMax), NEW t, t = preserveAcknowledgedFailure(s)
    PROVE  Bounded(t, LedgerMax) /\ Grows(s, t) /\ (t = s \/ HasFailed(t))
<1>1. PICK l \in Histories : \E g \in Cuts(l) : s = Stream(l, g) /\ Size(l, g) <= LedgerMax
    BY DEF Bounded
<1>2. PICK g \in Cuts(l) : s = Stream(l, g)
    BY <1>1
<1>3. CASE HasFailure(s)
    BY <1>3, GrowsSelf DEF preserveAcknowledgedFailure
<1>4. CASE ~HasFailure(s)
    <2>1. Final(s) = Len(l)
        BY <1>2, ContentIs
    <2>2. PICK b : b = Append(l, "failed")
        OBVIOUS
    <2>3. "failed" \in Kinds
        BY DEF Kinds
    <2>4. /\ b \in Histories /\ g \in Cuts(b) /\ Len(b) = Len(l) + 1
          /\ \A n \in 1..Len(l) : b[n] = l[n]
          /\ b[Len(b)] = "failed"
        BY <2>2, <2>3, LongerIs
    <2>5. Append(s, Event(Final(s) + 1, "failed")) = Stream(b, g)
        BY <1>2, <2>1, <2>2, <2>3, AppendedIs
    <2>6. t = copyBoundedLedgerEvents(Stream(b, g), LedgerMax)
        BY <1>4, <2>5 DEF preserveAcknowledgedFailure
    <2>7. PICK h : h = Cut(Len(b), g, LedgerMax)
        OBVIOUS
    <2>8. LedgerMax \in Nat /\ 3 <= LedgerMax
        BY LimitAssumption
    <2>9. h \in Cuts(b) /\ g <= h /\ Size(b, h) <= LedgerMax /\ t = Stream(b, h)
        BY <2>4, <2>6, <2>7, <2>8, CopyIs
    <2>10. Len(l) \in Nat /\ g \in Nat /\ 1 <= g
        BY HistoryIs
    <2>11. Extends(l, g, b, h)
        <3>1. Len(l) <= Len(b)
            BY <2>4, <2>10
        <3>2. \A n \in (g + 1)..Len(l) : l[n] = b[n]
            BY <2>4, <2>10
        <3> QED
            BY <2>9, <3>1, <3>2 DEF Extends
    <2>12. HasFailed(t)
        BY <2>4, <2>9, FailedShows
    <2> QED
        BY <1>2, <2>4, <2>9, <2>11, <2>12 DEF Bounded, Grows
<1> QED
    BY <1>3, <1>4

\* The Control Plane's file is newer when it has more lines.
LEMMA NewerIs ==
    ASSUME NEW lines \in Histories, Bounded(ledger.events, LedgerMax)
    PROVE  Newer(lines) <=> Len(lines) > Final(ledger.events)
<1>1. PICK l \in Histories : \E g \in Cuts(l) : ledger.events = Stream(l, g)
    BY DEF Bounded
<1>2. PICK g \in Cuts(l) : ledger.events = Stream(l, g)
    BY <1>1
<1>3. PICK s : s = ledger.events
    OBVIOUS
<1>4. PICK t : t = Numbered(lines)
    OBVIOUS
<1>5. /\ Len(l) \in Nat /\ 2 <= Len(l) /\ g \in Nat /\ 1 <= g /\ g < Len(l)
      /\ Len(lines) \in Nat /\ 2 <= Len(lines) /\ 1 \in Cuts(lines)
    BY HistoryIs
<1>6. /\ Final(s) = Len(l)
      /\ \A e : e \in Entries(s) <=> e \in {Event(n, l[n]) : n \in Shown(l, g)} \/ (g # 1 /\ e = Gap(g))
    BY <1>2, <1>3, ContentIs
<1>7. t = Stream(lines, 1)
    BY <1>4, NumberedIs
<1>8. \A e : e \in Entries(t) <=> e \in {Event(n, lines[n]) : n \in Shown(lines, 1)}
    BY <1>5, <1>7, ContentIs
<1>9. /\ Len(l) \in Shown(l, g) /\ \A n \in Shown(l, g) : n \in Nat /\ n <= Len(l)
    BY <1>5 DEF Shown
<1>10. Len(lines) \in Shown(lines, 1) /\ \A n \in Shown(lines, 1) : n \in Nat /\ n <= Len(lines)
    BY <1>5 DEF Shown
<1>11. ASSUME Newer(lines) PROVE Len(lines) > Len(l)
    <2>1. PICK e \in Entries(t) : \A f \in Entries(s) : e.seq > f.seq
        BY <1>3, <1>4, <1>11 DEF Newer
    <2>2. PICK n \in Shown(lines, 1) : e = Event(n, lines[n])
        BY <1>8, <2>1
    <2>3. Event(Len(l), l[Len(l)]) \in Entries(s)
        BY <1>6, <1>9
    <2>4. n > Len(l)
        BY <2>1, <2>2, <2>3, EntryIs
    <2> QED
        BY <1>5, <1>10, <2>2, <2>4
<1>12. ASSUME Len(lines) > Len(l) PROVE Newer(lines)
    <2>1. Event(Len(lines), lines[Len(lines)]) \in Entries(t)
        BY <1>8, <1>10
    <2>2. ASSUME NEW f \in Entries(s) PROVE Len(lines) > f.seq
        <3>1. CASE g # 1 /\ f = Gap(g)
            BY <1>5, <1>12, <3>1, EntryIs
        <3>2. CASE ~(g # 1 /\ f = Gap(g))
            <4>1. PICK n \in Shown(l, g) : f = Event(n, l[n])
                BY <1>6, <2>2, <3>2
            <4> QED
                BY <1>5, <1>9, <1>12, <4>1, EntryIs
        <3> QED
            BY <3>1, <3>2
    <2> QED
        BY <1>3, <1>4, <2>1, <2>2, EntryIs DEF Newer
<1> QED
    BY <1>3, <1>6, <1>11, <1>12

\* syncRunLedgerArtifacts takes the longer of the two.
LEMMA SyncedIs ==
    ASSUME NEW lines \in Histories, Bounded(ledger.events, LedgerMax)
    PROVE  Synced(lines) = IF Len(lines) > Final(ledger.events)
                           THEN copyBoundedLedgerEvents(Numbered(lines), LedgerMax)
                           ELSE ledger.events
<1>1. Len(ledger.events) \in Nat /\ Len(ledger.events) <= LedgerMax
    BY BoundedIs
<1>2. LedgerMax \in Nat
    BY LimitAssumption
<1>3. ~(Len(ledger.events) > LedgerMax)
    BY <1>1, <1>2
<1> QED
    BY <1>3, NewerIs DEF Synced

\* A synchronisation with a file that ends in a failure.
LEMMA SyncFailed ==
    ASSUME NEW lines \in Histories, Bounded(ledger.events, LedgerMax), NEW t,
           t = Synced(Append(lines, "failed"))
    PROVE  Bounded(t, LedgerMax) /\ (t = ledger.events \/ HasFailed(t))
<1>1. PICK b : b = Append(lines, "failed")
    OBVIOUS
<1>2. "failed" \in Kinds
    BY DEF Kinds
<1>3. b \in Histories /\ b[Len(b)] = "failed"
    BY <1>1, <1>2, LongerIs
<1>4. LedgerMax \in Nat /\ 3 <= LedgerMax
    BY LimitAssumption
<1>5. t = ledger.events \/ t = copyBoundedLedgerEvents(Numbered(b), LedgerMax)
    BY <1>1, <1>3, SyncedIs
<1>6. CASE t = copyBoundedLedgerEvents(Numbered(b), LedgerMax)
    <2>1. CopyOf(t, b, LedgerMax) /\ t = Stream(b, Cut(Len(b), 1, LedgerMax)) /\ Cut(Len(b), 1, LedgerMax) \in Cuts(b)
        BY <1>3, <1>4, <1>6, CopyMade
    <2> QED
        BY <1>3, <1>4, <2>1, CopyOfIs, FailedShows
<1> QED
    BY <1>5, <1>6

\* A synchronisation with a file the ledger has a copy of brings it up to date.
LEMMA SyncGrows ==
    ASSUME NEW lines \in Histories, CopyOf(ledger.events, lines, LedgerMax), NEW t, t = Synced(lines)
    PROVE  /\ CopyOf(t, lines, LedgerMax) /\ Grows(ledger.events, t) /\ Final(t) = Len(lines)
           /\ Final(ledger.events) = Len(lines) => t = ledger.events
<1>1. LedgerMax \in Nat /\ 3 <= LedgerMax
    BY LimitAssumption
<1>2. Bounded(ledger.events, LedgerMax) /\ Final(ledger.events) \in Nat /\ Final(ledger.events) <= Len(lines)
    BY <1>1, CopyOfIs
<1>3. Len(lines) \in Nat
    BY HistoryIs
<1>4. PICK c : c = copyBoundedLedgerEvents(Numbered(lines), LedgerMax)
    OBVIOUS
<1>5. CopyOf(c, lines, LedgerMax) /\ Final(c) = Len(lines)
    BY <1>1, <1>4, CopyMade
<1>6. t = IF Len(lines) > Final(ledger.events) THEN c ELSE ledger.events
    BY <1>2, <1>4, SyncedIs
<1>7. CASE Len(lines) > Final(ledger.events)
    <2>1. Grows(ledger.events, c)
        BY <1>1, <1>2, <1>5, CopyOrder
    <2> QED
        BY <1>2, <1>3, <1>5, <1>6, <1>7, <2>1
<1>8. CASE ~(Len(lines) > Final(ledger.events))
    <2>1. Grows(ledger.events, ledger.events)
        BY <1>2, GrowsSelf
    <2> QED
        BY <1>2, <1>3, <1>6, <1>8, <2>1
<1> QED
    BY <1>7, <1>8

-----------------------------------------------------------------------------
(* The invariant of the streams: who has what of which events file.        *)

Checkpoints == [n : 1..MaxCheckpoints, events : Seq(Items)]
Agents == [pc : {"running", "completing", "failing", "quarantining", "ended"},
           pending : {None} \cup Checkpoints, acked : {None} \cup Seq(Items),
           next : Nat \ {0}, refused : BOOLEAN]
Ledgers == [events : Seq(Items), rec : Records]
Saves == [op : {"save"}, m : Checkpoints, rec : Records]
Finishes == [op : {"finish"}, rec : Records]
Readers == [pc : {"idle", "events", "ended"}, snap : {None} \cup Records, cursor : Nat,
            got : SUBSET Items, stamp : {None} \cup Histories]

Basics == /\ mode \in Modes /\ up \in BOOLEAN /\ lease \in BOOLEAN /\ torn \in BOOLEAN
          /\ faults \in 0..MaxFaults /\ crashes \in 0..MaxCrashes

Files == source \in Histories /\ transient \in Histories

\* Every checkpoint is a copy of the Agent's file, and the pending one is the
\* longest.
AgentOK ==
    /\ agent \in Agents /\ sent \subseteq Checkpoints
    /\ \A m \in sent : CopyOf(m.events, source, ProgressMax)
    /\ agent.pending # None =>
         /\ agent.pending \in sent
         /\ \A m \in sent : Final(m.events) <= Final(agent.pending.events)

LedgerOK == ledger \in Ledgers /\ Bounded(ledger.events, LedgerMax)

\* The assignments in memory and on disk are in the same state, and one that has
\* left the memory is completed.
StoreOK ==
    /\ mode = "agent" => /\ disk \in Assignments
                         /\ \/ asg = None /\ disk.state = "completed"
                            \/ asg \in Assignments /\ asg.state = disk.state
    /\ mode = "local" => asg = None /\ disk = None /\ up /\ writer = None

\* A request that holds checkpointMu has the assignment it started with; the
\* events it saves are in the ledger, unless a refresh has replaced them.
WriterOK ==
    writer # None =>
      /\ mode = "agent" /\ up /\ asg \in Assignments /\ asg.state = "confirmed"
      /\ writer \in Saves \cup Finishes
      /\ writer.op = "save" => writer.m \in sent /\ (torn \/ ledger.events = writer.m.events)
      /\ writer.op = "finish" => asg.orig \in Records

ReaderOK == reader \in Readers

Core == Basics /\ Files /\ AgentOK /\ LedgerOK /\ StoreOK /\ WriterOK /\ ReaderOK

-----------------------------------------------------------------------------
(* What a step may do to the parts.                                        *)

\* Nothing is added to the Agent's file or to what it has sent.
AgentQuiet ==
    /\ source' = source /\ sent' = sent /\ agent' \in Agents
    /\ agent'.pending \in {None, agent.pending}
    /\ agent'.pc = "running" => agent.pc = "running"

\* The follower is sent nothing; at most it loses its connection.
ReaderQuiet ==
    /\ reader' \in Readers /\ reader'.cursor = reader.cursor /\ reader'.got = reader.got
    /\ reader'.pc = "idle" \/ (reader'.pc = reader.pc /\ reader'.snap = reader.snap)

\* What becomes of the ledger's events.  Unless a failure is cut off they say
\* what they said.
LedgerStep ==
    /\ ledger' \in Ledgers /\ Bounded(ledger'.events, LedgerMax)
    /\ torn => torn'
    /\ ~torn' => Grows(ledger.events, ledger'.events)
    /\ mode = "agent" =>
         \/ ledger'.events = ledger.events \/ HasFailed(ledger'.events)
         \/ \E m \in sent : ledger'.events = m.events
         \/ agent.pc # "running" /\ ViewOf(ledger'.events, source)

AgentPart == Files' /\ AgentQuiet /\ mode' = mode
StorePart == Basics' /\ LedgerStep /\ StoreOK' /\ WriterOK' /\ ReaderQuiet

\* The assumptions on the constants, one by one.
LEMMA Limits == /\ ProgressMax \in Nat /\ 3 <= ProgressMax /\ LedgerMax \in Nat /\ 3 <= LedgerMax
                /\ ProgressMax <= LedgerMax /\ MaxLines \in Nat /\ MaxCheckpoints \in Nat
                /\ MaxFaults \in Nat /\ MaxCrashes \in Nat
    BY LimitAssumption, BoundAssumption

\* A file of the Control Plane or of the Agent gets one more line.
LEMMA LineIs ==
    ASSUME NEW lines \in Histories
    PROVE  \A k \in {"agent", "failed"} \cup Closing : Append(lines, k) \in Histories /\ k \in Kinds
<1>1. {"agent", "failed"} \cup Closing \subseteq Kinds
    BY DEF Closing, Kinds
<1> QED
    BY <1>1, LongerIs

\* The ways in which a step goes right or wrong.
LEMMA FaultIs ==
    ASSUME Basics, Fault
    PROVE  faults' \in 0..MaxFaults /\ crashes' \in 0..MaxCrashes
    BY Limits DEF Basics, Fault

LEMMA DownIs ==
    ASSUME Basics, ReaderOK, Down
    PROVE  /\ faults' \in 0..MaxFaults /\ crashes' \in 0..MaxCrashes
           /\ up' = FALSE /\ lease' = FALSE /\ writer' = None /\ ReaderQuiet
<1>1. faults' \in 0..MaxFaults /\ crashes' \in 0..MaxCrashes
    BY Limits DEF Basics, Down
<1>2. up' = FALSE /\ lease' = FALSE /\ writer' = None
    BY DEF Down
<1>3. ReaderQuiet
    <2>1. CASE reader.pc = "ended"
        BY <2>1 DEF Down, ReaderQuiet, ReaderOK
    <2>2. CASE reader.pc # "ended"
        <3>1. reader' = [reader EXCEPT !.pc = "idle", !.snap = None, !.stamp = None]
            BY <2>2 DEF Down
        <3> QED
            BY <3>1 DEF ReaderQuiet, ReaderOK, Readers
    <2> QED
        BY <2>1, <2>2
<1> QED
    BY <1>1, <1>2, <1>3

LEMMA BreakIs ==
    ASSUME Basics, ReaderOK, Break
    PROVE  /\ faults' \in 0..MaxFaults /\ crashes' \in 0..MaxCrashes
           /\ up' \in BOOLEAN /\ lease' \in BOOLEAN /\ writer' = None /\ ReaderQuiet
<1>1. CASE Error
    <2>1. faults' \in 0..MaxFaults /\ crashes' \in 0..MaxCrashes
        BY <1>1, FaultIs DEF Error
    <2> QED
        BY <1>1, <2>1 DEF Error, ReaderQuiet, ReaderOK, Basics
<1>2. CASE Down
    BY <1>2, DownIs
<1> QED
    BY <1>1, <1>2 DEF Break

LEMMA FineIs ==
    ASSUME Basics, ReaderOK, Fine
    PROVE  /\ faults' \in 0..MaxFaults /\ crashes' \in 0..MaxCrashes
           /\ up' = up /\ lease' = lease /\ up' \in BOOLEAN /\ lease' \in BOOLEAN /\ ReaderQuiet
    BY DEF Fine, bounds, Basics, ReaderQuiet, ReaderOK

\* What the Agent learns adds nothing to what it has sent.
LEMMA AnswersAreQuiet ==
    ASSUME AgentOK, source' = source, sent' = sent, NEW m \in Checkpoints,
           Acked(m) \/ Refused(m) \/ Answered
    PROVE  AgentQuiet
<1>1. agent \in Agents
    BY DEF AgentOK
<1>2. CASE agent' = agent
    BY <1>1, <1>2 DEF AgentQuiet
<1>3. CASE agent' = [agent EXCEPT !.pending = None, !.acked = m.events, !.next = @ + 1]
    <2>1. PICK d \in Seq(Items) : d = m.events
        BY DEF Checkpoints
    <2>2. PICK k \in Nat \ {0} : k = agent.next + 1
        BY <1>1 DEF Agents
    <2>3. agent' = [agent EXCEPT !.pending = None, !.acked = d, !.next = k]
        BY <1>3, <2>1, <2>2
    <2> QED
        BY <1>1, <2>3 DEF AgentQuiet, Agents
<1>4. CASE agent' = [agent EXCEPT !.pending = None, !.refused = TRUE]
    BY <1>1, <1>4 DEF AgentQuiet, Agents
<1>5. CASE agent' = [agent EXCEPT !.pc = "ended"]
    BY <1>1, <1>5 DEF AgentQuiet, Agents
<1> QED
    BY <1>2, <1>3, <1>4, <1>5 DEF Acked, Refused, Answered

LEMMA AgentStays ==
    ASSUME AgentOK, source' = source, sent' = sent, agent' = agent
    PROVE  AgentQuiet
    BY DEF AgentOK, AgentQuiet

LEMMA AgentAnswered ==
    ASSUME AgentOK, source' = source, sent' = sent, Answered
    PROVE  AgentQuiet
<1>1. agent \in Agents
    BY DEF AgentOK
<1>2. CASE agent' = agent
    BY <1>1, <1>2 DEF AgentQuiet
<1>3. CASE agent' = [agent EXCEPT !.pc = "ended"]
    BY <1>1, <1>3 DEF AgentQuiet, Agents
<1> QED
    BY <1>2, <1>3 DEF Answered

\* The invariant of the Agent from a step that is quiet about it.
LEMMA QuietAgent == ASSUME AgentOK, AgentQuiet PROVE AgentOK'
<1>1. agent' \in Agents /\ source' = source /\ sent' = sent
    BY DEF AgentQuiet
<1>2. sent' \subseteq Checkpoints /\ \A m \in sent' : CopyOf(m.events, source', ProgressMax)
    BY <1>1 DEF AgentOK
<1>3. ASSUME agent'.pending # None
      PROVE  agent'.pending \in sent' /\ \A m \in sent' : Final(m.events) <= Final(agent'.pending.events)
    <2>1. agent'.pending = agent.pending
        BY <1>3 DEF AgentQuiet
    <2> QED
        BY <1>1, <1>3, <2>1 DEF AgentOK
<1> QED
    BY <1>1, <1>2, <1>3 DEF AgentOK

\* The invariant of the follower from a step that is quiet about it.
LEMMA QuietReader == ASSUME ReaderQuiet PROVE ReaderOK'
    BY DEF ReaderQuiet, ReaderOK

\* The ledger's events stay as they are.
LEMMA LedgerStays ==
    ASSUME LedgerOK, ledger' \in Ledgers, ledger'.events = ledger.events, torn => torn'
    PROVE  LedgerStep
<1>1. Grows(ledger.events, ledger.events)
    BY GrowsSelf DEF LedgerOK
<1> QED
    BY <1>1 DEF LedgerStep, LedgerOK

-----------------------------------------------------------------------------
(* The steps of the Agent, and those that only answer it.                  *)

\* Steps that change no file.
LEMMA StoreStays ==
    ASSUME Core, UNCHANGED <<mode, up, storeVars, writer, torn>>, sent \subseteq sent'
    PROVE  LedgerStep /\ StoreOK' /\ WriterOK'
<1>1. UNCHANGED <<mode, up, asg, disk, transient, ledger, writer, torn>>
    BY DEF storeVars
<1>2. LedgerStep
    BY <1>1, LedgerStays DEF Core, LedgerOK
<1>3. StoreOK'
    BY <1>1 DEF Core, StoreOK
<1>4. WriterOK'
    BY <1>1 DEF Core, WriterOK
<1> QED
    BY <1>2, <1>3, <1>4

LEMMA StoreQuiet ==
    ASSUME Core, UNCHANGED <<mode, up, lease, storeVars, writer, reader, early, torn, bounds>>, sent \subseteq sent'
    PROVE  StorePart
<1>1. LedgerStep /\ StoreOK' /\ WriterOK'
    BY StoreStays
<1>2. Basics'
    BY DEF bounds, Core, Basics
<1>3. ReaderQuiet
    BY DEF Core, ReaderOK, ReaderQuiet
<1> QED
    BY <1>1, <1>2, <1>3 DEF StorePart

\* The steps of the Agent.
LEMMA AgentRecordsStep ==
    ASSUME Core, AgentRecords
    PROVE  Files' /\ AgentOK' /\ StorePart /\ mode' = mode
<1>1. PICK line \in {"agent"} \cup Closing : source' = Append(source, line)
    BY DEF AgentRecords
<1>2. source \in Histories /\ transient \in Histories
    BY DEF Core, Files
<1>3. line \in Kinds /\ Append(source, line) \in Histories
    BY <1>2, LineIs
<1>4. UNCHANGED <<mode, agent, sent, up, lease, storeVars, writer, reader, early, torn, bounds>>
    BY DEF AgentRecords
<1>5. StorePart
    BY <1>4, StoreQuiet
<1>6. transient' = transient
    BY <1>4 DEF storeVars
<1>7. ASSUME NEW s, CopyOf(s, source, ProgressMax) PROVE CopyOf(s, source', ProgressMax)
    BY <1>1, <1>2, <1>3, <1>7, CopiesGrow
<1>8. AgentOK'
    BY <1>4, <1>7 DEF Core, AgentOK
<1> QED
    BY <1>1, <1>2, <1>3, <1>4, <1>5, <1>6, <1>8 DEF Files

LEMMA BuildsCheckpointStep ==
    ASSUME Core, BuildsCheckpoint
    PROVE  /\ Files' /\ AgentOK' /\ StorePart /\ mode' = mode /\ source' = source
           /\ agent'.pc = agent.pc
           /\ agent'.pending # None => Final(agent'.pending.events) = Len(source)
<1>1. PICK c : c = copyBoundedLedgerEvents(Numbered(source), ProgressMax)
    OBVIOUS
<1>2. PICK m : m = [n |-> agent.next, events |-> c]
    OBVIOUS
<1>3. m.n = agent.next /\ m.events = c
    BY <1>2
<1>4. /\ agent.next <= MaxCheckpoints
      /\ agent' = [agent EXCEPT !.pending = m]
      /\ sent' = sent \cup {m}
      /\ UNCHANGED <<mode, source, up, lease, storeVars, writer, reader, early, torn, bounds>>
    BY <1>1, <1>2 DEF BuildsCheckpoint
<1>5. source \in Histories /\ transient \in Histories
    BY DEF Core, Files
<1>6. CopyOf(c, source, ProgressMax) /\ Final(c) = Len(source)
    BY <1>1, <1>5, Limits, CopyMade
<1>7. c \in Seq(Items)
    BY <1>5, <1>6, Limits, CopyOfIs, BoundedIs
<1>8. agent \in Agents /\ sent \subseteq Checkpoints /\ \A k \in sent : CopyOf(k.events, source, ProgressMax)
    BY DEF Core, AgentOK
<1>9. m \in Checkpoints
    <2>1. agent.next \in 1..MaxCheckpoints
        BY <1>4, <1>8, Limits DEF Agents
    <2> QED
        BY <1>2, <1>7, <2>1 DEF Checkpoints
<1>10. agent' \in Agents /\ agent'.pending = m /\ agent'.pc = agent.pc
    BY <1>4, <1>8, <1>9 DEF Agents
<1>11. \A k \in sent' : CopyOf(k.events, source, ProgressMax)
    BY <1>3, <1>4, <1>6, <1>8
<1>12. ASSUME NEW k \in sent' PROVE Final(k.events) <= Final(m.events)
    BY <1>3, <1>5, <1>6, <1>11, Limits, CopyOfIs
<1>13. AgentOK'
    BY <1>4, <1>8, <1>9, <1>10, <1>11, <1>12 DEF AgentOK
<1>14. StorePart
    BY <1>4, StoreQuiet
<1>15. Files'
    BY <1>4, <1>5 DEF Files, storeVars
<1> QED
    BY <1>3, <1>4, <1>6, <1>10, <1>13, <1>14, <1>15

LEMMA SnapshotFailsStep == ASSUME Core, SnapshotFails PROVE AgentPart /\ StorePart
<1>1. /\ Fault /\ agent' = [agent EXCEPT !.refused = TRUE]
      /\ UNCHANGED <<mode, source, sent, up, lease, storeVars, writer, reader, early, torn>>
    BY DEF SnapshotFails
<1>2. AgentQuiet
    BY <1>1 DEF Core, AgentOK, AgentQuiet, Agents
<1>3. Basics'
    BY <1>1, FaultIs DEF Core, Basics
<1>4. LedgerStep /\ StoreOK' /\ WriterOK'
    BY <1>1, StoreStays
<1>5. ReaderQuiet
    BY <1>1 DEF Core, ReaderOK, ReaderQuiet
<1>6. Files'
    BY <1>1 DEF Core, Files, storeVars
<1> QED
    BY <1>1, <1>2, <1>3, <1>4, <1>5, <1>6 DEF AgentPart, StorePart

LEMMA AgentStopsStep == ASSUME Core, AgentStops PROVE AgentPart /\ StorePart
<1>1. PICK pc \in {"completing", "failing", "quarantining"} :
        agent' = [agent EXCEPT !.pc = pc, !.pending = None]
    BY DEF AgentStops
<1>2. UNCHANGED <<mode, source, sent, up, lease, storeVars, writer, reader, early, torn, bounds>>
    BY DEF AgentStops
<1>3. AgentQuiet
    BY <1>1, <1>2 DEF Core, AgentOK, AgentQuiet, Agents
<1>4. StorePart
    BY <1>2, StoreQuiet
<1>5. Files'
    BY <1>2 DEF Core, Files, storeVars
<1> QED
    BY <1>2, <1>3, <1>4, <1>5 DEF AgentPart

\* Answers that change nothing at the Control Plane.
LEMMA AnswerStep ==
    ASSUME Core, NEW m \in Checkpoints, Acked(m) \/ Refused(m) \/ Answered,
           UNCHANGED <<mode, source, sent, up, lease, storeVars, writer, reader, early, torn, bounds>>
    PROVE  AgentPart /\ StorePart
<1>1. AgentQuiet
    BY AnswersAreQuiet DEF Core
<1>2. StorePart
    BY StoreQuiet
<1>3. Files'
    BY DEF Core, Files, storeVars
<1> QED
    BY <1>1, <1>2, <1>3 DEF AgentPart

LEMMA RepeatedStep == ASSUME Core, NEW m \in sent, CheckpointRepeated(m) PROVE AgentPart /\ StorePart
<1>1. m \in Checkpoints
    BY DEF Core, AgentOK
<1> QED
    BY <1>1, AnswerStep DEF CheckpointRepeated

LEMMA RefusedStep == ASSUME Core, NEW m \in sent, CheckpointRefused(m) PROVE AgentPart /\ StorePart
<1>1. m \in Checkpoints
    BY DEF Core, AgentOK
<1> QED
    BY <1>1, AnswerStep DEF CheckpointRefused

LEMMA TurnedAwayStep ==
    ASSUME Core, FailRefused \/ QuarantineRefused \/ CompletionRefused
    PROVE  AgentPart /\ StorePart
<1>1. /\ Answered
      /\ UNCHANGED <<mode, source, sent, up, lease, storeVars, writer, reader, early, torn, bounds>>
    BY DEF FailRefused, QuarantineRefused, CompletionRefused
<1>2. AgentQuiet
    BY <1>1, AgentAnswered DEF Core
<1>3. StorePart
    BY <1>1, StoreQuiet
<1>4. Files'
    BY <1>1 DEF Core, Files, storeVars
<1> QED
    BY <1>1, <1>2, <1>3, <1>4 DEF AgentPart

LEMMA LeaseExpiresStep == ASSUME Core, LeaseExpires PROVE AgentPart /\ StorePart
<1>1. /\ lease' = FALSE
      /\ UNCHANGED <<mode, agentVars, up, storeVars, writer, reader, early, torn, bounds>>
    BY DEF LeaseExpires
<1>2. source' = source /\ sent' = sent /\ agent' = agent
    BY <1>1 DEF agentVars
<1>3. AgentQuiet
    BY <1>2, AgentStays DEF Core
<1>4. LedgerStep /\ StoreOK' /\ WriterOK'
    BY <1>1, <1>2, StoreStays
<1>5. Basics'
    BY <1>1 DEF bounds, Core, Basics
<1>6. ReaderQuiet
    BY <1>1 DEF Core, ReaderOK, ReaderQuiet
<1>7. Files'
    BY <1>1, <1>2 DEF Core, Files, storeVars
<1> QED
    BY <1>1, <1>3, <1>4, <1>5, <1>6, <1>7 DEF AgentPart, StorePart

-----------------------------------------------------------------------------
(* Checkpoints.                                                            *)

\* A stream within the limit of a checkpoint is within that of the ledger.
LEMMA BoundedMore ==
    ASSUME NEW s, NEW max \in Nat, NEW top \in Nat, Bounded(s, max), max <= top
    PROVE  Bounded(s, top)
<1>1. \A l \in Histories : \A g \in Cuts(l) : Size(l, g) \in Nat
    BY StreamIs
<1>2. \A l \in Histories : \A g \in Cuts(l) : Size(l, g) <= max => Size(l, g) <= top
    BY <1>1
<1> QED
    BY <1>2 DEF Bounded

\* A request is served for an assignment that is in memory.
LEMMA AcceptsIs ==
    ASSUME Core, Free, asg # None
    PROVE  /\ mode = "agent" /\ up /\ writer = None
           /\ asg \in Assignments /\ disk \in Assignments /\ asg.state = disk.state
    BY DEF Core, Free, StoreOK

\* A record in the ledger.
LEMMA RecordIs ==
    ASSUME NEW state \in {"submitted", "finishing", "completed", "failed", "cleanup-failed"},
           NEW events \in Seq(Items)
    PROVE  /\ Record(state, events) \in Records
           /\ Record(state, events).state = state /\ Record(state, events).of = events
    BY DEF Record, Records

\* The fields of a ledger.
LEMMA LedgerIs ==
    ASSUME NEW events \in Seq(Items), NEW rec \in Records
    PROVE  /\ [events |-> events, rec |-> rec] \in Ledgers
           /\ [events |-> events, rec |-> rec].events = events
           /\ [events |-> events, rec |-> rec].rec = rec
    BY DEF Ledgers

LEMMA LedgerSet ==
    ASSUME NEW b \in Ledgers, NEW events \in Seq(Items), NEW rec \in Records
    PROVE  /\ [b EXCEPT !.events = events] \in Ledgers /\ [b EXCEPT !.events = events].events = events
           /\ [b EXCEPT !.events = events].rec = b.rec
           /\ [b EXCEPT !.rec = rec] \in Ledgers /\ [b EXCEPT !.rec = rec].events = b.events
           /\ [b EXCEPT !.rec = rec].rec = rec
           /\ b.events \in Seq(Items) /\ b.rec \in Records
           /\ b.rec.state \in {"submitted", "finishing", "completed", "failed", "cleanup-failed"}
    BY DEF Ledgers, Records

\* What a checkpoint leaves in the ledger.
LEMMA MergedFacts ==
    ASSUME Core, NEW m \in sent, mergeable(ledger.events, m.events)
    PROVE  /\ merged(ledger.events, m.events) = m.events /\ m.events \in Seq(Items)
           /\ Bounded(m.events, LedgerMax) /\ Grows(ledger.events, m.events)
<1>1. source \in Histories /\ CopyOf(m.events, source, ProgressMax) /\ Bounded(ledger.events, LedgerMax)
    BY DEF Core, Files, AgentOK, LedgerOK
<1>2. Bounded(m.events, ProgressMax)
    BY <1>1, Limits, CopyOfIs
<1>3. Bounded(m.events, LedgerMax) /\ m.events \in Seq(Items)
    BY <1>2, Limits, BoundedMore, BoundedIs
<1> QED
    BY <1>1, <1>2, <1>3, MergeGrows

LEMMA MergedStep ==
    ASSUME Core, NEW m \in sent, CheckpointMerged(m)
    PROVE  AgentPart /\ StorePart
<1>1. PICK rec : rec = Record(ledger.rec.state, m.events)
    OBVIOUS
<1>2. Free /\ Accepts /\ mergeable(ledger.events, m.events)
    BY DEF CheckpointMerged, NextCheckpoint
<1>3. /\ merged(ledger.events, m.events) = m.events /\ m.events \in Seq(Items)
      /\ Bounded(m.events, LedgerMax) /\ Grows(ledger.events, m.events)
    BY <1>2, MergedFacts
<1>4. ledger \in Ledgers /\ Bounded(ledger.events, LedgerMax)
    BY DEF Core, LedgerOK
<1>5. rec \in Records
    BY <1>1, <1>3, <1>4, LedgerSet, RecordIs
<1>6. /\ \/ /\ ledger' = [events |-> m.events, rec |-> rec]
            /\ writer' = [op |-> "save", m |-> m, rec |-> rec]
            /\ Fine
         \/ /\ ledger' \in {ledger, [ledger EXCEPT !.events = m.events]}
            /\ Break
      /\ torn' = (torn \/ Terminal(ledger.rec))
      /\ UNCHANGED <<mode, agentVars, asg, disk, transient>>
    BY <1>1, <1>3 DEF CheckpointMerged
<1>7. m \in Checkpoints
    BY DEF Core, AgentOK
<1>8. mode = "agent" /\ up /\ asg \in Assignments /\ disk \in Assignments /\ asg.state = disk.state /\ asg.state = "confirmed"
    BY <1>2, AcceptsIs DEF Accepts, Standing
<1>9. source' = source /\ sent' = sent /\ agent' = agent
    BY <1>6 DEF agentVars
<1>10. AgentPart
    <2>1. AgentQuiet
        BY <1>9, AgentStays DEF Core
    <2>2. Files'
        BY <1>6, <1>9 DEF Core, Files
    <2> QED
        BY <1>6, <2>1, <2>2 DEF AgentPart
<1>11. ledger' \in Ledgers /\ ledger'.events \in {ledger.events, m.events}
    <2>1. CASE ledger' = [events |-> m.events, rec |-> rec]
        BY <1>3, <1>5, <2>1, LedgerIs
    <2>2. CASE ledger' = ledger
        BY <1>4, <2>2
    <2>3. CASE ledger' = [ledger EXCEPT !.events = m.events]
        BY <1>3, <1>4, <1>5, <2>3, LedgerSet
    <2> QED
        BY <1>6, <2>1, <2>2, <2>3
<1>12. LedgerStep
    <2>1. Grows(ledger.events, ledger.events)
        BY <1>4, GrowsSelf
    <2>2. torn => torn'
        BY <1>6
    <2> QED
        BY <1>3, <1>4, <1>11, <2>1, <2>2 DEF LedgerStep
<1>13. torn' \in BOOLEAN
    BY <1>6 DEF Core, Basics
<1>14. ASSUME ledger' = [events |-> m.events, rec |-> rec],
              writer' = [op |-> "save", m |-> m, rec |-> rec], Fine
       PROVE  Basics' /\ StoreOK' /\ WriterOK' /\ ReaderQuiet
    <2>1. up' = up /\ lease' = lease /\ faults' \in 0..MaxFaults /\ crashes' \in 0..MaxCrashes /\ ReaderQuiet
        BY <1>14, FineIs DEF Core
    <2>2. Basics'
        BY <1>6, <1>13, <2>1 DEF Core, Basics
    <2>3. StoreOK'
        BY <1>6, <1>8, <2>1 DEF StoreOK
    <2>4. writer' \in Saves /\ writer'.op = "save" /\ writer'.m = m
        BY <1>5, <1>7, <1>14 DEF Saves
    <2>5. ledger'.events = m.events
        BY <1>14
    <2>6. WriterOK'
        BY <1>6, <1>8, <1>9, <2>1, <2>4, <2>5 DEF WriterOK
    <2> QED
        BY <2>1, <2>2, <2>3, <2>6
<1>15. ASSUME Break PROVE Basics' /\ StoreOK' /\ WriterOK' /\ ReaderQuiet
    <2>1. /\ up' \in BOOLEAN /\ lease' \in BOOLEAN /\ writer' = None /\ ReaderQuiet
          /\ faults' \in 0..MaxFaults /\ crashes' \in 0..MaxCrashes
        BY <1>15, BreakIs DEF Core
    <2>2. Basics'
        BY <1>6, <1>13, <2>1 DEF Core, Basics
    <2>3. StoreOK'
        BY <1>6, <1>8 DEF StoreOK
    <2>4. WriterOK'
        BY <2>1 DEF WriterOK
    <2> QED
        BY <2>1, <2>2, <2>3, <2>4
<1> QED
    BY <1>6, <1>10, <1>12, <1>14, <1>15 DEF StorePart

\* What an assignment has.
LEMMA AssignmentHas ==
    ASSUME NEW a \in Assignments
    PROVE  /\ a.rec \in Records /\ a.orig \in {None} \cup Records /\ a.finishing \in BOOLEAN
           /\ a.digest \in {None} \cup Seq(Items)
           /\ a.state \in {"confirmed", "finishing", "quarantined", "completed"}
    BY DEF Assignments

LEMMA SavedStep ==
    ASSUME Core, CheckpointSaved
    PROVE  AgentPart /\ StorePart
<1>1. writer # None /\ writer.op = "save"
    BY DEF CheckpointSaved
<1>2. /\ mode = "agent" /\ up /\ asg \in Assignments /\ asg.state = "confirmed"
      /\ writer \in Saves \cup Finishes /\ writer.m \in sent
    BY <1>1 DEF Core, WriterOK
<1>3. disk \in Assignments /\ disk.state = "confirmed"
    BY <1>2, NoneAssumption DEF Core, StoreOK
<1>4. writer \in Saves
    BY <1>1, <1>2 DEF Finishes
<1>5. PICK r \in Records : r = writer.rec
    BY <1>4 DEF Saves
<1>6. PICK m \in Checkpoints : m = writer.m
    BY <1>4 DEF Saves
<1>7. PICK k \in 0..MaxCheckpoints : k = m.n
    BY <1>6, Limits DEF Checkpoints
<1>8. PICK d \in Seq(Items) : d = m.events
    BY <1>6 DEF Checkpoints
<1>9. PICK a : a = [asg EXCEPT !.rec = r, !.n = k, !.digest = d]
    OBVIOUS
<1>10. PICK b : b = [disk EXCEPT !.rec = r, !.n = k, !.digest = d]
    OBVIOUS
<1>a. a \in Assignments /\ a.state = "confirmed"
    BY <1>2, <1>9 DEF Assignments
<1>b. b \in Assignments /\ b.state = "confirmed"
    BY <1>3, <1>10 DEF Assignments
<1>11. /\ \/ disk' = b /\ asg' = a /\ Acked(m) /\ Fine /\ writer' = None
          \/ disk' = b /\ UNCHANGED asg /\ Refused(m) /\ Fine /\ writer' = None
          \/ Break /\ UNCHANGED <<asg, disk, agent>>
       /\ UNCHANGED <<mode, source, sent, transient, ledger, torn>>
    BY <1>5, <1>6, <1>7, <1>8, <1>9, <1>10 DEF CheckpointSaved
<1>12. AgentQuiet
    BY <1>11, AgentStays, AnswersAreQuiet DEF Core
<1>13. Files'
    BY <1>11 DEF Core, Files
<1>14. LedgerStep
    BY <1>11, LedgerStays DEF Core, LedgerOK
<1>15. /\ up' \in BOOLEAN /\ lease' \in BOOLEAN /\ writer' = None /\ ReaderQuiet
       /\ faults' \in 0..MaxFaults /\ crashes' \in 0..MaxCrashes
    BY <1>11, BreakIs, FineIs DEF Core
<1>16. Basics'
    BY <1>11, <1>15 DEF Core, Basics
<1>17. disk' \in Assignments /\ asg' \in Assignments /\ disk'.state = "confirmed" /\ asg'.state = "confirmed"
    BY <1>2, <1>3, <1>a, <1>b, <1>11
<1>18. StoreOK'
    BY <1>2, <1>11, <1>17 DEF StoreOK
<1>19. WriterOK'
    BY <1>15 DEF WriterOK
<1> QED
    BY <1>11, <1>12, <1>13, <1>14, <1>15, <1>16, <1>18, <1>19 DEF AgentPart, StorePart

-----------------------------------------------------------------------------
(* Failures.                                                               *)

\* What a failure has written.
LEMMA WrittenIs ==
    ASSUME Core, NEW writes \in 0..4, NEW state \in {"failed", "cleanup-failed"},
           NEW w, w = Written(writes, state)
    PROVE  /\ w \in Ledgers /\ Bounded(w.events, LedgerMax)
           /\ w.events = ledger.events \/ HasFailed(w.events)
           /\ writes \notin {1, 2} => Grows(ledger.events, w.events)
           /\ writes = 4 => w.rec.state = state
<1>1. ledger \in Ledgers /\ Bounded(ledger.events, LedgerMax) /\ transient \in Histories
    BY DEF Core, LedgerOK, Files
<1>2. PICK s : s = Synced(Failed)
    OBVIOUS
<1>3. PICK p : p = preserveAcknowledgedFailure(ledger.events)
    OBVIOUS
<1>4. Bounded(s, LedgerMax) /\ (s = ledger.events \/ HasFailed(s))
    BY <1>1, <1>2, SyncFailed DEF Failed
<1>5. Bounded(p, LedgerMax) /\ Grows(ledger.events, p) /\ (p = ledger.events \/ HasFailed(p))
    BY <1>1, <1>3, PreservedIs
<1>6. s \in Seq(Items) /\ p \in Seq(Items) /\ ledger.events \in Seq(Items) /\ ledger.rec \in Records
    BY <1>1, <1>4, <1>5, BoundedIs DEF Ledgers
<1>7. PICK r : r = Record(state, s)
    OBVIOUS
<1>8. PICK q : q = Record(state, p)
    OBVIOUS
<1>9. r \in Records /\ q \in Records /\ q.state = state
    BY <1>6, <1>7, <1>8, RecordIs
<1>10. Grows(ledger.events, ledger.events)
    BY <1>1, GrowsSelf
<1>11. w = [events |-> CASE writes = 0 -> ledger.events
                         [] writes \in {1, 2} -> s
                         [] OTHER -> p,
            rec |-> CASE writes \in {0, 1} -> ledger.rec
                      [] writes \in {2, 3} -> r
                      [] OTHER -> q]
    BY <1>2, <1>3, <1>7, <1>8 DEF Written
<1>12. CASE writes = 0
    <2>1. w = [events |-> ledger.events, rec |-> ledger.rec]
        BY <1>11, <1>12
    <2> QED
        BY <1>1, <1>6, <1>10, <1>12, <2>1 DEF Ledgers
<1>13. CASE writes = 1
    <2>1. w = [events |-> s, rec |-> ledger.rec]
        BY <1>11, <1>13
    <2> QED
        BY <1>4, <1>6, <1>13, <2>1 DEF Ledgers
<1>14. CASE writes = 2
    <2>1. w = [events |-> s, rec |-> r]
        BY <1>11, <1>14
    <2> QED
        BY <1>4, <1>6, <1>9, <1>14, <2>1 DEF Ledgers
<1>15. CASE writes = 3
    <2>1. w = [events |-> p, rec |-> r]
        BY <1>11, <1>15
    <2> QED
        BY <1>5, <1>6, <1>9, <1>15, <2>1 DEF Ledgers
<1>16. CASE writes = 4
    <2>1. w = [events |-> p, rec |-> q]
        BY <1>11, <1>16
    <2> QED
        BY <1>5, <1>6, <1>9, <1>16, <2>1 DEF Ledgers
<1> QED
    BY <1>12, <1>13, <1>14, <1>15, <1>16

\* A failure that is cut off leaves the ledger's events as they were, extended by
\* the failure, or the Run torn.
LEMMA FailLedger ==
    ASSUME Core, NEW writes \in 0..4, NEW state \in {"failed", "cleanup-failed"},
           ledger' \in Ledgers, ledger'.events = Written(writes, state).events,
           torn' = Torn(writes) \/ (writes = 4 /\ torn' = torn)
    PROVE  LedgerStep /\ torn' \in BOOLEAN
<1>1. PICK w : w = Written(writes, state)
    OBVIOUS
<1>2. /\ Bounded(w.events, LedgerMax)
      /\ w.events = ledger.events \/ HasFailed(w.events)
      /\ writes \notin {1, 2} => Grows(ledger.events, w.events)
    BY <1>1, WrittenIs
<1>3. torn \in BOOLEAN /\ ledger \in Ledgers /\ Bounded(ledger.events, LedgerMax)
    BY DEF Core, Basics, LedgerOK
<1>4. torn' \in BOOLEAN /\ (torn => torn')
    BY <1>3 DEF Torn
<1>5. ASSUME ~torn' PROVE Grows(ledger.events, ledger'.events)
    <2>1. CASE writes \in {1, 2}
        <3>1. ledger' = ledger
            <4>1. writes # 4
                BY <2>1
            <4>2. torn' = (torn \/ (writes \in {1, 2} /\ ledger' # ledger))
                BY <4>1 DEF Torn
            <4> QED
                BY <1>5, <2>1, <4>2, Zenon
        <3> QED
            BY <1>3, <3>1, GrowsSelf
    <2>2. CASE writes \notin {1, 2}
        BY <1>1, <1>2, <2>2
    <2> QED
        BY <2>1, <2>2
<1>6. Bounded(ledger'.events, LedgerMax) /\ (ledger'.events = ledger.events \/ HasFailed(ledger'.events))
    BY <1>1, <1>2
<1> QED
    BY <1>4, <1>5, <1>6 DEF LedgerStep

LEMMA FailStagedStep == ASSUME Core, FailStaged PROVE AgentPart /\ StorePart
<1>1. Free /\ Accepts /\ transient' = Failed /\ UNCHANGED <<mode, agentVars, disk>>
    BY DEF FailStaged
<1>2. mode = "agent" /\ up /\ asg \in Assignments /\ disk \in Assignments /\ asg.state = disk.state /\ asg.state = "confirmed"
    BY <1>1, AcceptsIs DEF Accepts, Standing
<1>3. source' = source /\ sent' = sent /\ agent' = agent /\ mode' = mode /\ disk' = disk
    BY <1>1 DEF agentVars
<1>4. AgentPart
    <2>1. AgentQuiet
        BY <1>3, AgentStays DEF Core
    <2>2. transient' \in Histories
        BY <1>1, LineIs DEF Core, Files, Failed
    <2>3. Files'
        BY <1>3, <2>2 DEF Core, Files
    <2> QED
        BY <1>3, <2>1, <2>3 DEF AgentPart
<1>5. ledger \in Ledgers /\ ledger.rec \in Records /\ asg.orig \in {None} \cup Records
    BY <1>2, AssignmentHas DEF Core, LedgerOK, Ledgers
<1>6. ASSUME ledger' = [Written(4, "failed") EXCEPT !.rec = ledger.rec],
             writer' = [op |-> "finish", rec |-> Written(4, "failed").rec],
             asg' = [asg EXCEPT !.finishing = TRUE, !.orig = ledger.rec],
             Fine, torn' = torn
      PROVE  StorePart
    <2>1. PICK w : w = Written(4, "failed")
        OBVIOUS
    <2>2. w \in Ledgers
        BY <2>1, WrittenIs
    <2>3. PICK r \in Records : r = ledger.rec
        BY <1>5
    <2>4. ledger' \in Ledgers /\ ledger'.events = w.events
        BY <1>6, <2>1, <2>2, <2>3 DEF Ledgers
    <2>5. LedgerStep
        BY <1>6, <2>1, <2>4, FailLedger
    <2>6. asg' \in Assignments /\ asg'.state = "confirmed" /\ asg'.orig \in Records
        BY <1>2, <1>6, <2>3 DEF Assignments
    <2>7. w.rec \in Records
        BY <2>2 DEF Ledgers
    <2>8. writer' \in Finishes /\ writer'.op = "finish"
        BY <1>6, <2>1, <2>7 DEF Finishes
    <2>9. up' = up /\ lease' = lease /\ faults' \in 0..MaxFaults /\ crashes' \in 0..MaxCrashes /\ ReaderQuiet
        BY <1>6, FineIs DEF Core
    <2>10. Basics'
        BY <1>3, <1>6, <2>9 DEF Core, Basics
    <2>11. StoreOK'
        BY <1>2, <1>3, <2>6 DEF StoreOK
    <2>12. WriterOK'
        BY <1>2, <1>3, <2>6, <2>8, <2>9 DEF WriterOK
    <2> QED
        BY <2>5, <2>9, <2>10, <2>11, <2>12 DEF StorePart
<1>7. ASSUME NEW writes \in 0..4, NEW cut, cut = Written(writes, "failed"),
             \/ Error /\ ledger' = [cut EXCEPT !.rec = Restored] /\ UNCHANGED asg
             \/ Error /\ ledger' = cut /\ asg' = [asg EXCEPT !.finishing = asg.orig # None]
             \/ Down /\ ledger' = cut /\ UNCHANGED asg,
             torn' = Torn(writes)
      PROVE  StorePart
    <2>1. cut \in Ledgers
        BY <1>7, WrittenIs
    <2>2. PICK r \in Records : r = Restored
        BY <1>5 DEF Restored
    <2>3. PICK f \in BOOLEAN : f = (asg.orig # None)
        OBVIOUS
    <2>4. ledger' \in Ledgers /\ ledger'.events = cut.events
        BY <1>7, <2>1, <2>2 DEF Ledgers
    <2>5. LedgerStep /\ torn' \in BOOLEAN
        BY <1>7, <2>4, FailLedger
    <2>6. asg' \in Assignments /\ asg'.state = "confirmed"
        <3>1. CASE asg' = asg
            BY <1>2, <3>1
        <3>2. CASE asg' = [asg EXCEPT !.finishing = f]
            BY <1>2, <3>2 DEF Assignments
        <3> QED
            BY <1>7, <2>3, <3>1, <3>2
    <2>7. /\ up' \in BOOLEAN /\ lease' \in BOOLEAN /\ writer' = None /\ ReaderQuiet
          /\ faults' \in 0..MaxFaults /\ crashes' \in 0..MaxCrashes
        BY <1>7, BreakIs DEF Core, Break
    <2>8. Basics'
        BY <1>3, <2>5, <2>7 DEF Core, Basics
    <2>9. StoreOK'
        BY <1>2, <1>3, <2>6 DEF StoreOK
    <2>10. WriterOK'
        BY <2>7 DEF WriterOK
    <2> QED
        BY <2>5, <2>7, <2>8, <2>9, <2>10 DEF StorePart
<1>8. CASE /\ ledger' = [Written(4, "failed") EXCEPT !.rec = ledger.rec]
           /\ writer' = [op |-> "finish", rec |-> Written(4, "failed").rec]
           /\ asg' = [asg EXCEPT !.finishing = TRUE, !.orig = ledger.rec]
           /\ Fine /\ UNCHANGED torn
    BY <1>4, <1>6, <1>8
<1>9. CASE \E writes \in 0..4 :
             LET cut == Written(writes, "failed") IN
             /\ \/ Error /\ ledger' = [cut EXCEPT !.rec = Restored] /\ UNCHANGED asg
                \/ Error /\ ledger' = cut /\ asg' = [asg EXCEPT !.finishing = asg.orig # None]
                \/ Down /\ ledger' = cut /\ UNCHANGED asg
             /\ torn' = Torn(writes)
    BY <1>4, <1>7, <1>9
<1> QED
    BY <1>8, <1>9 DEF FailStaged

LEMMA QuarantineStep == ASSUME Core, Quarantine PROVE AgentPart /\ StorePart
<1>1. PICK w : w = Written(4, "cleanup-failed")
    OBVIOUS
<1>2. w \in Ledgers /\ w.rec \in Records
    BY <1>1, WrittenIs DEF Ledgers
<1>3. PICK r \in Records : r = w.rec
    BY <1>2
<1>4. PICK q : q = [asg EXCEPT !.state = "quarantined", !.rec = r]
    OBVIOUS
<1>5. /\ Free /\ Accepts /\ transient' = Failed
      /\ \/ /\ ledger' = w /\ asg' = q /\ disk' = q
            /\ Fine /\ writer' = None
            /\ IF agent.pc = "quarantining" THEN Answered ELSE UNCHANGED agent
            /\ UNCHANGED torn
         \/ /\ \E writes \in 0..4 :
                 /\ ledger' = Written(writes, "cleanup-failed")
                 /\ torn' = Torn(writes)
            /\ Break
            /\ UNCHANGED <<asg, disk, agent>>
      /\ UNCHANGED <<mode, source, sent>>
    BY <1>1, <1>3, <1>4 DEF Quarantine
<1>6. mode = "agent" /\ asg \in Assignments /\ disk \in Assignments /\ asg.state = disk.state
    BY <1>5, AcceptsIs DEF Accepts, Standing
<1>7. q \in Assignments
    BY <1>4, <1>6 DEF Assignments
<1>8. AgentPart
    <2>1. AgentQuiet
        BY <1>5, AgentStays, AgentAnswered DEF Core
    <2>2. transient' \in Histories
        BY <1>5, LineIs DEF Core, Files, Failed
    <2>3. Files'
        BY <1>5, <2>2 DEF Core, Files
    <2> QED
        BY <1>5, <2>1, <2>3 DEF AgentPart
<1>9. LedgerStep /\ torn' \in BOOLEAN
    <2>1. CASE ledger' = w /\ torn' = torn
        BY <1>1, <1>2, <2>1, FailLedger
    <2>2. CASE \E writes \in 0..4 : ledger' = Written(writes, "cleanup-failed") /\ torn' = Torn(writes)
        <3>1. PICK writes \in 0..4 : ledger' = Written(writes, "cleanup-failed") /\ torn' = Torn(writes)
            BY <2>2
        <3>2. ledger' \in Ledgers
            BY <3>1, WrittenIs
        <3> QED
            BY <3>1, <3>2, FailLedger
    <2> QED
        BY <1>5, <2>1, <2>2
<1>10. /\ up' \in BOOLEAN /\ lease' \in BOOLEAN /\ writer' = None /\ ReaderQuiet
       /\ faults' \in 0..MaxFaults /\ crashes' \in 0..MaxCrashes
    BY <1>5, BreakIs, FineIs DEF Core
<1>11. Basics'
    BY <1>5, <1>9, <1>10 DEF Core, Basics
<1>12. StoreOK'
    BY <1>5, <1>6, <1>7 DEF StoreOK
<1>13. WriterOK'
    BY <1>10 DEF WriterOK
<1> QED
    BY <1>8, <1>9, <1>10, <1>11, <1>12, <1>13 DEF StorePart

-----------------------------------------------------------------------------
(* Completion, crashes and restarts.                                       *)

\* What a completion leaves in the ledger.
LEMMA StagedFacts ==
    ASSUME Core, NEW t, t = sanitized(ledger.events, Complete), mergeable(ledger.events, t)
    PROVE  /\ Bounded(t, LedgerMax) /\ t \in Seq(Items) /\ ViewOf(t, source)
           /\ merged(ledger.events, t) = t /\ Grows(ledger.events, t)
<1>1. source \in Histories /\ Bounded(ledger.events, LedgerMax)
    BY DEF Core, Files, LedgerOK
<1>2. t = sanitized(ledger.events, copyBoundedLedgerEvents(Numbered(source), LedgerMax))
    BY DEF Complete
<1>3. Bounded(t, LedgerMax) /\ ViewOf(t, source)
    BY <1>1, <1>2, Limits, TerminalMade
<1>4. t \in Seq(Items)
    BY <1>3, BoundedIs
<1> QED
    BY <1>1, <1>3, <1>4, MergeGrows

LEMMA CompletionStagedStep == ASSUME Core, CompletionStaged PROVE AgentPart /\ StorePart
<1>1. PICK t : t = sanitized(ledger.events, Complete)
    OBVIOUS
<1>2. Completing /\ Accepts /\ mergeable(ledger.events, t)
    BY <1>1 DEF CompletionStaged
<1>3. /\ Bounded(t, LedgerMax) /\ t \in Seq(Items) /\ ViewOf(t, source)
      /\ merged(ledger.events, t) = t /\ Grows(ledger.events, t)
    BY <1>1, <1>2, StagedFacts
<1>4. PICK r : r = Record(Outcome, t)
    OBVIOUS
<1>5. Outcome \in {"completed", "failed"}
    BY DEF Outcome
<1>6. r \in Records
    BY <1>3, <1>4, <1>5, RecordIs
<1>7. /\ \/ /\ ledger' = [ledger EXCEPT !.events = t]
            /\ writer' = [op |-> "finish", rec |-> r]
            /\ asg' = [asg EXCEPT !.finishing = TRUE, !.orig = ledger.rec]
            /\ Fine /\ UNCHANGED agent
         \/ /\ ledger' \in {ledger, [ledger EXCEPT !.events = t]}
            /\ \/ Error /\ Answered
               \/ Down /\ UNCHANGED agent
            /\ UNCHANGED asg
      /\ UNCHANGED <<mode, source, sent, disk, transient, torn>>
    BY <1>1, <1>3, <1>4 DEF CompletionStaged
<1>8. Free /\ agent.pc = "completing"
    BY <1>2 DEF Completing
<1>9. mode = "agent" /\ up /\ asg \in Assignments /\ disk \in Assignments /\ asg.state = disk.state /\ asg.state = "confirmed"
    BY <1>2, <1>8, AcceptsIs DEF Accepts, Standing
<1>10. ledger \in Ledgers /\ ledger.rec \in Records
    BY DEF Core, LedgerOK, Ledgers
<1>11. AgentPart
    <2>1. AgentQuiet
        BY <1>7, AgentStays, AgentAnswered DEF Core
    <2>2. Files'
        BY <1>7 DEF Core, Files
    <2> QED
        BY <1>7, <2>1, <2>2 DEF AgentPart
<1>12. ledger' \in Ledgers /\ ledger'.events \in {ledger.events, t}
    <2>1. CASE ledger' = ledger
        BY <1>10, <2>1
    <2>2. CASE ledger' = [ledger EXCEPT !.events = t]
        BY <1>3, <1>10, <2>2 DEF Ledgers
    <2> QED
        BY <1>7, <2>1, <2>2
<1>13. LedgerStep
    <2>1. CASE ledger'.events = ledger.events
        BY <1>7, <1>12, <2>1, LedgerStays DEF Core
    <2>2. CASE ledger'.events = t
        BY <1>3, <1>7, <1>8, <1>12, <2>2 DEF LedgerStep
    <2> QED
        BY <1>12, <2>1, <2>2
<1>14. ASSUME writer' = [op |-> "finish", rec |-> r],
              asg' = [asg EXCEPT !.finishing = TRUE, !.orig = ledger.rec], Fine
       PROVE  Basics' /\ StoreOK' /\ WriterOK' /\ ReaderQuiet
    <2>1. PICK o \in Records : o = ledger.rec
        BY <1>10
    <2>2. asg' \in Assignments /\ asg'.state = "confirmed" /\ asg'.orig \in Records
        BY <1>9, <1>14, <2>1 DEF Assignments
    <2>3. writer' \in Finishes /\ writer'.op = "finish"
        BY <1>6, <1>14 DEF Finishes
    <2>4. up' = up /\ lease' = lease /\ faults' \in 0..MaxFaults /\ crashes' \in 0..MaxCrashes /\ ReaderQuiet
        BY <1>14, FineIs DEF Core
    <2>5. Basics'
        BY <1>7, <2>4 DEF Core, Basics
    <2>6. StoreOK'
        BY <1>7, <1>9, <2>2 DEF StoreOK
    <2>7. WriterOK'
        BY <1>7, <1>9, <2>2, <2>3, <2>4 DEF WriterOK
    <2> QED
        BY <2>4, <2>5, <2>6, <2>7
<1>15. ASSUME Error \/ Down, UNCHANGED asg
       PROVE  Basics' /\ StoreOK' /\ WriterOK' /\ ReaderQuiet
    <2>1. /\ up' \in BOOLEAN /\ lease' \in BOOLEAN /\ writer' = None /\ ReaderQuiet
          /\ faults' \in 0..MaxFaults /\ crashes' \in 0..MaxCrashes
        BY <1>15, BreakIs DEF Core, Break
    <2>2. Basics'
        BY <1>7, <2>1 DEF Core, Basics
    <2>3. StoreOK'
        BY <1>7, <1>9, <1>15 DEF StoreOK
    <2>4. WriterOK'
        BY <2>1 DEF WriterOK
    <2> QED
        BY <2>1, <2>2, <2>3, <2>4
<1> QED
    BY <1>7, <1>11, <1>13, <1>14, <1>15 DEF StorePart

\* A record and a state are committed.
LEMMA CommitIs ==
    ASSUME Core, mode = "agent", NEW state \in {"confirmed", "finishing", "quarantined", "completed"},
           NEW rec \in Records, Commit(state, rec)
    PROVE  /\ ledger' \in Ledgers /\ ledger'.events = ledger.events /\ ledger'.rec = rec
           /\ disk' \in Assignments /\ disk'.state = state /\ disk'.rec = rec /\ disk'.digest = disk.digest
<1>1. disk \in Assignments /\ ledger \in Ledgers
    BY DEF Core, StoreOK, LedgerOK
<1>2. ledger' = [ledger EXCEPT !.rec = rec] /\ disk' = [disk EXCEPT !.state = state, !.rec = rec]
    BY DEF Commit
<1>3. ledger' \in Ledgers /\ ledger'.events = ledger.events /\ ledger'.rec = rec
    BY <1>1, <1>2 DEF Ledgers
<1>4. disk' \in Assignments /\ disk'.state = state /\ disk'.rec = rec /\ disk'.digest = disk.digest
    BY <1>1, <1>2 DEF Assignments
<1> QED
    BY <1>3, <1>4

\* A commit after which the assignment stays in memory.
LEMMA StaysIs ==
    ASSUME Core, mode = "agent", asg \in Assignments, NEW rec \in Records,
           NEW state \in {"confirmed", "finishing", "quarantined", "completed"}, Stays(state, rec)
    PROVE  /\ Commit(state, rec)
           /\ asg' \in Assignments /\ asg'.state = state /\ asg'.rec = rec /\ asg'.digest = asg.digest
    BY DEF Stays, Assignments

\* The steps of finishHostAgentAssignment, by their outcome.
LEMMA FinishIs ==
    ASSUME Core, Finish
    PROVE  /\ writer # None /\ writer.op = "finish" /\ mode = "agent" /\ asg \in Assignments
           /\ asg.state = "confirmed" /\ disk \in Assignments /\ disk.state = "confirmed"
           /\ ledger' \in Ledgers /\ ledger'.events = ledger.events
           /\ Fine \/ Break
           /\ writer' = None
           /\ \/ disk' \in Assignments /\ disk'.state = "completed" /\ asg' = None
              \/ /\ disk' = disk /\ asg' \in Assignments /\ asg'.state = "confirmed"
                 /\ asg'.rec = asg.rec /\ asg'.digest = asg.digest
              \/ /\ disk' \in Assignments /\ asg' \in Assignments /\ asg'.state = disk'.state
                 /\ asg'.state \in {"finishing", "quarantined"} /\ asg'.digest = asg.digest
           /\ disk'.digest = disk.digest
           /\ Answered \/ UNCHANGED agent
           /\ UNCHANGED <<mode, source, sent, transient, torn>>
<1>1. writer # None /\ writer.op = "finish" /\ UNCHANGED <<mode, source, sent, transient, torn>>
    BY DEF Finish
<1>2. /\ mode = "agent" /\ asg \in Assignments /\ asg.state = "confirmed" /\ asg.orig \in Records
      /\ writer \in Saves \cup Finishes
    BY <1>1 DEF Core, WriterOK
<1>3. disk \in Assignments /\ disk.state = "confirmed"
    BY <1>2, NoneAssumption DEF Core, StoreOK
<1>4. writer \in Finishes
    BY <1>1, <1>2 DEF Saves
<1>5. PICK r \in Records : r = writer.rec
    BY <1>4 DEF Finishes
<1>6. r.of \in Seq(Items)
    BY DEF Records
<1>7. PICK b \in Records : b = Record("cleanup-failed", r.of)
    BY <1>6, RecordIs
<1>8. PICK o \in Records : o = asg.orig
    BY <1>2
<1>9. ledger \in Ledgers
    BY DEF Core, LedgerOK
<1>10. \/ Done(r) /\ Answered /\ Fine /\ writer' = None
       \/ /\ (Fine /\ writer' = None) \/ Error
          /\ ledger' = [ledger EXCEPT !.rec = o]
          /\ asg' = [asg EXCEPT !.finishing = FALSE]
          /\ UNCHANGED <<disk, agent>>
       \/ Error /\ UNCHANGED <<ledger, asg, disk, agent>>
       \/ Break /\ Stays("finishing", r) /\ UNCHANGED agent
       \/ Error /\ Stays("quarantined", b) /\ UNCHANGED agent
    BY <1>5, <1>7, <1>8 DEF Finish
<1>11. Break => writer' = None
    BY DEF Break, Error, Down
<1>12. CASE Done(r) /\ Answered /\ Fine /\ writer' = None
    <2>1. Commit("completed", r) /\ asg' = None
        BY <1>12 DEF Done
    <2>2. ledger' \in Ledgers /\ ledger'.events = ledger.events
          /\ disk' \in Assignments /\ disk'.state = "completed" /\ disk'.digest = disk.digest
        BY <1>2, <2>1, CommitIs
    <2> QED
        BY <1>1, <1>2, <1>3, <1>12, <2>1, <2>2
<1>13. CASE /\ (Fine /\ writer' = None) \/ Error
            /\ ledger' = [ledger EXCEPT !.rec = o]
            /\ asg' = [asg EXCEPT !.finishing = FALSE]
            /\ UNCHANGED <<disk, agent>>
    <2>1. ledger' \in Ledgers /\ ledger'.events = ledger.events
        BY <1>9, <1>13 DEF Ledgers
    <2>2. /\ asg' \in Assignments /\ asg'.state = "confirmed" /\ asg'.rec = asg.rec /\ asg'.digest = asg.digest
        BY <1>2, <1>13 DEF Assignments
    <2> QED
        BY <1>1, <1>2, <1>3, <1>11, <1>13, <2>1, <2>2 DEF Break
<1>14. CASE Error /\ UNCHANGED <<ledger, asg, disk, agent>>
    BY <1>1, <1>2, <1>3, <1>9, <1>11, <1>14 DEF Break
<1>15. CASE Break /\ Stays("finishing", r) /\ UNCHANGED agent
    <2>1. Commit("finishing", r) /\ asg' \in Assignments /\ asg'.state = "finishing" /\ asg'.digest = asg.digest
        BY <1>2, <1>15, StaysIs
    <2>2. ledger' \in Ledgers /\ ledger'.events = ledger.events
          /\ disk' \in Assignments /\ disk'.state = "finishing" /\ disk'.digest = disk.digest
        BY <1>2, <2>1, CommitIs
    <2> QED
        BY <1>1, <1>2, <1>3, <1>11, <1>15, <2>1, <2>2
<1>16. CASE Error /\ Stays("quarantined", b) /\ UNCHANGED agent
    <2>1. Commit("quarantined", b) /\ asg' \in Assignments /\ asg'.state = "quarantined" /\ asg'.digest = asg.digest
        BY <1>2, <1>16, StaysIs
    <2>2. ledger' \in Ledgers /\ ledger'.events = ledger.events
          /\ disk' \in Assignments /\ disk'.state = "quarantined" /\ disk'.digest = disk.digest
        BY <1>2, <2>1, CommitIs
    <2> QED
        BY <1>1, <1>2, <1>3, <1>11, <1>16, <2>1, <2>2 DEF Break
<1> QED
    BY <1>10, <1>12, <1>13, <1>14, <1>15, <1>16

\* An end that leaves the ledger's events alone.
LEMMA EndStep ==
    ASSUME Core, mode = "agent", ledger' \in Ledgers, ledger'.events = ledger.events,
           Fine \/ Break, writer' = None,
           disk' \in Assignments,
           (asg' = None /\ disk'.state = "completed") \/ (asg' \in Assignments /\ asg'.state = disk'.state),
           Answered \/ UNCHANGED agent, UNCHANGED <<mode, source, sent, transient, torn>>
    PROVE  AgentPart /\ StorePart
<1>1. AgentQuiet
    BY AgentStays, AgentAnswered DEF Core
<1>2. Files'
    BY DEF Core, Files
<1>3. LedgerStep
    BY LedgerStays DEF Core
<1>4. /\ up' \in BOOLEAN /\ lease' \in BOOLEAN /\ ReaderQuiet
      /\ faults' \in 0..MaxFaults /\ crashes' \in 0..MaxCrashes
    BY BreakIs, FineIs DEF Core
<1>5. Basics'
    BY <1>4 DEF Core, Basics
<1>6. StoreOK'
    BY DEF StoreOK
<1>7. WriterOK'
    BY DEF WriterOK
<1> QED
    BY <1>1, <1>2, <1>3, <1>4, <1>5, <1>6, <1>7 DEF AgentPart, StorePart

LEMMA FinishStep == ASSUME Core, Finish PROVE AgentPart /\ StorePart
<1>1. /\ mode = "agent" /\ ledger' \in Ledgers /\ ledger'.events = ledger.events
      /\ Fine \/ Break
      /\ writer' = None
      /\ Answered \/ UNCHANGED agent
      /\ UNCHANGED <<mode, source, sent, transient, torn>>
    BY FinishIs
<1>2. /\ disk' \in Assignments
      /\ (asg' = None /\ disk'.state = "completed") \/ (asg' \in Assignments /\ asg'.state = disk'.state)
    BY FinishIs
<1> QED
    BY <1>1, <1>2, EndStep

LEMMA CompletionResumedStep ==
    ASSUME Core, CompletionResumed
    PROVE  /\ AgentPart /\ StorePart /\ mode = "agent" /\ ledger'.events = ledger.events
           /\ \/ asg' = None /\ disk'.digest = disk.digest /\ disk'.state = "completed"
              \/ UNCHANGED <<asg, disk>>
           /\ asg \in Assignments /\ asg.state = "finishing"
<1>1. Free /\ asg # None /\ asg.state = "finishing" /\ UNCHANGED <<mode, source, sent, transient, torn>> /\ writer' = None
    BY DEF CompletionResumed, Completing, Standing
<1>2. mode = "agent" /\ asg \in Assignments /\ disk \in Assignments /\ asg.state = disk.state
    BY <1>1, AcceptsIs
<1>3. PICK r \in Records : r = asg.rec
    BY <1>2, AssignmentHas
<1>4. \/ Done(r) /\ Answered /\ Fine
      \/ Error /\ UNCHANGED <<asg, disk, ledger, agent>>
      \/ Answered /\ Fine /\ UNCHANGED <<asg, disk, ledger>>
    BY <1>3 DEF CompletionResumed
<1>5. ledger \in Ledgers
    BY DEF Core, LedgerOK
<1>6. CASE Done(r) /\ Answered /\ Fine
    <2>1. Commit("completed", r) /\ asg' = None
        BY <1>6 DEF Done
    <2>2. ledger' \in Ledgers /\ ledger'.events = ledger.events
          /\ disk' \in Assignments /\ disk'.state = "completed" /\ disk'.digest = disk.digest
        BY <1>2, <2>1, CommitIs
    <2> QED
        BY <1>1, <1>2, <1>6, <2>1, <2>2, EndStep
<1>7. CASE Error /\ UNCHANGED <<asg, disk, ledger, agent>>
    BY <1>1, <1>2, <1>5, <1>7, EndStep DEF Break
<1>8. CASE Answered /\ Fine /\ UNCHANGED <<asg, disk, ledger>>
    BY <1>1, <1>2, <1>5, <1>8, EndStep
<1> QED
    BY <1>4, <1>6, <1>7, <1>8

\* A stop of the Control Plane loses the request that was writing, and no file.
LEMMA CrashStep == ASSUME Core, Crash PROVE AgentPart /\ StorePart
<1>1. mode = "agent" /\ Down /\ UNCHANGED <<mode, agentVars, storeVars, torn>>
    BY DEF Crash
<1>2. /\ source' = source /\ sent' = sent /\ agent' = agent /\ UNCHANGED <<asg, disk, transient, ledger>>
    BY <1>1 DEF agentVars, storeVars
<1>3. writer' = None /\ Break
    BY <1>1 DEF Down, Break
<1>4. disk \in Assignments /\ ((asg = None /\ disk.state = "completed") \/ (asg \in Assignments /\ asg.state = disk.state))
    BY <1>1 DEF Core, StoreOK
<1>5. ledger \in Ledgers
    BY DEF Core, LedgerOK
<1> QED
    BY <1>1, <1>2, <1>3, <1>4, <1>5, EndStep

\* Startup completes a finishing assignment, and takes the others as they are.
LEMMA RestartIs ==
    ASSUME Core, Restart
    PROVE  /\ mode = "agent" /\ ledger' \in Ledgers /\ ledger'.events = ledger.events /\ disk' \in Assignments
           /\ disk'.digest = disk.digest
           /\ \/ asg' = None /\ disk'.state = "completed" /\ (disk.state = "finishing" \/ disk' = disk)
              \/ /\ asg' \in Assignments /\ asg'.state = disk.state /\ disk' = disk
                 /\ asg'.rec = disk.rec /\ asg'.digest = disk.digest
<1>1. ~up
    BY DEF Restart
<1>2. mode = "agent"
    BY <1>1, ModesAssumption DEF Core, Basics, StoreOK
<1>3. disk \in Assignments /\ ledger \in Ledgers
    BY <1>2 DEF Core, StoreOK, LedgerOK
<1>4. PICK r \in Records : r = disk.rec
    BY <1>3, AssignmentHas
<1>5. CASE disk.state = "finishing"
    <2>1. Commit("completed", r) /\ asg' = None
        BY <1>4, <1>5 DEF Restart, Done
    <2>2. ledger' \in Ledgers /\ ledger'.events = ledger.events
          /\ disk' \in Assignments /\ disk'.state = "completed" /\ disk'.digest = disk.digest
        BY <1>2, <2>1, CommitIs
    <2> QED
        BY <1>2, <1>5, <2>1, <2>2
<1>6. CASE disk.state = "completed"
    <2>1. asg' = None /\ disk' = disk /\ ledger' = ledger
        BY <1>6 DEF Restart
    <2> QED
        BY <1>2, <1>3, <1>6, <2>1
<1>7. CASE disk.state # "finishing" /\ disk.state # "completed"
    <2>1. asg' = [disk EXCEPT !.finishing = FALSE, !.orig = None] /\ disk' = disk /\ ledger' = ledger
        BY <1>7 DEF Restart
    <2>2. asg' \in Assignments /\ asg'.state = disk.state /\ asg'.rec = disk.rec /\ asg'.digest = disk.digest
        BY <1>3, <2>1 DEF Assignments
    <2> QED
        BY <1>2, <1>3, <2>1, <2>2
<1> QED
    BY <1>5, <1>6, <1>7

LEMMA RestartStep == ASSUME Core, Restart PROVE AgentPart /\ StorePart
<1>1. /\ mode = "agent" /\ ledger' \in Ledgers /\ ledger'.events = ledger.events /\ disk' \in Assignments
      /\ (asg' = None /\ disk'.state = "completed") \/ (asg' \in Assignments /\ asg'.state = disk'.state)
    BY RestartIs
<1>2. ~up /\ up' = TRUE /\ UNCHANGED <<mode, agentVars, lease, transient, writer, reader, early, torn, bounds>>
    BY DEF Restart
<1>3. source' = source /\ sent' = sent /\ agent' = agent
    BY <1>2 DEF agentVars
<1>4. AgentQuiet
    BY <1>3, AgentStays DEF Core
<1>5. Files'
    BY <1>2, <1>3 DEF Core, Files
<1>6. LedgerStep
    BY <1>1, <1>2, LedgerStays DEF Core
<1>7. Basics'
    BY <1>2 DEF Core, Basics, bounds
<1>8. StoreOK'
    BY <1>1, <1>2 DEF StoreOK
<1>9. WriterOK'
    BY <1>2 DEF Core, WriterOK
<1>10. ReaderQuiet
    BY <1>2 DEF Core, ReaderOK, ReaderQuiet
<1> QED
    BY <1>2, <1>4, <1>5, <1>6, <1>7, <1>8, <1>9, <1>10 DEF AgentPart, StorePart

-----------------------------------------------------------------------------
(* A Run of the Control Plane itself, and the follower.                    *)

\* The ledger of a local Run is a copy of its events file.
LocalOK == mode = "local" => CopyOf(ledger.events, transient, LedgerMax)

LEMMA LocalRecordsStep ==
    ASSUME Core, LocalOK, LocalRecords
    PROVE  AgentPart /\ StorePart /\ LocalOK'
<1>1. PICK line \in {"agent"} \cup Closing : transient' = Append(transient, line)
    BY DEF LocalRecords
<1>2. source \in Histories /\ transient \in Histories
    BY DEF Core, Files
<1>3. line \in Kinds /\ Append(transient, line) \in Histories
    BY <1>2, LineIs
<1>4. /\ mode = "local"
      /\ UNCHANGED <<mode, agentVars, up, lease, asg, disk, ledger, writer, reader, early, torn, bounds>>
    BY DEF LocalRecords
<1>5. source' = source /\ sent' = sent /\ agent' = agent
    BY <1>4 DEF agentVars
<1>6. AgentQuiet
    BY <1>5, AgentStays DEF Core
<1>7. Files'
    BY <1>1, <1>2, <1>3, <1>5 DEF Files
<1>8. LedgerStep
    BY <1>4, LedgerStays DEF Core, LedgerOK
<1>9. Basics' /\ StoreOK' /\ WriterOK' /\ ReaderQuiet
    <2>1. Basics'
        BY <1>4 DEF Core, Basics, bounds
    <2>2. StoreOK'
        BY <1>4 DEF Core, StoreOK
    <2>3. WriterOK'
        BY <1>4 DEF Core, WriterOK, StoreOK
    <2>4. ReaderQuiet
        BY <1>4 DEF Core, ReaderOK, ReaderQuiet
    <2> QED
        BY <2>1, <2>2, <2>3, <2>4
<1>10. LocalOK'
    BY <1>1, <1>2, <1>3, <1>4, CopiesGrow DEF LocalOK
<1> QED
    BY <1>4, <1>6, <1>7, <1>8, <1>9, <1>10 DEF AgentPart, StorePart

\* A synchronisation of the ledger of a local Run.
LEMMA SyncStep ==
    ASSUME Core, LocalOK, mode = "local", ledger' \in Ledgers,
           ledger'.events \in {ledger.events, Synced(transient)}, ReaderQuiet,
           (UNCHANGED bounds) \/ Fault,
           UNCHANGED <<mode, agentVars, up, lease, asg, disk, transient, writer, early, torn>>
    PROVE  AgentPart /\ StorePart /\ LocalOK'
<1>1. transient \in Histories /\ Bounded(ledger.events, LedgerMax) /\ CopyOf(ledger.events, transient, LedgerMax)
    BY DEF Core, Files, LedgerOK, LocalOK
<1>2. PICK t : t = Synced(transient)
    OBVIOUS
<1>3. CopyOf(t, transient, LedgerMax) /\ Grows(ledger.events, t)
    BY <1>1, <1>2, SyncGrows
<1>4. Bounded(t, LedgerMax)
    BY <1>1, <1>3, Limits, CopyOfIs
<1>5. Grows(ledger.events, ledger.events)
    BY <1>1, GrowsSelf
<1>6. LedgerStep
    BY <1>1, <1>2, <1>3, <1>4, <1>5 DEF LedgerStep
<1>7. LocalOK'
    BY <1>1, <1>2, <1>3 DEF LocalOK
<1>8. source' = source /\ sent' = sent /\ agent' = agent
    BY DEF agentVars
<1>9. AgentQuiet
    BY <1>8, AgentStays DEF Core
<1>10. Files'
    BY <1>8 DEF Core, Files
<1>11. Basics'
    <2>1. CASE UNCHANGED bounds
        BY <2>1 DEF Core, Basics, bounds
    <2>2. CASE Fault
        BY <2>2, FaultIs DEF Core, Basics
    <2> QED
        BY <2>1, <2>2
<1>12. StoreOK'
    BY DEF Core, StoreOK
<1>13. WriterOK'
    BY DEF Core, WriterOK, StoreOK
<1> QED
    BY <1>6, <1>7, <1>9, <1>10, <1>11, <1>12, <1>13 DEF AgentPart, StorePart

\* What a synchronisation may leave in the ledger.
LEMMA SyncedLedger ==
    ASSUME Core, mode = "local", LocalOK, NEW t, t = Synced(transient),
           NEW state \in {"submitted", "finishing", "completed", "failed", "cleanup-failed"},
           \/ ledger' = [events |-> t, rec |-> Record(state, t)]
           \/ ledger' \in {ledger, [ledger EXCEPT !.events = t]}
    PROVE  /\ ledger' \in Ledgers /\ ledger'.events \in {ledger.events, t}
           /\ \/ ledger'.rec = ledger.rec
              \/ ledger'.events = t /\ ledger'.rec.state = state
<1>1. transient \in Histories /\ ledger \in Ledgers /\ CopyOf(ledger.events, transient, LedgerMax)
    BY DEF Core, Files, LedgerOK, LocalOK
<1>2. CopyOf(t, transient, LedgerMax)
    BY <1>1, SyncGrows
<1>3. t \in Seq(Items)
    BY <1>1, <1>2, Limits, CopyOfIs, BoundedIs
<1>4. PICK r : r = Record(state, t)
    OBVIOUS
<1>5. r \in Records /\ r.state = state
    BY <1>3, <1>4, RecordIs
<1>6. CASE ledger' = [events |-> t, rec |-> r]
    BY <1>3, <1>5, <1>6 DEF Ledgers
<1>7. CASE ledger' = ledger
    BY <1>1, <1>7
<1>8. CASE ledger' = [ledger EXCEPT !.events = t]
    BY <1>1, <1>3, <1>8 DEF Ledgers
<1> QED
    BY <1>4, <1>6, <1>7, <1>8

LEMMA LocalFinalizesStep ==
    ASSUME Core, LocalOK, LocalFinalizes
    PROVE  /\ AgentPart /\ StorePart /\ LocalOK' /\ mode = "local" /\ ~Terminal(ledger.rec)
           /\ Closed(transient) /\ UNCHANGED <<transient, asg, disk, torn, reader>>
           /\ \/ ledger'.rec = ledger.rec
              \/ ledger'.events = Synced(transient)
<1>1. PICK t : t = Synced(transient)
    OBVIOUS
<1>2. PICK state \in {"completed", "failed"} :
        state = IF transient[Len(transient)] = "done" THEN "completed" ELSE "failed"
    OBVIOUS
<1>3. /\ mode = "local" /\ Closed(transient) /\ ~Terminal(ledger.rec)
      /\ \/ /\ ledger' = [events |-> t, rec |-> Record(state, t)]
            /\ UNCHANGED bounds
         \/ ledger' \in {ledger, [ledger EXCEPT !.events = t]} /\ Fault
      /\ UNCHANGED <<mode, agentVars, up, lease, asg, disk, transient, writer, reader, early, torn>>
    BY <1>1, <1>2 DEF LocalFinalizes
<1>4. /\ ledger' \in Ledgers /\ ledger'.events \in {ledger.events, t}
      /\ \/ ledger'.rec = ledger.rec
         \/ ledger'.events = t /\ ledger'.rec.state = state
    BY <1>1, <1>3, SyncedLedger
<1>5. ReaderQuiet
    BY <1>3 DEF Core, ReaderOK, ReaderQuiet
<1>6. AgentPart /\ StorePart /\ LocalOK'
    BY <1>1, <1>3, <1>4, <1>5, SyncStep
<1> QED
    BY <1>1, <1>3, <1>4, <1>6

LEMMA RefreshStep ==
    ASSUME Core, LocalOK, Refresh
    PROVE  /\ AgentPart /\ StorePart /\ LocalOK' /\ mode = "local"
           /\ UNCHANGED <<transient, asg, disk, torn>>
           /\ ledger'.events \in {ledger.events, Synced(transient)}
           /\ ledger'.rec.state = ledger.rec.state
<1>1. PICK t : t = Synced(transient)
    OBVIOUS
<1>2. PICK state : state = ledger.rec.state
    OBVIOUS
<1>3. state \in {"submitted", "finishing", "completed", "failed", "cleanup-failed"}
    BY <1>2 DEF Core, LedgerOK, Ledgers, Records
<1>4. /\ mode = "local" /\ reader.pc = "idle"
      /\ \/ /\ ledger' = [events |-> t, rec |-> Record(state, t)]
            /\ reader' = [reader EXCEPT !.stamp = transient]
            /\ UNCHANGED bounds
         \/ /\ ledger' \in {ledger, [ledger EXCEPT !.events = t]}
            /\ reader' = [reader EXCEPT !.stamp = IF reader.snap = None THEN transient ELSE @]
            /\ Fault
      /\ UNCHANGED <<mode, agentVars, up, lease, asg, disk, transient, writer, early, torn>>
    BY <1>1, <1>2 DEF Refresh, Reading
<1>5. /\ ledger' \in Ledgers /\ ledger'.events \in {ledger.events, t}
      /\ \/ ledger'.rec = ledger.rec
         \/ ledger'.events = t /\ ledger'.rec.state = state
    BY <1>1, <1>3, <1>4, SyncedLedger
<1>6. PICK x : x = IF reader.snap = None THEN transient ELSE reader.stamp
    OBVIOUS
<1>7. reader \in Readers /\ transient \in Histories
    BY DEF Core, ReaderOK, Files
<1>8. x \in {None} \cup Histories
    BY <1>6, <1>7 DEF Readers
<1>9. reader' = [reader EXCEPT !.stamp = transient] \/ reader' = [reader EXCEPT !.stamp = x]
    BY <1>4, <1>6
<1>10. ReaderQuiet
    BY <1>7, <1>8, <1>9 DEF ReaderQuiet, Readers
<1>11. AgentPart /\ StorePart /\ LocalOK'
    BY <1>1, <1>4, <1>5, <1>10, SyncStep
<1> QED
    BY <1>1, <1>2, <1>4, <1>5, <1>11

\* What a follower reads is a record.
LEMMA VisibleIs == ASSUME Core PROVE Visible \in Records
<1>1. ledger.rec \in Records
    BY DEF Core, LedgerOK, Ledgers
<1>2. asg = None \/ asg \in Assignments
    BY ModesAssumption DEF Core, Basics, StoreOK
<1>3. CASE asg = None
    BY <1>1, <1>3 DEF Visible
<1>4. CASE asg # None
    <2>1. PICK r \in Records : r = asg.rec
        BY <1>2, <1>4, AssignmentHas
    <2>2. Visible = IF asg.state = "finishing" THEN [r EXCEPT !.state = "finishing"] ELSE r
        BY <1>4, <2>1 DEF Visible
    <2>3. [r EXCEPT !.state = "finishing"] \in Records
        BY DEF Records
    <2> QED
        BY <2>2, <2>3
<1> QED
    BY <1>3, <1>4

LEMMA PollStep ==
    ASSUME Core, Poll
    PROVE  /\ AgentPart /\ LedgerStep /\ Core' /\ UNCHANGED <<storeVars, torn>>
           /\ reader'.pc = "events" /\ reader'.snap = Visible
           /\ reader'.cursor = reader.cursor /\ reader'.got = reader.got
<1>1. PICK v \in Records : v = Visible
    BY VisibleIs
<1>2. /\ reader' = [reader EXCEPT !.snap = v, !.pc = "events"]
      /\ UNCHANGED <<mode, agentVars, up, lease, storeVars, writer, early, torn, bounds>>
    BY <1>1 DEF Poll
<1>3. reader \in Readers
    BY DEF Core, ReaderOK
<1>4. /\ reader' \in Readers /\ reader'.pc = "events" /\ reader'.snap = v
      /\ reader'.cursor = reader.cursor /\ reader'.got = reader.got
    BY <1>2, <1>3 DEF Readers
<1>5. source' = source /\ sent' = sent /\ agent' = agent
    BY <1>2 DEF agentVars
<1>6. AgentQuiet
    BY <1>5, AgentStays DEF Core
<1>7. AgentOK'
    BY <1>6, QuietAgent DEF Core
<1>8. Files'
    BY <1>2, <1>5 DEF Core, Files, storeVars
<1>9. LedgerStep /\ StoreOK' /\ WriterOK'
    BY <1>2, <1>5, StoreStays
<1>10. Basics'
    BY <1>2 DEF Core, Basics, bounds
<1>11. LedgerOK'
    BY <1>9 DEF LedgerStep, LedgerOK
<1> QED
    BY <1>1, <1>2, <1>4, <1>6, <1>7, <1>8, <1>9, <1>10, <1>11 DEF AgentPart, Core, ReaderOK

\* What the follower has after a batch, or a part of it.
LEMMA EmitIs ==
    ASSUME Core, Emit
    PROVE  /\ reader.pc = "events" /\ reader' \in Readers
           /\ \E n \in Cursors :
                /\ n \in Nat /\ reader'.cursor = n /\ reader'.got = reader.got \cup {e \in Batch : e.last <= n}
                /\ \/ reader'.pc = "idle"
                   \/ reader'.pc = "ended" /\ Terminal(reader.snap) /\ \A c \in Cursors : c <= n
           /\ (UNCHANGED bounds) \/ Fault
           /\ UNCHANGED <<mode, agentVars, up, lease, storeVars, writer, early, torn>>
<1>1. reader \in Readers /\ Bounded(ledger.events, LedgerMax)
    BY DEF Core, ReaderOK, LedgerOK
<1>2. PICK n \in Cursors :
        \/ /\ \A c \in Cursors : c <= n
           /\ reader' = [Sent(n) EXCEPT !.pc = IF Terminal(reader.snap) THEN "ended" ELSE "idle"]
           /\ UNCHANGED bounds
        \/ /\ reader' = [Sent(n) EXCEPT !.pc = "idle", !.snap = None, !.stamp = None]
           /\ Fault
    BY DEF Emit
<1>3. Entries(ledger.events) \subseteq Items
    <2>1. ledger.events \in Seq(Items)
        BY <1>1, BoundedIs
    <2> QED
        BY <2>1, ElementOfSeq, LenProperties DEF Entries
<1>4. Batch \subseteq Items
    BY <1>3 DEF Batch
<1>5. \A e \in Items : e.last \in Nat
    BY DEF Items
<1>6. n \in Nat
    BY <1>1, <1>2, <1>4, <1>5 DEF Cursors, Readers
<1>7. PICK G : G = reader.got \cup {e \in Batch : e.last <= n}
    OBVIOUS
<1>8. G \in SUBSET Items
    BY <1>1, <1>4, <1>7 DEF Readers
<1>9. PICK b : b = [reader EXCEPT !.got = G, !.cursor = n]
    OBVIOUS
<1>10. Sent(n) = b
    BY <1>7, <1>9 DEF Sent
<1>11. b \in Readers /\ b.got = G /\ b.cursor = n
    BY <1>1, <1>6, <1>8, <1>9 DEF Readers
<1>12. CASE /\ \A c \in Cursors : c <= n
            /\ reader' = [Sent(n) EXCEPT !.pc = IF Terminal(reader.snap) THEN "ended" ELSE "idle"]
            /\ UNCHANGED bounds
    <2>1. PICK x \in {"idle", "ended"} : x = IF Terminal(reader.snap) THEN "ended" ELSE "idle"
        OBVIOUS
    <2>2. reader' = [b EXCEPT !.pc = x]
        BY <1>10, <1>12, <2>1
    <2>3. reader' \in Readers /\ reader'.got = G /\ reader'.cursor = n /\ reader'.pc = x
        BY <1>11, <2>2 DEF Readers
    <2>4. x = "ended" => Terminal(reader.snap)
        BY <2>1
    <2> QED
        BY <1>2, <1>6, <1>7, <1>12, <2>3, <2>4 DEF Emit, Reading
<1>13. CASE /\ reader' = [Sent(n) EXCEPT !.pc = "idle", !.snap = None, !.stamp = None]
            /\ Fault
    <2>1. reader' = [b EXCEPT !.pc = "idle", !.snap = None, !.stamp = None]
        BY <1>10, <1>13
    <2>2. reader' \in Readers /\ reader'.got = G /\ reader'.cursor = n /\ reader'.pc = "idle"
        BY <1>11, <2>1 DEF Readers
    <2> QED
        BY <1>2, <1>6, <1>7, <1>13, <2>2 DEF Emit, Reading
<1> QED
    BY <1>2, <1>12, <1>13

LEMMA EmitStep ==
    ASSUME Core, Emit
    PROVE  AgentPart /\ LedgerStep /\ Core' /\ UNCHANGED <<storeVars, torn>>
<1>1. /\ reader' \in Readers
      /\ (UNCHANGED bounds) \/ Fault
      /\ UNCHANGED <<mode, agentVars, up, lease, storeVars, writer, early, torn>>
    BY EmitIs
<1>2. source' = source /\ sent' = sent /\ agent' = agent
    BY <1>1 DEF agentVars
<1>3. AgentQuiet
    BY <1>2, AgentStays DEF Core
<1>4. AgentOK'
    BY <1>3, QuietAgent DEF Core
<1>5. Files'
    BY <1>1, <1>2 DEF Core, Files, storeVars
<1>6. LedgerStep /\ StoreOK' /\ WriterOK'
    BY <1>1, <1>2, StoreStays
<1>7. Basics'
    <2>1. CASE UNCHANGED bounds
        BY <1>1, <2>1 DEF Core, Basics, bounds
    <2>2. CASE Fault
        BY <1>1, <2>2, FaultIs DEF Core, Basics
    <2> QED
        BY <1>1, <2>1, <2>2
<1>8. LedgerOK'
    BY <1>6 DEF LedgerStep, LedgerOK
<1> QED
    BY <1>1, <1>3, <1>4, <1>5, <1>6, <1>7, <1>8 DEF AgentPart, Core, ReaderOK

\* The invariant of the streams from a step that is quiet about Agent and reader.
LEMMA PartsGiveCore ==
    ASSUME Core, AgentPart, StorePart
    PROVE  Core'
<1>1. AgentOK'
    BY QuietAgent DEF Core, AgentPart
<1>2. ReaderOK'
    BY QuietReader DEF StorePart
<1>3. LedgerOK'
    BY DEF StorePart, LedgerStep, LedgerOK
<1> QED
    BY <1>1, <1>2, <1>3 DEF Core, AgentPart, StorePart

\* Steps that are about a Run of an Agent.
RequestStep == \/ \E m \in sent : CheckpointRepeated(m) \/ CheckpointRefused(m) \/ CheckpointMerged(m)
               \/ CheckpointSaved
               \/ FailStaged \/ FailRefused \/ Quarantine \/ QuarantineRefused
               \/ CompletionStaged \/ CompletionRefused \/ CompletionResumed \/ Finish
               \/ SnapshotFails \/ AgentStops \/ LeaseExpires \/ Crash \/ Restart

\* Every request keeps the parts.
LEMMA RequestParts == ASSUME Core, RequestStep PROVE AgentPart /\ StorePart /\ mode = "agent"
<1>1. AgentPart /\ StorePart
    BY RepeatedStep, RefusedStep, MergedStep, SavedStep, FailStagedStep, TurnedAwayStep, QuarantineStep,
       CompletionStagedStep, CompletionResumedStep, FinishStep, SnapshotFailsStep, AgentStopsStep,
       LeaseExpiresStep, CrashStep, RestartStep
       DEF RequestStep
<1>2. ASSUME CheckpointSaved \/ Finish PROVE mode = "agent"
    BY <1>2 DEF CheckpointSaved, Finish, Core, WriterOK
<1>3. ASSUME Restart PROVE mode = "agent"
    BY <1>3, RestartIs
<1>4. mode = "agent"
    BY <1>2, <1>3 DEF RequestStep, CheckpointRepeated, CheckpointRefused, CheckpointMerged, FailStaged,
       FailRefused, Quarantine, QuarantineRefused, CompletionStaged, CompletionRefused,
       CompletionResumed, Completing, Free, SnapshotFails, AgentStops, LeaseExpires, Crash
<1> QED
    BY <1>1, <1>4

\* The steps, by whom they are about.
LEMMA NextIs ==
    ASSUME Next
    PROVE  \/ RequestStep \/ AgentRecords \/ BuildsCheckpoint \/ LocalRecords \/ LocalFinalizes
           \/ Refresh \/ Poll \/ Emit \/ EarlyReads \/ EarlySaves
    BY DEF Next, AgentSteps, Requests, RequestStep

-----------------------------------------------------------------------------
(* The first theorems: the types, and that an honest Agent is accepted.    *)

\* What the ledger of an Agent's Run has of the Agent's file: it shows a failure
\* of the Control Plane, or it is a stream of that file, and while checkpoints
\* are sent a copy that is no longer than the pending one.
ViewOK ==
    mode = "agent" =>
      \/ HasFailed(ledger.events)
      \/ /\ ViewOf(ledger.events, source)
         /\ agent.pc = "running" =>
              /\ CopyOf(ledger.events, source, ProgressMax)
              /\ agent.pending # None => Final(ledger.events) <= Final(agent.pending.events)

\* The first two events are a stream that nothing is omitted from.
LEMMA PrefixIsFirst ==
    /\ Prefix \in Histories /\ Len(Prefix) = 2 /\ Numbered(Prefix) \in Seq(Items)
    /\ CopyOf(Numbered(Prefix), Prefix, ProgressMax) /\ CopyOf(Numbered(Prefix), Prefix, LedgerMax)
<1>1. Prefix \in Seq(Kinds) /\ Len(Prefix) = 2 /\ Prefix[1] = "accepted"
    BY DEF Prefix, Kinds
<1>2. Prefix \in Histories
    <2>1. PICK l : l = Prefix
        OBVIOUS
    <2>2. l \in Seq(Kinds) /\ Len(l) = 2 /\ l[1] = "accepted"
        BY <1>1, <2>1, Zenon
    <2>3. 2 <= Len(l)
        BY <2>2
    <2>4. l \in Histories
        BY <2>2, <2>3 DEF Histories
    <2> QED
        BY <2>1, <2>4, Zenon
<1>3. Numbered(Prefix) = Stream(Prefix, 1) /\ 1 \in Cuts(Prefix)
    BY <1>2, NumberedIs, HistoryIs
<1>4. Cut(2, 1, ProgressMax) = 1 /\ Cut(2, 1, LedgerMax) = 1
    BY Limits DEF Cut
<1>5. Prefix \in Prefixes(Prefix)
    BY <1>2, PrefixesGrow DEF Kinds
<1>6. Numbered(Prefix) \in Seq(Items)
    BY <1>2, <1>3, StreamIs
<1> QED
    BY <1>1, <1>2, <1>3, <1>4, <1>5, <1>6 DEF CopyOf

-----------------------------------------------------------------------------
(* The follower that attached while the Run was queued.                    *)

Refreshes == [lines : Histories, newer : BOOLEAN, rec : Records]

\* The Control Plane's own events file has nothing after the first two events but
\* failures, so a refresh that finds it newer brings a failure into the ledger.
EarlyOK ==
    /\ mode = "agent" => transient = Prefix \/ \E l \in Histories : transient = Append(l, "failed")
    /\ early # None =>
         /\ mode = "agent"
         /\ early \in [stamp : {None} \cup Histories, held : {None} \cup Refreshes]
         /\ early.held # None /\ early.held.newer =>
              Bounded(early.held.rec.of, LedgerMax) /\ HasFailed(early.held.rec.of)

\* What a refresh that is under way writes.
LEMMA HeldIs ==
    ASSUME Core, EarlyOK, Held, NEW e, e = IF early.held.newer THEN early.held.rec.of ELSE ledger.events
    PROVE  /\ mode = "agent" /\ early.held \in Refreshes /\ early.held.rec \in Records
           /\ e \in Seq(Items) /\ Bounded(e, LedgerMax) /\ (e = ledger.events \/ HasFailed(e))
<1>1. early # None /\ early.held # None
    BY DEF Held
<1>2. mode = "agent" /\ early.held \in Refreshes
    BY <1>1 DEF EarlyOK
<1>3. early.held.rec \in Records
    BY <1>2 DEF Refreshes
<1>4. Bounded(ledger.events, LedgerMax)
    BY DEF Core, LedgerOK
<1>5. Bounded(e, LedgerMax) /\ (e = ledger.events \/ HasFailed(e))
    BY <1>1, <1>4 DEF EarlyOK
<1> QED
    BY <1>2, <1>3, <1>5, BoundedIs

LEMMA EarlySavesStep ==
    ASSUME Core, EarlyOK, EarlySaves
    PROVE  /\ AgentPart /\ StorePart /\ mode = "agent" /\ UNCHANGED <<asg, disk, transient>>
           /\ torn' \/ ledger'.events = ledger.events
           /\ writer' \in {None, writer}
<1>1. PICK e : e = IF early.held.newer THEN early.held.rec.of ELSE ledger.events
    OBVIOUS
<1>2. PICK r : r = early.held.rec
    OBVIOUS
<1>3. Held /\ up
    BY DEF EarlySaves
<1>4. /\ mode = "agent" /\ r \in Records /\ e \in Seq(Items) /\ Bounded(e, LedgerMax)
      /\ e = ledger.events \/ HasFailed(e)
    BY <1>1, <1>2, <1>3, HeldIs
<1>5. ledger \in Ledgers /\ Bounded(ledger.events, LedgerMax)
    BY DEF Core, LedgerOK
<1>6. /\ \/ ledger' = [events |-> e, rec |-> r] /\ UNCHANGED <<up, lease, writer, reader, bounds>>
         \/ /\ ledger' \in {ledger, [ledger EXCEPT !.events = e]}
            /\ (Fault /\ UNCHANGED <<up, lease, writer, reader>>) \/ Down
      /\ torn' = (torn \/ ledger'.events # ledger.events)
      /\ UNCHANGED <<mode, agentVars, asg, disk, transient>>
    BY <1>1, <1>2 DEF EarlySaves
<1>7. ledger' \in Ledgers /\ ledger'.events \in {ledger.events, e}
    <2>1. CASE ledger' = [events |-> e, rec |-> r]
        BY <1>4, <2>1, LedgerIs
    <2>2. CASE ledger' = ledger
        BY <1>5, <2>2
    <2>3. CASE ledger' = [ledger EXCEPT !.events = e]
        BY <1>4, <1>5, <2>3, LedgerSet
    <2> QED
        BY <1>6, <2>1, <2>2, <2>3
<1>8. torn' \in BOOLEAN /\ (torn => torn') /\ (torn' \/ ledger'.events = ledger.events)
    BY <1>6
<1>9. LedgerStep
    <2>1. Grows(ledger.events, ledger.events)
        BY <1>5, GrowsSelf
    <2>2. Bounded(ledger'.events, LedgerMax) /\ (ledger'.events = ledger.events \/ HasFailed(ledger'.events))
        BY <1>4, <1>5, <1>7
    <2> QED
        BY <1>7, <1>8, <2>1, <2>2 DEF LedgerStep
<1>10. source' = source /\ sent' = sent /\ agent' = agent
    BY <1>6 DEF agentVars
<1>11. AgentPart
    <2>1. AgentQuiet
        BY <1>10, AgentStays DEF Core
    <2>2. Files'
        BY <1>6, <1>10 DEF Core, Files
    <2> QED
        BY <1>6, <2>1, <2>2 DEF AgentPart
<1>12. /\ faults' \in 0..MaxFaults /\ crashes' \in 0..MaxCrashes /\ ReaderQuiet
       /\ \/ up' = up /\ lease' = lease /\ writer' = writer
          \/ up' = FALSE /\ lease' = FALSE /\ writer' = None
    <2>1. CASE UNCHANGED <<up, lease, writer, reader, bounds>>
        BY <2>1 DEF Core, Basics, bounds, ReaderOK, ReaderQuiet
    <2>2. CASE Fault /\ UNCHANGED <<up, lease, writer, reader>>
        BY <2>2, FaultIs DEF Core, ReaderOK, ReaderQuiet
    <2>3. CASE Down
        BY <2>3, DownIs DEF Core
    <2> QED
        BY <1>6, <2>1, <2>2, <2>3
<1>13. Basics'
    BY <1>6, <1>8, <1>12 DEF Core, Basics
<1>14. StoreOK'
    BY <1>4, <1>6 DEF Core, StoreOK
<1>15. WriterOK'
    <2>1. CASE writer' = None
        BY <2>1 DEF WriterOK
    <2>2. CASE writer' = writer /\ up' = up
        <3>1. writer # None /\ writer.op = "save" => torn' \/ ledger'.events = writer.m.events
            BY <1>8 DEF Core, WriterOK
        <3> QED
            BY <1>6, <1>10, <2>2, <3>1 DEF Core, WriterOK
    <2> QED
        BY <1>12, <2>1, <2>2
<1> QED
    BY <1>4, <1>6, <1>8, <1>9, <1>11, <1>12, <1>13, <1>14, <1>15 DEF StorePart

\* A refresh that finds the Control Plane's file newer has found a failure in it.
LEMMA EarlyReadsStep ==
    ASSUME Core, EarlyOK, EarlyReads
    PROVE  EarlyOK' /\ UNCHANGED <<mode, agentVars, up, lease, storeVars, writer, reader, torn, bounds>>
<1>1. PICK t : t = Synced(transient)
    OBVIOUS
<1>2. PICK r : r = Record(ledger.rec.state, t)
    OBVIOUS
<1>3. PICK b : b = Newer(transient)
    OBVIOUS
<1>4. PICK h : h = [lines |-> transient, newer |-> b, rec |-> r]
    OBVIOUS
<1>5. /\ early # None /\ early' = [early EXCEPT !.held = h]
      /\ UNCHANGED <<mode, agentVars, up, lease, storeVars, writer, reader, torn, bounds>>
    BY <1>1, <1>2, <1>3, <1>4 DEF EarlyReads
<1>6. /\ mode = "agent" /\ early \in [stamp : {None} \cup Histories, held : {None} \cup Refreshes]
      /\ transient = Prefix \/ \E l \in Histories : transient = Append(l, "failed")
    BY <1>5 DEF EarlyOK
<1>7. transient \in Histories /\ ledger \in Ledgers /\ Bounded(ledger.events, LedgerMax)
    BY DEF Core, Files, LedgerOK
<1>8. b \in BOOLEAN
    BY <1>3 DEF Newer
<1>9. Bounded(t, LedgerMax) /\ (b => HasFailed(t))
    <2>1. CASE transient = Prefix
        <3>1. PICK l \in Histories : \E g \in Cuts(l) : ledger.events = Stream(l, g)
            BY <1>7 DEF Bounded
        <3>2. Final(ledger.events) = Len(l) /\ 2 <= Len(l) /\ Len(l) \in Nat
            BY <3>1, ContentIs, HistoryIs
        <3>3. Len(transient) = 2
            BY <2>1, PrefixIsFirst
        <3>4. ~(Len(transient) > Final(ledger.events))
            BY <3>2, <3>3
        <3>5. ~b /\ t = ledger.events
            BY <1>1, <1>3, <1>7, <3>4, NewerIs, SyncedIs
        <3> QED
            BY <1>7, <3>5
    <2>2. CASE \E l \in Histories : transient = Append(l, "failed")
        <3>1. PICK l \in Histories : transient = Append(l, "failed")
            BY <2>2
        <3>2. Bounded(t, LedgerMax) /\ (t = ledger.events \/ HasFailed(t))
            BY <1>1, <1>7, <3>1, SyncFailed
        <3>3. ASSUME b PROVE t = copyBoundedLedgerEvents(Numbered(transient), LedgerMax)
            BY <1>1, <1>3, <3>3 DEF Synced
        <3>4. ASSUME b PROVE HasFailed(t)
            <4>1. "failed" \in Kinds
                BY DEF Kinds
            <4>2. transient[Len(transient)] = "failed"
                BY <3>1, <4>1, LongerIs
            <4>3. CopyOf(t, transient, LedgerMax) /\ t = Stream(transient, Cut(Len(transient), 1, LedgerMax))
                  /\ Cut(Len(transient), 1, LedgerMax) \in Cuts(transient)
                BY <1>7, <3>3, <3>4, Limits, CopyMade
            <4> QED
                BY <1>7, <4>2, <4>3, FailedShows
        <3> QED
            BY <3>2, <3>4
    <2> QED
        BY <1>6, <2>1, <2>2
<1>10. t \in Seq(Items)
    BY <1>9, BoundedIs
<1>11. r \in Records /\ r.of = t
    BY <1>2, <1>7, <1>10, RecordIs DEF Ledgers, Records
<1>12. h \in Refreshes /\ h.newer = b /\ h.rec = r
    BY <1>4, <1>7, <1>8, <1>11 DEF Refreshes
<1>13. early' \in [stamp : {None} \cup Histories, held : {None} \cup Refreshes] /\ early'.held = h
    BY <1>5, <1>6, <1>12
<1>14. transient' = transient /\ mode' = mode
    BY <1>5 DEF storeVars
<1> QED
    BY <1>5, <1>6, <1>9, <1>11, <1>12, <1>13, <1>14 DEF EarlyOK

\* The other steps: the follower stays or is gone, and the Control Plane's file
\* of an Agent's Run gets nothing but failures.
LEMMA EarlyKept ==
    ASSUME Core, EarlyOK, mode' = mode, early' \in {None, early},
           mode = "agent" => transient' \in {transient, Failed}
    PROVE  EarlyOK'
<1>1. ASSUME mode = "agent" PROVE transient' = Prefix \/ \E l \in Histories : transient' = Append(l, "failed")
    BY <1>1 DEF EarlyOK, Failed, Core, Files
<1> QED
    BY <1>1 DEF EarlyOK

LEMMA EarlySaved ==
    ASSUME Core, EarlyOK, EarlySaves
    PROVE  EarlyOK'
<1>1. mode' = mode /\ transient' = transient
    BY DEF EarlySaves
<1>2. early # None /\ early.held # None
    BY DEF EarlySaves, Held
<1>3. /\ mode = "agent" /\ early \in [stamp : {None} \cup Histories, held : {None} \cup Refreshes]
      /\ early.held \in Refreshes
    BY <1>2 DEF EarlyOK
<1>4. PICK l \in Histories : l = early.held.lines
    BY <1>3 DEF Refreshes
<1>5. \/ early' = [stamp |-> l, held |-> None]
      \/ early' = [early EXCEPT !.held = None]
      \/ early' = None
    BY <1>4 DEF EarlySaves, Down
<1>6. CASE early' = None
    BY <1>1, <1>6, EarlyKept
<1>7. CASE early' # None
    <2>1. early' \in [stamp : {None} \cup Histories, held : {None} \cup Refreshes] /\ early'.held = None
        BY <1>3, <1>5, <1>7
    <2> QED
        BY <1>1, <1>3, <2>1 DEF EarlyOK
<1> QED
    BY <1>6, <1>7

LEMMA RequestEarly == ASSUME Core, EarlyOK, RequestStep PROVE EarlyOK'
<1>1. mode' = mode
    BY RequestParts DEF AgentPart
<1>2. CASE \/ \E m \in sent : CheckpointRepeated(m) \/ CheckpointRefused(m)
           \/ FailRefused \/ QuarantineRefused \/ CompletionRefused
           \/ SnapshotFails \/ AgentStops \/ LeaseExpires
    <2>1. UNCHANGED <<storeVars, early>>
        BY <1>2 DEF CheckpointRepeated, CheckpointRefused, FailRefused, QuarantineRefused, CompletionRefused,
           SnapshotFails, AgentStops, LeaseExpires
    <2> QED
        BY <1>1, <2>1, EarlyKept DEF storeVars
<1>3. ASSUME Fine \/ Break PROVE early' \in {None, early}
    BY <1>3 DEF Fine, Break, Error, Down
<1>4. CASE \E m \in sent : CheckpointMerged(m)
    <2>1. transient' = transient /\ (Fine \/ Break)
        BY <1>4 DEF CheckpointMerged
    <2> QED
        BY <1>1, <1>3, <2>1, EarlyKept
<1>5. CASE CheckpointSaved \/ Finish \/ CompletionResumed \/ CompletionStaged
    <2>1. transient' = transient /\ (Fine \/ Break)
        BY <1>5 DEF CheckpointSaved, Finish, CompletionResumed, CompletionStaged, Break
    <2> QED
        BY <1>1, <1>3, <2>1, EarlyKept
<1>6. CASE FailStaged \/ Quarantine
    <2>1. transient' = Failed /\ (Fine \/ Break)
        BY <1>6 DEF FailStaged, Quarantine, Break
    <2> QED
        BY <1>1, <1>3, <2>1, EarlyKept
<1>7. CASE Crash \/ Restart
    <2>1. transient' = transient /\ early' \in {None, early}
        BY <1>7 DEF Crash, Restart, Down, storeVars
    <2> QED
        BY <1>1, <2>1, EarlyKept
<1> QED
    BY <1>2, <1>4, <1>5, <1>6, <1>7 DEF RequestStep

LEMMA NextEarly == ASSUME Core, EarlyOK, [Next]_vars PROVE EarlyOK'
<1>1. CASE \/ AgentRecords \/ BuildsCheckpoint \/ Poll \/ Emit \/ UNCHANGED vars
    <2>1. UNCHANGED <<mode, storeVars, early>>
        BY <1>1 DEF AgentRecords, BuildsCheckpoint, Poll, Emit, vars
    <2> QED
        BY <2>1, EarlyKept DEF storeVars
<1>2. CASE LocalRecords \/ LocalFinalizes \/ Refresh
    <2>1. mode = "local" /\ UNCHANGED <<mode, early>>
        BY <1>2 DEF LocalRecords, LocalFinalizes, Refresh
    <2> QED
        BY <2>1, EarlyKept
<1> QED
    BY <1>1, <1>2, RequestEarly, EarlyReadsStep, EarlySaved, NextIs

Streams == Core /\ LocalOK /\ ViewOK /\ EarlyOK

\* The invariant of the streams at the start, and through every step.
LEMMA InitStreams == ASSUME Init PROVE Streams
<1>1. PICK s : s = Numbered(Prefix)
    OBVIOUS
<1>2. /\ Prefix \in Histories /\ s \in Seq(Items)
      /\ CopyOf(s, Prefix, ProgressMax) /\ CopyOf(s, Prefix, LedgerMax)
    BY <1>1, PrefixIsFirst
<1>3. PICK r : r = Record("submitted", s)
    OBVIOUS
<1>4. r \in Records
    BY <1>2, <1>3, RecordIs
<1>5. /\ source = Prefix /\ transient = Prefix /\ mode \in Modes
      /\ ledger = [events |-> s, rec |-> r]
      /\ sent = {}
    BY <1>1, <1>3 DEF Init
<1>6. ledger \in Ledgers /\ ledger.events = s /\ ledger.rec = r
    BY <1>2, <1>4, <1>5 DEF Ledgers
<1>7. Bounded(s, LedgerMax) /\ ViewOf(s, Prefix)
    BY <1>2, Limits, CopyOfIs
<1>8. LedgerOK
    BY <1>6, <1>7 DEF LedgerOK
<1>9. Files
    BY <1>2, <1>5 DEF Files
<1>10. Basics
    <2>1. mode \in Modes /\ up = TRUE /\ lease = TRUE /\ torn = FALSE /\ faults = 0 /\ crashes = 0
        BY DEF Init
    <2>2. 0 \in 0..MaxFaults /\ 0 \in 0..MaxCrashes
        BY Limits
    <2> QED
        BY <2>1, <2>2 DEF Basics
<1>11. agent \in Agents /\ agent.pending = None
    BY DEF Init, Agents
<1>12. AgentOK
    BY <1>5, <1>11 DEF AgentOK
<1>13. PICK a : a = [state |-> "confirmed", rec |-> r, n |-> 0,
                     digest |-> None, finishing |-> FALSE, orig |-> None]
    OBVIOUS
<1>14. a \in Assignments
    BY <1>4, <1>13, Limits DEF Assignments
<1>15. asg = disk /\ disk = IF mode = "local" THEN None ELSE a
    BY <1>6, <1>13 DEF Init
<1>16. up = TRUE /\ writer = None
    BY DEF Init
<1>17. StoreOK
    BY <1>14, <1>15, <1>16 DEF StoreOK
<1>18. WriterOK
    BY <1>16 DEF WriterOK
<1>19. ReaderOK
    BY DEF Init, ReaderOK, Readers
<1>20. LocalOK /\ ViewOK
    BY <1>2, <1>5, <1>6, <1>7, <1>11 DEF LocalOK, ViewOK
<1>21. EarlyOK
    <2>1. early = None \/ (mode = "agent" /\ early = [stamp |-> None, held |-> None])
        BY DEF Init
    <2> QED
        BY <1>5, <2>1 DEF EarlyOK
<1> QED
    BY <1>8, <1>9, <1>10, <1>12, <1>17, <1>18, <1>19, <1>20, <1>21 DEF Streams, Core

\* What the ledger has of the Agent's file, through a request.
LEMMA QuietView ==
    ASSUME Core, ViewOK, AgentQuiet, LedgerStep, mode' = mode
    PROVE  ViewOK'
<1>1. source' = source /\ agent'.pending \in {None, agent.pending} /\ (agent'.pc = "running" => agent.pc = "running")
    BY DEF AgentQuiet
<1>2. SUFFICES ASSUME mode = "agent", ~HasFailed(ledger'.events)
               PROVE  /\ ViewOf(ledger'.events, source)
                      /\ agent'.pc = "running" =>
                           /\ CopyOf(ledger'.events, source, ProgressMax)
                           /\ agent'.pending # None => Final(ledger'.events) <= Final(agent'.pending.events)
    BY <1>1 DEF ViewOK
<1>3. CASE ledger'.events = ledger.events
    BY <1>1, <1>2, <1>3 DEF ViewOK
<1>4. CASE \E m \in sent : ledger'.events = m.events
    <2>1. PICK m \in sent : ledger'.events = m.events
        BY <1>4
    <2>2. source \in Histories /\ CopyOf(m.events, source, ProgressMax)
        BY DEF Core, Files, AgentOK
    <2>3. ViewOf(m.events, source)
        BY <2>2, Limits, CopyOfIs
    <2>4. ASSUME agent'.pending # None PROVE Final(m.events) <= Final(agent'.pending.events)
        BY <1>1, <2>4 DEF Core, AgentOK
    <2> QED
        BY <2>1, <2>2, <2>3, <2>4
<1>5. CASE agent.pc # "running" /\ ViewOf(ledger'.events, source)
    BY <1>1, <1>5
<1> QED
    BY <1>2, <1>3, <1>4, <1>5 DEF LedgerStep

\* A Run has one mode.
LEMMA AgentLocal ==
    ASSUME mode = "agent", mode' = mode
    PROVE  LocalOK'
    BY DEF LocalOK

LEMMA LocalView ==
    ASSUME mode = "local", mode' = mode
    PROVE  ViewOK'
    BY DEF ViewOK

\* The copy of a ledger that nothing was written to.
LEMMA StillLocal == ASSUME LocalOK, UNCHANGED <<mode, storeVars>> PROVE LocalOK'
    BY DEF LocalOK, storeVars

LEMMA NextStreams == ASSUME Streams, [Next]_vars PROVE Streams'
<1> USE DEF Streams
<1>e. EarlyOK'
    BY NextEarly
<1>1. CASE RequestStep
    <2>1. AgentPart /\ StorePart /\ mode = "agent"
        BY <1>1, RequestParts
    <2>2. Core'
        BY <2>1, PartsGiveCore
    <2>3. LocalOK' /\ ViewOK'
        BY <2>1, AgentLocal, QuietView DEF AgentPart, StorePart
    <2> QED
        BY <1>e, <2>2, <2>3
<1>2. CASE AgentRecords
    <2>1. Files' /\ AgentOK' /\ StorePart /\ mode' = mode
        BY <1>2, AgentRecordsStep
    <2>2. Core'
        BY <2>1, QuietReader DEF Core, StorePart, LedgerStep, LedgerOK
    <2>3. mode = "agent" /\ UNCHANGED <<mode, agent, storeVars>>
        BY <1>2 DEF AgentRecords
    <2>4. LocalOK'
        BY <2>3, AgentLocal
    <2>5. ViewOK'
        <3>1. PICK line \in {"agent"} \cup Closing : source' = Append(source, line)
            BY <1>2 DEF AgentRecords
        <3>2. source \in Histories
            BY DEF Core, Files
        <3>3. line \in Kinds
            BY <3>2, LineIs
        <3>4. ledger' = ledger
            BY <2>3 DEF storeVars
        <3>5. \A s, max : /\ CopyOf(s, source, max) => CopyOf(s, source', max)
                          /\ ViewOf(s, source) => ViewOf(s, source')
            BY <3>1, <3>2, <3>3, CopiesGrow
        <3> QED
            BY <2>3, <3>4, <3>5 DEF ViewOK
    <2> QED
        BY <1>e, <2>2, <2>4, <2>5
<1>3. CASE BuildsCheckpoint
    <2>1. /\ Files' /\ AgentOK' /\ StorePart /\ mode' = mode /\ source' = source
          /\ agent'.pc = agent.pc
          /\ agent'.pending # None => Final(agent'.pending.events) = Len(source)
        BY <1>3, BuildsCheckpointStep
    <2>2. Core'
        BY <2>1, QuietReader DEF Core, StorePart, LedgerStep, LedgerOK
    <2>3. mode = "agent" /\ ledger' = ledger
        BY <1>3 DEF BuildsCheckpoint, storeVars
    <2>4. LocalOK'
        BY <2>1, <2>3, AgentLocal
    <2>5. source \in Histories
        BY DEF Core, Files
    <2>6. CopyOf(ledger.events, source, ProgressMax) => Final(ledger.events) <= Len(source)
        BY <2>5, Limits, CopyOfIs
    <2>7. ViewOK'
        BY <2>1, <2>3, <2>6 DEF ViewOK
    <2> QED
        BY <1>e, <2>2, <2>4, <2>7
<1>4. CASE LocalRecords \/ LocalFinalizes \/ Refresh
    <2>1. AgentPart /\ StorePart /\ LocalOK' /\ mode = "local"
        BY <1>4, LocalRecordsStep, LocalFinalizesStep, RefreshStep DEF LocalRecords
    <2>2. Core'
        BY <2>1, PartsGiveCore
    <2>3. ViewOK'
        BY <2>1, LocalView DEF AgentPart
    <2> QED
        BY <1>e, <2>1, <2>2, <2>3
<1>5. CASE Poll \/ Emit
    <2>1. AgentPart /\ LedgerStep /\ Core' /\ UNCHANGED <<storeVars, torn>>
        BY <1>5, PollStep, EmitStep
    <2>2. LocalOK' /\ ViewOK'
        BY <2>1, StillLocal, QuietView DEF AgentPart
    <2> QED
        BY <1>e, <2>1, <2>2
<1>6. CASE UNCHANGED vars
    <2>1. UNCHANGED <<mode, source, agent, sent, up, lease, asg, disk, transient, ledger, writer,
                      reader, early, torn, faults, crashes>>
        BY <1>6 DEF vars, agentVars, storeVars, bounds
    <2>2. Basics' /\ Files' /\ AgentOK' /\ LedgerOK' /\ StoreOK' /\ WriterOK' /\ ReaderOK'
        BY <2>1 DEF Core, Basics, Files, AgentOK, LedgerOK, StoreOK, WriterOK, ReaderOK
    <2>3. LocalOK' /\ ViewOK'
        BY <2>1 DEF LocalOK, ViewOK
    <2> QED
        BY <1>e, <2>2, <2>3 DEF Core
<1>7. CASE EarlySaves
    <2>1. AgentPart /\ StorePart /\ mode = "agent"
        BY <1>7, EarlySavesStep
    <2>2. Core'
        BY <2>1, PartsGiveCore
    <2>3. LocalOK' /\ ViewOK'
        BY <2>1, AgentLocal, QuietView DEF AgentPart, StorePart
    <2> QED
        BY <1>e, <2>2, <2>3
<1>8. CASE EarlyReads
    <2>1. UNCHANGED <<mode, agentVars, up, lease, storeVars, writer, reader, torn, bounds>>
        BY <1>8, EarlyReadsStep
    <2>2. UNCHANGED <<mode, source, agent, sent, up, lease, asg, disk, transient, ledger, writer,
                      reader, torn, faults, crashes>>
        BY <2>1 DEF agentVars, storeVars, bounds
    <2>3. Basics' /\ Files' /\ AgentOK' /\ LedgerOK' /\ StoreOK' /\ WriterOK' /\ ReaderOK'
        BY <2>2 DEF Core, Basics, Files, AgentOK, LedgerOK, StoreOK, WriterOK, ReaderOK
    <2>4. LocalOK' /\ ViewOK'
        BY <2>2 DEF LocalOK, ViewOK
    <2> QED
        BY <1>e, <2>3, <2>4 DEF Core
<1> QED
    BY <1>1, <1>2, <1>3, <1>4, <1>5, <1>6, <1>7, <1>8, NextIs

\* The ledger of an Agent's Run holds a stream of the Agent's file, or shows a
\* failure of the Control Plane; every checkpoint on its way is a bounded copy
\* of that file, and the pending one is not behind the ledger; the ledger of a
\* local Run is a bounded copy of its events file.
THEOREM StreamInvariant == Spec => []Streams
<1>1. Init => Streams
    BY InitStreams
<1>2. Streams /\ [Next]_vars => Streams'
    BY NextStreams
<1> QED
    BY <1>1, <1>2, PTL DEF Spec

\* What follows from the invariant of the streams.
LEMMA StreamsTypeOK == ASSUME Streams PROVE TypeOK
<1>1. Core
    BY DEF Streams
<1>2. mode \in Modes /\ {up, lease, torn} \subseteq BOOLEAN /\ faults \in 0..MaxFaults /\ crashes \in 0..MaxCrashes
    BY <1>1 DEF Core, Basics
<1>3. ledger \in [events : Seq(Items), rec : Records] /\ Len(ledger.events) <= LedgerMax /\ Ordered(ledger.events)
    BY <1>1, BoundedIs DEF Core, LedgerOK, Ledgers
<1>4. agent.pc \in {"running", "completing", "failing", "quarantining", "ended"}
    BY <1>1 DEF Core, AgentOK, Agents
<1>5. ASSUME NEW m \in sent PROVE m.n \in 1..MaxCheckpoints /\ Len(m.events) <= ProgressMax
    <2>1. source \in Histories /\ m \in Checkpoints /\ CopyOf(m.events, source, ProgressMax)
        BY <1>1 DEF Core, Files, AgentOK
    <2> QED
        BY <2>1, Limits, CopyOfIs, BoundedIs DEF Checkpoints
<1>6. {asg, disk} \subseteq {None} \cup Assignments
    BY <1>1, ModesAssumption DEF Core, Basics, StoreOK
<1>7. writer = None \/ writer.op \in {"save", "finish"}
    BY <1>1 DEF Core, WriterOK, Saves, Finishes
<1>8. reader.pc \in {"idle", "events", "ended"}
    BY <1>1 DEF Core, ReaderOK, Readers
<1> QED
    BY <1>2, <1>3, <1>4, <1>5, <1>6, <1>7, <1>8 DEF TypeOK

\* Every variable keeps its type, the ledger's events are in order with at most
\* one gap, and every copy that copyBoundedLedgerEvents and the merges make is
\* within its limit.
THEOREM TypeCorrect == Spec => []TypeOK
<1>1. Streams => TypeOK
    BY StreamsTypeOK
<1> QED
    BY <1>1, StreamInvariant, PTL

LEMMA StreamsHonest == ASSUME Streams PROVE HonestAgentAccepted
<1>1. Core /\ ViewOK /\ source \in Histories
    BY DEF Streams, Core, Files
<1>2. Accepts => mode = "agent"
    BY <1>1, ModesAssumption DEF Core, Basics, StoreOK, Accepts, Standing
<1>3. ASSUME \A i \in DOMAIN ledger.events : ledger.events[i].kind # "failed" PROVE ~HasFailed(ledger.events)
    BY <1>3 DEF HasFailed, Entries
<1>4. ASSUME agent.pc = "running", agent.pending # None, NextCheckpoint(agent.pending),
             \A i \in DOMAIN ledger.events : ledger.events[i].kind # "failed"
      PROVE  mergeable(ledger.events, agent.pending.events)
    <2>1. /\ CopyOf(ledger.events, source, ProgressMax)
          /\ Final(ledger.events) <= Final(agent.pending.events)
        BY <1>1, <1>2, <1>3, <1>4 DEF ViewOK, NextCheckpoint
    <2>2. agent.pending \in sent
        BY <1>1, <1>4 DEF Core, AgentOK
    <2>3. CopyOf(agent.pending.events, source, ProgressMax)
        BY <1>1, <2>2 DEF Core, AgentOK
    <2> QED
        BY <1>1, <2>1, <2>3, Limits, CopyOrder
<1>5. ASSUME Accepts, \A i \in DOMAIN ledger.events : ledger.events[i].kind # "failed"
      PROVE  mergeable(ledger.events, sanitized(ledger.events, Complete))
    <2>1. ViewOf(ledger.events, source)
        BY <1>1, <1>2, <1>3, <1>5 DEF ViewOK
    <2> QED
        BY <1>1, <2>1, Limits, TerminalMerges DEF Complete
<1> QED
    BY <1>4, <1>5 DEF HonestAgentAccepted

\* mergeHostAgentProgressEvents and mergeHostAgentTerminalEvents never refuse what
\* an honest Agent repeats or ends with, unless the Control Plane has written a
\* failure: no lost answer, failed write or restart makes its history stale.
THEOREM HonestIsAccepted == Spec => []HonestAgentAccepted
<1>1. Streams => HonestAgentAccepted
    BY StreamsHonest
<1> QED
    BY <1>1, StreamInvariant, PTL

-----------------------------------------------------------------------------
(* Assignments: what was acknowledged, and what a follower may take for the *)
(* end of the Run.                                                          *)

\* The record of a Run that goes on does not say that it has ended.
OpenOK ==
    /\ \A a \in {asg, disk} \ {None} : a.state = "confirmed" /\ ~torn => ~Terminal(a.rec)
    /\ writer # None /\ writer.op = "save" /\ ~torn => ~Terminal(writer.rec)

\* The assignments after a step: the same of the ones before it, except for
\* an acknowledged checkpoint, which is in the ledger.
Inherits(b) == \E a \in {asg, disk} \ {None} :
    b.digest = a.digest /\ (b.state = "confirmed" => a.state = "confirmed" /\ b.rec = a.rec)

Acknowledged ==
    ~torn' => \A b \in {asg', disk'} \ {None} :
      b.digest = ledger'.events \/ \E a \in {asg, disk} \ {None} : b.digest = a.digest

AssignStep == Acknowledged /\ OpenOK'

\* Assignments that are taken over from the ones before keep the invariant.
LEMMA AllInherit ==
    ASSUME OpenOK, torn => torn', \A b \in {asg', disk'} \ {None} : Inherits(b),
           writer' = None \/ writer' = writer \/ writer'.op = "finish"
    PROVE  AssignStep
<1>1. Acknowledged
    BY DEF Acknowledged, Inherits
<1>2. \A b \in {asg', disk'} \ {None} : b.state = "confirmed" /\ ~torn' => ~Terminal(b.rec)
    BY DEF OpenOK, Inherits
<1>3. writer' # None /\ writer'.op = "save" /\ ~torn' => ~Terminal(writer'.rec)
    BY DEF OpenOK
<1> QED
    BY <1>1, <1>2, <1>3 DEF AssignStep, OpenOK, Terminal

LEMMA SameInherit ==
    ASSUME OpenOK, torn => torn', UNCHANGED <<asg, disk>>,
           writer' = None \/ writer' = writer \/ writer'.op = "finish"
    PROVE  AssignStep
<1>1. \A b \in {asg', disk'} \ {None} : Inherits(b)
    BY DEF Inherits
<1> QED
    BY <1>1, AllInherit

\* A merged checkpoint marks the Run torn when an unfinished failure is in the
\* record; otherwise the record it is about to save is not terminal.
LEMMA MergedAssign == ASSUME Core, OpenOK, NEW m \in sent, CheckpointMerged(m) PROVE AssignStep
<1>1. PICK rec : rec = Record(ledger.rec.state, merged(ledger.events, m.events))
    OBVIOUS
<1>2. /\ UNCHANGED <<asg, disk>> /\ torn' = (torn \/ Terminal(ledger.rec))
      /\ writer' = [op |-> "save", m |-> m, rec |-> rec] \/ Break
    BY <1>1 DEF CheckpointMerged
<1>3. torn => torn'
    BY <1>2
<1>4. CASE Break
    BY <1>2, <1>3, <1>4, SameInherit DEF Break, Error, Down
<1>5. CASE writer' = [op |-> "save", m |-> m, rec |-> rec]
    <2>1. writer'.rec = rec /\ rec.state = ledger.rec.state
        BY <1>1, <1>5 DEF Record
    <2>2. ASSUME ~torn' PROVE ~Terminal(writer'.rec)
        <3>1. ~Terminal(ledger.rec)
            BY <1>2, <2>2, Zenon
        <3> QED
            BY <2>1, <3>1 DEF Terminal
    <2>3. Acknowledged
        BY <1>2 DEF Acknowledged
    <2>4. \A b \in {asg', disk'} \ {None} : b.state = "confirmed" /\ ~torn' => ~Terminal(b.rec)
        BY <1>2, <1>3 DEF OpenOK
    <2> QED
        BY <2>2, <2>3, <2>4 DEF AssignStep, OpenOK, Terminal
<1> QED
    BY <1>2, <1>4, <1>5

\* A saved checkpoint is acknowledged, and its events are the ledger's.
LEMMA SavedAssign == ASSUME Core, OpenOK, CheckpointSaved PROVE AssignStep
<1>1. writer # None /\ writer.op = "save"
    BY DEF CheckpointSaved
<1>2. asg \in Assignments /\ mode = "agent" /\ (torn \/ ledger.events = writer.m.events)
    BY <1>1 DEF Core, WriterOK
<1>3. disk \in Assignments
    BY <1>2 DEF Core, StoreOK
<1>4. PICK r : r = writer.rec
    OBVIOUS
<1>5. PICK d : d = writer.m.events
    OBVIOUS
<1>6. PICK k : k = writer.m.n
    OBVIOUS
<1>7. PICK a : a = [asg EXCEPT !.rec = r, !.n = k, !.digest = d]
    OBVIOUS
<1>8. PICK b : b = [disk EXCEPT !.rec = r, !.n = k, !.digest = d]
    OBVIOUS
<1>9. a.rec = r /\ a.digest = d
    BY <1>2, <1>7 DEF Assignments
<1>10. b.rec = r /\ b.digest = d
    BY <1>3, <1>8 DEF Assignments
<1>11. /\ asg' \in {asg, a} /\ disk' \in {disk, b} /\ writer' = None
       /\ ledger' = ledger /\ torn' = torn
    BY <1>4, <1>5, <1>6, <1>7, <1>8 DEF CheckpointSaved, Break, Error, Down
<1>12. Acknowledged
    BY <1>2, <1>5, <1>9, <1>10, <1>11 DEF Acknowledged
<1>13. ~torn => ~Terminal(r)
    BY <1>1, <1>4 DEF OpenOK
<1>14. \A c \in {asg', disk'} \ {None} : c.state = "confirmed" /\ ~torn' => ~Terminal(c.rec)
    BY <1>9, <1>10, <1>11, <1>13 DEF OpenOK
<1> QED
    BY <1>11, <1>12, <1>14 DEF AssignStep, OpenOK, Terminal

\* The other requests that change an assignment.
LEMMA FailAssign == ASSUME Core, OpenOK, FailStaged PROVE AssignStep
<1>1. Free /\ Accepts /\ disk' = disk
    BY DEF FailStaged
<1>2. asg \in Assignments /\ disk \in Assignments /\ asg # None
    BY <1>1, AcceptsIs DEF Accepts, Standing
<1>3. torn => torn'
    BY FailStagedStep DEF StorePart, LedgerStep
<1>4. PICK f : f = (asg.orig # None)
    OBVIOUS
<1>5. PICK r : r = ledger.rec
    OBVIOUS
<1>6. /\ \/ asg' = asg \/ asg' = [asg EXCEPT !.finishing = f]
         \/ asg' = [asg EXCEPT !.finishing = TRUE, !.orig = r]
      /\ writer' = None \/ writer'.op = "finish"
    <2>1. \/ /\ writer' = [op |-> "finish", rec |-> Written(4, "failed").rec]
             /\ asg' = [asg EXCEPT !.finishing = TRUE, !.orig = ledger.rec]
          \/ /\ writer' = None
             /\ asg' = asg \/ asg' = [asg EXCEPT !.finishing = asg.orig # None]
        BY DEF FailStaged, Error, Down
    <2>2. ASSUME NEW x, writer' = [op |-> "finish", rec |-> x] PROVE writer'.op = "finish"
        BY <2>2
    <2> QED
        BY <1>4, <1>5, <2>1, <2>2
<1>7. asg'.digest = asg.digest /\ asg'.rec = asg.rec /\ asg'.state = asg.state
    BY <1>2, <1>6 DEF Assignments
<1>8. Inherits(asg') /\ (disk # None => Inherits(disk))
    BY <1>2, <1>7 DEF Inherits
<1> QED
    BY <1>1, <1>3, <1>6, <1>8, AllInherit

LEMMA QuarantineAssign == ASSUME Core, OpenOK, Quarantine PROVE AssignStep
<1>1. Free /\ Accepts
    BY DEF Quarantine
<1>2. asg \in Assignments /\ asg # None
    BY <1>1, AcceptsIs DEF Accepts, Standing
<1>3. torn => torn'
    BY QuarantineStep DEF StorePart, LedgerStep
<1>4. PICK r : r = Written(4, "cleanup-failed").rec
    OBVIOUS
<1>5. PICK q : q = [asg EXCEPT !.state = "quarantined", !.rec = r]
    OBVIOUS
<1>6. writer' = None /\ ((asg' = q /\ disk' = q) \/ UNCHANGED <<asg, disk>>)
    BY <1>4, <1>5 DEF Quarantine, Break, Error, Down
<1>7. q.digest = asg.digest /\ q.state # "confirmed"
    BY <1>2, <1>5 DEF Assignments
<1>8. Inherits(q)
    BY <1>2, <1>7 DEF Inherits
<1>9. CASE asg' = q /\ disk' = q
    BY <1>3, <1>6, <1>8, <1>9, AllInherit
<1>10. CASE UNCHANGED <<asg, disk>>
    BY <1>3, <1>6, <1>10, SameInherit
<1> QED
    BY <1>6, <1>9, <1>10

LEMMA CompletionAssign == ASSUME Core, OpenOK, CompletionStaged PROVE AssignStep
<1>1. Free /\ Accepts /\ disk' = disk /\ torn' = torn
    BY DEF CompletionStaged, Completing
<1>2. asg \in Assignments /\ disk \in Assignments /\ asg # None
    BY <1>1, AcceptsIs DEF Accepts, Standing
<1>3. PICK r : r = ledger.rec
    OBVIOUS
<1>4. /\ asg' = asg \/ asg' = [asg EXCEPT !.finishing = TRUE, !.orig = r]
      /\ writer' = None \/ writer'.op = "finish"
    <2>1. PICK x : x = Record(Outcome, merged(ledger.events, sanitized(ledger.events, Complete)))
        OBVIOUS
    <2>2. \/ /\ writer' = [op |-> "finish", rec |-> x]
             /\ asg' = [asg EXCEPT !.finishing = TRUE, !.orig = r]
          \/ writer' = None /\ asg' = asg
        BY <1>3, <2>1 DEF CompletionStaged, Error, Down
    <2>3. ASSUME writer' = [op |-> "finish", rec |-> x] PROVE writer'.op = "finish"
        BY <2>3
    <2> QED
        BY <2>2, <2>3
<1>5. asg'.digest = asg.digest /\ asg'.rec = asg.rec /\ asg'.state = asg.state
    BY <1>2, <1>4 DEF Assignments
<1>6. Inherits(asg') /\ (disk # None => Inherits(disk))
    BY <1>2, <1>5 DEF Inherits
<1> QED
    BY <1>1, <1>4, <1>6, AllInherit

LEMMA FinishAssign == ASSUME Core, OpenOK, Finish PROVE AssignStep
<1>1. /\ writer' = None /\ torn' = torn /\ asg \in Assignments /\ disk \in Assignments
      /\ disk'.digest = disk.digest /\ disk.state = "confirmed" /\ asg.state = "confirmed"
    BY FinishIs
<1>2. asg # None /\ disk # None
    BY <1>1, NoneAssumption
<1>3. \/ disk'.state = "completed" /\ asg' = None
      \/ disk' = disk /\ asg'.rec = asg.rec /\ asg'.digest = asg.digest
      \/ asg'.state = disk'.state /\ asg'.state \in {"finishing", "quarantined"} /\ asg'.digest = asg.digest
    BY FinishIs
<1>4. Inherits(disk')
    BY <1>1, <1>2, <1>3 DEF Inherits
<1>5. asg' = None \/ Inherits(asg')
    BY <1>1, <1>2, <1>3 DEF Inherits
<1> QED
    BY <1>1, <1>4, <1>5, AllInherit

LEMMA ResumedAssign == ASSUME Core, OpenOK, CompletionResumed PROVE AssignStep
<1>1. mode = "agent" /\ writer' = None /\ torn' = torn
    BY CompletionResumedStep DEF CompletionResumed
<1>2. disk \in Assignments /\ disk # None
    BY <1>1, NoneAssumption DEF Core, StoreOK
<1>3. \/ asg' = None /\ disk'.digest = disk.digest /\ disk'.state = "completed"
      \/ UNCHANGED <<asg, disk>>
    BY CompletionResumedStep
<1>4. CASE UNCHANGED <<asg, disk>>
    BY <1>1, <1>4, SameInherit
<1>5. CASE asg' = None /\ disk'.digest = disk.digest /\ disk'.state = "completed"
    <2>1. Inherits(disk')
        BY <1>2, <1>5 DEF Inherits
    <2> QED
        BY <1>1, <1>5, <2>1, AllInherit
<1> QED
    BY <1>3, <1>4, <1>5

LEMMA RestartAssign == ASSUME Core, OpenOK, Restart PROVE AssignStep
<1>1. mode = "agent" /\ disk'.digest = disk.digest
    BY RestartIs
<1>2. disk \in Assignments /\ disk # None
    BY <1>1, NoneAssumption DEF Core, StoreOK
<1>3. writer' = writer /\ torn' = torn
    BY DEF Restart
<1>4. \/ asg' = None /\ disk'.state = "completed"
      \/ disk' = disk /\ asg'.state = disk.state /\ asg'.rec = disk.rec /\ asg'.digest = disk.digest
    BY RestartIs
<1>5. Inherits(disk') /\ (asg' = None \/ Inherits(asg'))
    BY <1>1, <1>2, <1>4 DEF Inherits
<1> QED
    BY <1>3, <1>5, AllInherit

\* Every request keeps the assignments.
LEMMA RequestAssign == ASSUME Core, OpenOK, RequestStep PROVE AssignStep
<1>1. ASSUME \/ \E m \in sent : CheckpointRepeated(m) \/ CheckpointRefused(m)
             \/ FailRefused \/ QuarantineRefused \/ CompletionRefused
             \/ SnapshotFails \/ AgentStops \/ LeaseExpires \/ Crash
      PROVE  AssignStep
    <2>1. UNCHANGED <<asg, disk, torn>> /\ (writer' = None \/ writer' = writer)
        BY <1>1 DEF CheckpointRepeated, CheckpointRefused, FailRefused, QuarantineRefused, CompletionRefused,
           SnapshotFails, AgentStops, LeaseExpires, Crash, Down, storeVars
    <2> QED
        BY <2>1, SameInherit
<1> QED
    BY <1>1, MergedAssign, SavedAssign, FailAssign, QuarantineAssign, CompletionAssign, FinishAssign,
       ResumedAssign, RestartAssign DEF RequestStep

-----------------------------------------------------------------------------
(* The end of a Run: no event comes after it.                               *)

\* The Run has ended: nothing is written to its events any more.
Settled == \/ mode = "local" /\ Terminal(ledger.rec)
           \/ mode = "agent" /\ disk.state \in {"completed", "quarantined"}

\* A local Run is finalised with its whole events file in the ledger.
LocalEnd == mode = "local" /\ Terminal(ledger.rec) => Closed(transient) /\ Final(ledger.events) = Len(transient)

\* A follower that has read a terminal record reads the events of a Run that has
\* ended, and one that was told of the end has the last of them.
FollowerEnd ==
    /\ reader.pc = "events" /\ ~torn /\ Terminal(reader.snap) => Settled
    /\ reader.pc = "ended" /\ ~torn => Settled /\ Final(ledger.events) <= reader.cursor

\* An end that was announced stays one through a step that sends nothing.
LEMMA QuietEnd ==
    ASSUME FollowerEnd, ReaderQuiet, torn => torn', Settled => Settled' /\ (torn' \/ ledger'.events = ledger.events)
    PROVE  FollowerEnd'
<1>1. reader'.cursor = reader.cursor /\ (reader'.pc = "idle" \/ (reader'.pc = reader.pc /\ reader'.snap = reader.snap))
    BY DEF ReaderQuiet
<1>2. ASSUME reader'.pc = "events", ~torn', Terminal(reader'.snap) PROVE Settled'
    <2>1. reader.pc = "events" /\ Terminal(reader.snap)
        BY <1>1, <1>2
    <2> QED
        BY <1>2, <2>1 DEF FollowerEnd
<1>3. ASSUME reader'.pc = "ended", ~torn' PROVE Settled' /\ Final(ledger'.events) <= reader'.cursor
    <2>1. reader.pc = "ended"
        BY <1>1, <1>3
    <2> QED
        BY <1>1, <1>3, <2>1 DEF FollowerEnd
<1> QED
    BY <1>2, <1>3 DEF FollowerEnd, Terminal

\* An assignment that has ended accepts nothing, and no request still writes.
LEMMA SettledRefuses ==
    ASSUME Core, mode = "agent", disk.state \in {"completed", "quarantined"}
    PROVE  ~Accepts /\ ~Standing("finishing") /\ writer = None
<1>1. (asg = None /\ disk.state = "completed") \/ (asg \in Assignments /\ asg.state = disk.state)
    BY DEF Core, StoreOK
<1>2. ~Accepts /\ ~Standing("finishing")
    BY <1>1 DEF Accepts, Standing
<1>3. writer # None => asg \in Assignments /\ asg.state = "confirmed"
    BY DEF Core, WriterOK
<1>4. writer = None
    BY <1>1, <1>3, NoneAssumption
<1> QED
    BY <1>2, <1>4

\* No request writes events of a Run that has ended.
LEMMA RequestSettled ==
    ASSUME Core, RequestStep, mode = "agent", disk.state \in {"completed", "quarantined"}
    PROVE  ledger'.events = ledger.events /\ disk'.state \in {"completed", "quarantined"}
<1>1. ~Accepts /\ ~Standing("finishing") /\ writer = None
    BY SettledRefuses
<1>2. CASE Restart
    BY <1>2, RestartIs
<1>3. CASE \/ \E m \in sent : CheckpointRepeated(m) \/ CheckpointRefused(m)
           \/ FailRefused \/ QuarantineRefused \/ CompletionRefused
           \/ SnapshotFails \/ AgentStops \/ LeaseExpires \/ Crash
    <2>1. UNCHANGED storeVars
        BY <1>3 DEF CheckpointRepeated, CheckpointRefused, FailRefused, QuarantineRefused, CompletionRefused,
           SnapshotFails, AgentStops, LeaseExpires, Crash
    <2> QED
        BY <2>1 DEF storeVars
<1>4. ~\/ \E m \in sent : CheckpointMerged(m)
       \/ CheckpointSaved \/ FailStaged \/ Quarantine \/ CompletionStaged \/ CompletionResumed \/ Finish
    BY <1>1 DEF CheckpointMerged, NextCheckpoint, CheckpointSaved, FailStaged, Quarantine, CompletionStaged,
       CompletionResumed, Finish
<1> QED
    BY <1>2, <1>3, <1>4 DEF RequestStep

\* The requests keep what is claimed of the end.
LEMMA RequestEnd ==
    ASSUME Core, FollowerEnd, RequestStep
    PROVE  FollowerEnd' /\ LocalEnd'
<1>1. mode = "agent" /\ AgentPart /\ StorePart
    BY RequestParts
<1>2. mode' = "agent"
    BY <1>1 DEF AgentPart
<1>3. Settled => Settled' /\ ledger'.events = ledger.events
    BY <1>1, <1>2, RequestSettled DEF Settled
<1>4. FollowerEnd'
    BY <1>1, <1>3, QuietEnd DEF StorePart, LedgerStep
<1> QED
    BY <1>2, <1>4 DEF LocalEnd

\* A local Run.
LEMMA LocalRecordsEnd ==
    ASSUME Core, LocalOK, LocalEnd, FollowerEnd, LocalRecords
    PROVE  FollowerEnd' /\ LocalEnd'
<1>1. /\ mode = "local" /\ ~Closed(transient) /\ ReaderQuiet
      /\ UNCHANGED <<mode, ledger, torn>>
    BY LocalRecordsStep DEF LocalRecords, StorePart
<1>2. ~Terminal(ledger.rec)
    BY <1>1 DEF LocalEnd
<1>3. ~Settled /\ ~Settled' /\ LocalEnd'
    BY <1>1, <1>2 DEF Settled, LocalEnd
<1> QED
    BY <1>1, <1>3, QuietEnd

\* The record of a local Run becomes terminal with its whole file in the ledger.
LEMMA LocalFinalizesEnd ==
    ASSUME Core, LocalOK, LocalEnd, FollowerEnd, LocalFinalizes
    PROVE  FollowerEnd' /\ LocalEnd'
<1>1. /\ StorePart /\ mode = "local" /\ ~Terminal(ledger.rec)
      /\ Closed(transient) /\ UNCHANGED <<transient, torn>>
      /\ \/ ledger'.rec = ledger.rec
         \/ ledger'.events = Synced(transient)
    BY LocalFinalizesStep
<1>2. mode' = mode /\ ReaderQuiet
    BY <1>1 DEF LocalFinalizes, StorePart
<1>3. FollowerEnd'
    BY <1>1, <1>2, QuietEnd DEF Settled
<1>4. transient \in Histories /\ CopyOf(ledger.events, transient, LedgerMax)
    BY <1>1 DEF Core, Files, LocalOK
<1>5. PICK t : t = Synced(transient)
    OBVIOUS
<1>6. Final(t) = Len(transient)
    BY <1>4, <1>5, SyncGrows
<1>7. LocalEnd'
    BY <1>1, <1>5, <1>6 DEF LocalEnd, Closed
<1> QED
    BY <1>3, <1>7

\* A late refresh of a Run that has ended finds nothing newer.
LEMMA RefreshEnd ==
    ASSUME Core, LocalOK, LocalEnd, FollowerEnd, Refresh
    PROVE  FollowerEnd' /\ LocalEnd'
<1>1. /\ StorePart /\ mode = "local" /\ UNCHANGED <<transient, torn>>
      /\ ledger'.events \in {ledger.events, Synced(transient)}
      /\ ledger'.rec.state = ledger.rec.state
    BY RefreshStep
<1>2. mode' = mode /\ ReaderQuiet
    BY <1>1 DEF Refresh, StorePart
<1>3. transient \in Histories /\ CopyOf(ledger.events, transient, LedgerMax)
    BY <1>1 DEF Core, Files, LocalOK
<1>4. PICK t : t = Synced(transient)
    OBVIOUS
<1>5. Final(ledger.events) = Len(transient) => t = ledger.events
    BY <1>3, <1>4, SyncGrows
<1>6. Terminal(ledger'.rec) <=> Terminal(ledger.rec)
    BY <1>1 DEF Terminal
<1>7. Terminal(ledger.rec) => Closed(transient) /\ Final(ledger.events) = Len(transient)
    BY <1>1 DEF LocalEnd
<1>8. Terminal(ledger.rec) => ledger'.events = ledger.events
    BY <1>1, <1>4, <1>5, <1>7
<1>9. Settled => Settled' /\ ledger'.events = ledger.events
    BY <1>1, <1>2, <1>6, <1>8 DEF Settled
<1>10. FollowerEnd'
    BY <1>1, <1>2, <1>9, QuietEnd
<1>11. LocalEnd'
    BY <1>1, <1>2, <1>6, <1>7, <1>8 DEF LocalEnd, Closed
<1> QED
    BY <1>10, <1>11

\* The follower.
LEMMA PollEnd ==
    ASSUME Core, OpenOK, LocalEnd, FollowerEnd, Poll
    PROVE  FollowerEnd' /\ LocalEnd'
<1>1. /\ UNCHANGED <<storeVars, torn>> /\ mode' = mode
      /\ reader'.pc = "events" /\ reader'.snap = Visible
    BY PollStep DEF AgentPart
<1>2. UNCHANGED <<asg, disk, transient, ledger>>
    BY <1>1 DEF storeVars
<1>3. ASSUME ~torn, Terminal(Visible) PROVE Settled
    <2>1. CASE mode = "local"
        <3>1. asg = None
            BY <2>1 DEF Core, StoreOK
        <3> QED
            BY <1>3, <2>1, <3>1 DEF Visible, Settled
    <2>2. CASE mode = "agent"
        <3>1. (asg = None /\ disk.state = "completed") \/ (asg \in Assignments /\ asg.state = disk.state)
            BY <2>2 DEF Core, StoreOK
        <3>2. CASE asg = None /\ disk.state = "completed"
            BY <2>2, <3>2 DEF Settled
        <3>3. CASE asg \in Assignments /\ asg.state = disk.state
            <4>1. asg # None /\ asg.state \in {"confirmed", "finishing", "quarantined", "completed"}
                BY <3>3, NoneAssumption DEF Assignments
            <4>2. asg.state # "confirmed"
                BY <1>3, <4>1 DEF OpenOK, Visible
            <4>3. asg.state # "finishing"
                <5>1. SUFFICES ASSUME asg.state = "finishing" PROVE FALSE
                    OBVIOUS
                <5>2. PICK r \in Records : r = asg.rec
                    BY <3>3, AssignmentHas
                <5>3. Visible = [r EXCEPT !.state = "finishing"]
                    BY <4>1, <5>1, <5>2 DEF Visible
                <5>4. Visible.state = "finishing"
                    BY <5>3 DEF Records
                <5> QED
                    BY <1>3, <5>4 DEF Terminal
            <4> QED
                BY <2>2, <3>3, <4>1, <4>2, <4>3 DEF Settled
        <3> QED
            BY <3>1, <3>2, <3>3
    <2> QED
        BY <2>1, <2>2, ModesAssumption DEF Core, Basics
<1>4. Settled => Settled'
    BY <1>1, <1>2 DEF Settled
<1>5. FollowerEnd'
    BY <1>1, <1>3, <1>4 DEF FollowerEnd, Terminal
<1> QED
    BY <1>1, <1>2, <1>5 DEF LocalEnd, Closed

\* The last event of a stream is never omitted.
LEMMA LastIsThere ==
    ASSUME NEW s, NEW max, Bounded(s, max)
    PROVE  /\ \E e \in Entries(s) : e.last = Final(s)
           /\ \A e \in Entries(s) : e.last \in Nat /\ e.last <= Final(s)
<1>1. PICK l \in Histories : \E g \in Cuts(l) : s = Stream(l, g)
    BY DEF Bounded
<1>2. PICK g \in Cuts(l) : s = Stream(l, g)
    BY <1>1
<1>3. /\ Len(l) \in Nat /\ 2 <= Len(l) /\ g \in Nat /\ 1 <= g /\ g < Len(l)
    BY HistoryIs
<1>4. /\ \A e : e \in Entries(s) <=> e \in {Event(n, l[n]) : n \in Shown(l, g)} \/ (g # 1 /\ e = Gap(g))
      /\ Final(s) = Len(l)
    BY <1>2, ContentIs
<1>5. Len(l) \in Shown(l, g) /\ \A n \in Shown(l, g) : n \in Nat /\ n <= Len(l)
    BY <1>3 DEF Shown
<1>6. \E e \in Entries(s) : e.last = Final(s)
    <2>1. Event(Len(l), l[Len(l)]) \in Entries(s)
        BY <1>4, <1>5
    <2>2. Event(Len(l), l[Len(l)]).last = Final(s)
        BY <1>4, EntryIs
    <2> QED
        BY <2>1, <2>2
<1>7. ASSUME NEW e \in Entries(s) PROVE e.last \in Nat /\ e.last <= Final(s)
    <2>1. CASE e \in {Event(n, l[n]) : n \in Shown(l, g)}
        <3>1. PICK n \in Shown(l, g) : e = Event(n, l[n])
            BY <2>1
        <3>2. e.last = n
            BY <3>1, EntryIs
        <3> QED
            BY <1>4, <1>5, <3>2
    <2>2. CASE g # 1 /\ e = Gap(g)
        <3>1. e.last = g
            BY <2>2, EntryIs
        <3> QED
            BY <1>3, <1>4, <3>1
    <2> QED
        BY <1>4, <2>1, <2>2
<1> QED
    BY <1>6, <1>7

\* The end is announced with the last entry of the batch.
LEMMA EmitEnd ==
    ASSUME Core, LocalEnd, FollowerEnd, Emit
    PROVE  FollowerEnd' /\ LocalEnd'
<1>1. /\ reader.pc = "events" /\ reader' \in Readers
      /\ UNCHANGED <<mode, storeVars, torn>>
    BY EmitIs
<1>2. UNCHANGED <<mode, asg, disk, transient, ledger, torn>>
    BY <1>1 DEF storeVars
<1>3. PICK n \in Cursors :
        /\ n \in Nat /\ reader'.cursor = n
        /\ \/ reader'.pc = "idle"
           \/ reader'.pc = "ended" /\ Terminal(reader.snap) /\ \A c \in Cursors : c <= n
    BY EmitIs
<1>4. ASSUME reader'.pc = "ended", ~torn' PROVE Settled' /\ Final(ledger'.events) <= reader'.cursor
    <2>1. Terminal(reader.snap) /\ \A c \in Cursors : c <= n
        BY <1>3, <1>4
    <2>2. Settled
        BY <1>1, <1>2, <1>4, <2>1 DEF FollowerEnd
    <2>3. Settled'
        BY <1>2, <2>2 DEF Settled
    <2>4. Bounded(ledger.events, LedgerMax)
        BY DEF Core, LedgerOK
    <2>5. PICK e \in Entries(ledger.events) : e.last = Final(ledger.events)
        BY <2>4, LastIsThere
    <2>6. e.last \in Nat /\ reader.cursor \in Nat
        BY <2>4, LastIsThere DEF Core, ReaderOK, Readers
    <2>7. e.last \in Cursors \/ e.last <= reader.cursor
        BY <2>6 DEF Cursors, Batch
    <2>8. reader.cursor <= n
        BY <2>1 DEF Cursors
    <2>9. e.last <= n
        BY <1>3, <2>1, <2>6, <2>7, <2>8
    <2> QED
        BY <1>2, <1>3, <2>3, <2>5, <2>9
<1>5. FollowerEnd'
    BY <1>3, <1>4 DEF FollowerEnd, Terminal
<1> QED
    BY <1>2, <1>5 DEF LocalEnd, Closed

\* At the start no record is terminal.
LEMMA InitEnd == ASSUME Init PROVE OpenOK /\ LocalEnd /\ FollowerEnd
<1>1. PICK r : r = Record("submitted", Numbered(Prefix))
    OBVIOUS
<1>2. ~Terminal(r)
    BY <1>1 DEF Record, Terminal
<1>3. ledger.rec = r
    BY <1>1 DEF Init
<1>4. PICK a : a = [state |-> "confirmed", rec |-> r, n |-> 0, digest |-> None, finishing |-> FALSE, orig |-> None]
    OBVIOUS
<1>5. asg \in {None, a} /\ disk \in {None, a} /\ a.rec = r
    BY <1>3, <1>4 DEF Init
<1>6. writer = None /\ reader.pc = "idle"
    BY DEF Init
<1>7. OpenOK
    BY <1>2, <1>5, <1>6 DEF OpenOK
<1> QED
    BY <1>2, <1>3, <1>6, <1>7 DEF LocalEnd, FollowerEnd

\* The steps that leave the assignments alone.
LEMMA OtherAssign ==
    ASSUME Core, OpenOK, \/ AgentRecords \/ BuildsCheckpoint \/ LocalRecords \/ LocalFinalizes
                         \/ Refresh \/ Poll \/ Emit \/ UNCHANGED vars
    PROVE  AssignStep
<1>1. UNCHANGED <<asg, disk, writer, torn>>
    BY DEF AgentRecords, BuildsCheckpoint, LocalRecords, LocalFinalizes, Refresh, Poll, Emit, vars, storeVars
<1> QED
    BY <1>1, SameInherit

\* Every step keeps the assignments.
LEMMA EarlyAssign == ASSUME Core, EarlyOK, OpenOK, EarlyReads \/ EarlySaves PROVE AssignStep
<1>1. UNCHANGED <<asg, disk>> /\ writer' \in {None, writer} /\ (torn => torn')
    <2>1. CASE EarlyReads
        BY <2>1, EarlyReadsStep DEF storeVars
    <2>2. CASE EarlySaves
        BY <2>2, EarlySavesStep DEF StorePart, LedgerStep
    <2> QED
        BY <2>1, <2>2
<1> QED
    BY <1>1, SameInherit

LEMMA NextAssign == ASSUME Core, EarlyOK, OpenOK, [Next]_vars PROVE AssignStep
    BY RequestAssign, OtherAssign, EarlyAssign, NextIs

Ended == Streams /\ OpenOK /\ LocalEnd /\ FollowerEnd

\* The Agent's own steps, and those that do nothing.
LEMMA OtherEnd ==
    ASSUME Core, LocalEnd, FollowerEnd, AgentRecords \/ BuildsCheckpoint \/ UNCHANGED vars
    PROVE  LocalEnd' /\ FollowerEnd'
<1>1. UNCHANGED <<mode, storeVars, reader, early, torn>>
    BY DEF AgentRecords, BuildsCheckpoint, vars
<1>2. UNCHANGED <<mode, disk, transient, ledger, reader, early, torn>>
    BY <1>1 DEF storeVars
<1>3. Settled => Settled'
    BY <1>2 DEF Settled
<1> QED
    BY <1>2, <1>3 DEF LocalEnd, FollowerEnd, Closed, Terminal

\* A refresh that replaces events has marked the Run torn.
LEMMA EarlyEnd ==
    ASSUME Core, EarlyOK, FollowerEnd, EarlyReads \/ EarlySaves
    PROVE  LocalEnd' /\ FollowerEnd'
<1>1. CASE EarlySaves
    <2>1. AgentPart /\ StorePart /\ mode = "agent" /\ disk' = disk /\ (torn' \/ ledger'.events = ledger.events)
        BY <1>1, EarlySavesStep
    <2>2. mode' = "agent"
        BY <2>1 DEF AgentPart
    <2>3. Settled => Settled' /\ (torn' \/ ledger'.events = ledger.events)
        BY <2>1, <2>2 DEF Settled
    <2> QED
        BY <2>1, <2>2, <2>3, QuietEnd DEF StorePart, LedgerStep, LocalEnd
<1>2. CASE EarlyReads
    <2>1. UNCHANGED <<mode, disk, transient, ledger, reader, torn>>
        BY <1>2, EarlyReadsStep DEF storeVars
    <2>2. mode = "agent"
        BY <1>2 DEF EarlyReads, EarlyOK
    <2>3. Settled => Settled'
        BY <2>1, <2>2 DEF Settled
    <2> QED
        BY <2>1, <2>2, <2>3 DEF LocalEnd, FollowerEnd, Terminal
<1> QED
    BY <1>1, <1>2

\* Every step keeps what is claimed of the end.
LEMMA NextEnd == ASSUME Ended, [Next]_vars PROVE Ended'
<1>1. Streams /\ Core /\ LocalOK /\ EarlyOK /\ OpenOK /\ LocalEnd /\ FollowerEnd
    BY DEF Ended, Streams
<1>2. Streams'
    BY <1>1, NextStreams
<1>3. OpenOK'
    BY <1>1, NextAssign DEF AssignStep
<1>4. LocalEnd' /\ FollowerEnd'
    BY <1>1, RequestEnd, OtherEnd, LocalRecordsEnd, LocalFinalizesEnd, RefreshEnd, PollEnd, EmitEnd, EarlyEnd, NextIs
<1> QED
    BY <1>2, <1>3, <1>4 DEF Ended

\* The visible record of a Run that goes on is not terminal, and behind a terminal
\* one that a follower has read the Run has ended: nothing is accepted for it any
\* more, and no request still writes.
THEOREM EndInvariant == Spec => []Ended
<1>1. Init => Ended
    BY InitStreams, InitEnd DEF Ended
<1>2. Ended /\ [Next]_vars => Ended'
    BY NextEnd
<1> QED
    BY <1>1, <1>2, PTL DEF Spec

\* serveControlPlaneEventStream announces the end of a stream only after the last
\* event that the Run's history will ever have, although it reads the record and
\* the events at different times.
THEOREM EndComplete == Spec => []EndIsComplete
<1>1. Ended => EndIsComplete
    <2>1. SUFFICES ASSUME Ended, reader.pc = "ended", ~torn, NEW e \in Entries(ledger.events)
                   PROVE  e.last <= reader.cursor
        BY DEF EndIsComplete
    <2>2. Bounded(ledger.events, LedgerMax) /\ reader.cursor \in Nat
        BY <2>1 DEF Ended, Streams, Core, LedgerOK, ReaderOK, Readers
    <2>3. Final(ledger.events) <= reader.cursor
        BY <2>1 DEF Ended, FollowerEnd
    <2>4. e.last \in Nat /\ e.last <= Final(ledger.events) /\ Final(ledger.events) \in Nat
        BY <2>1, <2>2, LastIsThere, BoundedIs
    <2> QED
        BY <2>2, <2>3, <2>4
<1> QED
    BY <1>1, EndInvariant, PTL

-----------------------------------------------------------------------------
(* What was acknowledged or sent to a follower.                             *)

\* The follower has what the ledger has up to its cursor, and was told of what
\* it has not; the ledger still says what it was sent.
Delivered ==
    ~torn =>
    /\ reader.cursor <= Final(ledger.events)
    /\ \A e \in reader.got : IsEvent(e) => In(e, ledger.events)
    /\ \A e \in Entries(ledger.events) : IsEvent(e) /\ e.seq <= reader.cursor => e \in reader.got
    /\ \A n \in 1..reader.cursor : \E e \in reader.got : e.seq <= n /\ n <= e.last

\* The ledger still says what was acknowledged.
Covered ==
    ~torn => \A a \in {asg, disk} \ {None} : a.digest # None =>
               \A i \in DOMAIN a.digest : IsEvent(a.digest[i]) => In(a.digest[i], ledger.events)

Told == Delivered /\ Covered

\* A stream leaves no number out: what it does not have its gap covers, and its
\* entries are in order.
LEMMA CoverageIs ==
    ASSUME NEW s, NEW max, Bounded(s, max)
    PROVE  /\ \A e \in Entries(s) : e \in Items /\ (IsEvent(e) => e.seq = e.last) /\ In(e, s)
           /\ \A e \in Entries(s) : \A k \in 1..e.last :
                \E f \in Entries(s) : f.seq <= k /\ k <= f.last /\ f.last <= e.last
<1>1. PICK l \in Histories : \E g \in Cuts(l) : s = Stream(l, g)
    BY DEF Bounded
<1>2. PICK g \in Cuts(l) : s = Stream(l, g)
    BY <1>1
<1>3. /\ Len(l) \in Nat /\ 2 <= Len(l) /\ g \in Nat /\ 1 <= g /\ g < Len(l)
      /\ \A n \in 1..Len(l) : l[n] \in Kinds
    BY HistoryIs
<1>4. \A e : e \in Entries(s) <=> e \in {Event(n, l[n]) : n \in Shown(l, g)} \/ (g # 1 /\ e = Gap(g))
    BY <1>2, ContentIs
<1>5. \A n \in Shown(l, g) : n \in 1..Len(l) /\ n \in Nat
    BY <1>3 DEF Shown
<1>6. ASSUME NEW e \in Entries(s)
      PROVE  \/ \E n \in Shown(l, g) : e = Event(n, l[n]) /\ e.seq = n /\ e.last = n /\ e \in Items
             \/ g # 1 /\ e = Gap(g) /\ e.last = g /\ ~IsEvent(e) /\ e \in Items
    <2>1. CASE e \in {Event(n, l[n]) : n \in Shown(l, g)}
        <3>1. PICK n \in Shown(l, g) : e = Event(n, l[n])
            BY <2>1
        <3>2. e.seq = n /\ e.last = n
            BY <3>1, EntryIs
        <3>3. e \in Items
            BY <1>3, <1>5, <3>1, EntryIs
        <3> QED
            BY <3>1, <3>2, <3>3
    <2>2. CASE g # 1 /\ e = Gap(g)
        BY <1>3, <2>2, EntryIs
    <2> QED
        BY <1>4, <2>1, <2>2
<1>7. \A e \in Entries(s) : In(e, s)
    BY DEF Entries, In
<1>8. ASSUME NEW e \in Entries(s), NEW k \in 1..e.last
      PROVE  \E f \in Entries(s) : f.seq <= k /\ k <= f.last /\ f.last <= e.last
    <2>1. e.last \in Nat /\ (e.last = 1 \/ g <= e.last) /\ e.last <= Len(l)
        <3>1. \A n \in Shown(l, g) : n = 1 \/ g <= n
            BY <1>3 DEF Shown
        <3> QED
            BY <1>3, <1>5, <1>6, <3>1
    <2>2. k \in Nat /\ 1 <= k /\ k <= e.last
        BY <2>1
    <2>3. CASE k \in Shown(l, g)
        <3>1. PICK f : f = Event(k, l[k])
            OBVIOUS
        <3>2. f \in Entries(s) /\ f.seq = k /\ f.last = k
            BY <1>4, <2>3, <3>1, EntryIs
        <3> QED
            BY <2>2, <3>2
    <2>4. CASE k \notin Shown(l, g)
        <3>1. 2 <= k /\ k <= g /\ g # 1
            BY <1>3, <2>1, <2>2, <2>4 DEF Shown
        <3>2. PICK f : f = Gap(g)
            OBVIOUS
        <3>3. f \in Entries(s) /\ f.seq = 2 /\ f.last = g
            BY <1>4, <3>1, <3>2, EntryIs
        <3>4. g <= e.last
            BY <1>3, <2>1, <2>2, <3>1
        <3> QED
            BY <3>1, <3>3, <3>4
    <2> QED
        BY <2>3, <2>4
<1> QED
    BY <1>6, <1>7, <1>8

\* Whatever is written, what was delivered and acknowledged is still covered.
LEMMA QuietTold ==
    ASSUME Core, Delivered, ReaderQuiet, LedgerStep
    PROVE  Delivered'
<1>1. SUFFICES ASSUME ~torn' PROVE
        /\ reader'.cursor <= Final(ledger'.events)
        /\ \A e \in reader'.got : IsEvent(e) => In(e, ledger'.events)
        /\ \A e \in Entries(ledger'.events) : IsEvent(e) /\ e.seq <= reader'.cursor => e \in reader'.got
        /\ \A n \in 1..reader'.cursor : \E e \in reader'.got : e.seq <= n /\ n <= e.last
    BY DEF Delivered
<1>2. PICK s : s = ledger.events
    OBVIOUS
<1>3. PICK t : t = ledger'.events
    OBVIOUS
<1>4. ~torn /\ Grows(s, t) /\ Bounded(t, LedgerMax)
    BY <1>1, <1>2, <1>3 DEF LedgerStep
<1>5. reader'.cursor = reader.cursor /\ reader'.got = reader.got /\ reader.cursor \in Nat /\ reader.got \subseteq Items
    BY DEF ReaderQuiet, Core, ReaderOK, Readers
<1>6. /\ reader.cursor <= Final(s)
      /\ \A e \in reader.got : IsEvent(e) => In(e, s)
      /\ \A e \in Entries(s) : IsEvent(e) /\ e.seq <= reader.cursor => e \in reader.got
      /\ \A n \in 1..reader.cursor : \E e \in reader.got : e.seq <= n /\ n <= e.last
    BY <1>2, <1>4 DEF Delivered
<1>7. /\ Final(s) \in Nat /\ Final(t) \in Nat /\ Final(s) <= Final(t)
      /\ \A e \in Items : IsEvent(e) /\ In(e, s) => In(e, t)
      /\ \A e \in Entries(t) : IsEvent(e) /\ e.seq <= Final(s) => e \in Entries(s)
    BY <1>4, GrowsIs
<1>8. reader.cursor <= Final(t)
    BY <1>5, <1>6, <1>7
<1>9. \A e \in reader.got : IsEvent(e) => In(e, t)
    BY <1>5, <1>6, <1>7
<1>10. ASSUME NEW e \in Entries(t), IsEvent(e), e.seq <= reader.cursor PROVE e \in reader.got
    <2>1. e.seq \in Nat
        BY <1>4, CoverageIs DEF Items
    <2>2. e.seq <= Final(s)
        BY <1>5, <1>6, <1>7, <1>10, <2>1
    <2> QED
        BY <1>6, <1>7, <1>10, <2>2
<1> QED
    BY <1>3, <1>5, <1>6, <1>8, <1>9, <1>10

\* What was acknowledged is the ledger's when it is, and kept from then on.
LEMMA QuietCovered ==
    ASSUME Core, Covered, Acknowledged, LedgerStep
    PROVE  Covered'
<1>1. SUFFICES ASSUME ~torn', NEW b \in {asg', disk'} \ {None}, b.digest # None,
                      NEW i \in DOMAIN b.digest, IsEvent(b.digest[i])
               PROVE  In(b.digest[i], ledger'.events)
    BY DEF Covered
<1>2. PICK d : d = b.digest
    OBVIOUS
<1>3. CASE d = ledger'.events
    BY <1>1, <1>2, <1>3 DEF In
<1>4. CASE \E a \in {asg, disk} \ {None} : d = a.digest
    <2>1. PICK a \in {asg, disk} \ {None} : d = a.digest
        BY <1>4
    <2>2. a \in Assignments
        BY ModesAssumption DEF Core, Basics, StoreOK
    <2>3. d \in Seq(Items)
        BY <1>1, <1>2, <2>1, <2>2 DEF Assignments
    <2>4. d[i] \in Items
        BY <1>1, <1>2, <2>3, ElementOfSeq, LenProperties
    <2>5. ~torn /\ Grows(ledger.events, ledger'.events)
        BY <1>1 DEF LedgerStep
    <2>6. In(d[i], ledger.events)
        BY <1>1, <1>2, <2>1, <2>5 DEF Covered
    <2>7. In(d[i], ledger'.events)
        BY <1>1, <1>2, <2>4, <2>5, <2>6, GrowsIs
    <2> QED
        BY <1>2, <2>7
<1> QED
    BY <1>1, <1>2, <1>3, <1>4 DEF Acknowledged

\* A batch, or the part of it that arrived.
LEMMA EmitTold == ASSUME Core, Delivered, Emit PROVE Delivered'
<1>1. UNCHANGED <<storeVars, torn>>
    BY EmitIs
<1>2. PICK n \in Cursors : n \in Nat /\ reader'.cursor = n /\ reader'.got = reader.got \cup {e \in Batch : e.last <= n}
    BY EmitIs
<1>3. PICK s : s = ledger.events
    OBVIOUS
<1>4. ledger'.events = s /\ Bounded(s, LedgerMax)
    BY <1>1, <1>3 DEF storeVars, Core, LedgerOK
<1>5. PICK c \in Nat : c = reader.cursor
    BY DEF Core, ReaderOK, Readers
<1>6. SUFFICES ASSUME ~torn PROVE
        /\ n <= Final(s)
        /\ \A e \in reader'.got : IsEvent(e) => In(e, s)
        /\ \A e \in Entries(s) : IsEvent(e) /\ e.seq <= n => e \in reader'.got
        /\ \A k \in 1..n : \E e \in reader'.got : e.seq <= k /\ k <= e.last
    BY <1>1, <1>2, <1>4 DEF Delivered
<1>7. /\ c <= Final(s)
      /\ \A e \in reader.got : IsEvent(e) => In(e, s)
      /\ \A e \in Entries(s) : IsEvent(e) /\ e.seq <= c => e \in reader.got
      /\ \A k \in 1..c : \E e \in reader.got : e.seq <= k /\ k <= e.last
    BY <1>3, <1>5, <1>6 DEF Delivered
<1>8. \A e : e \in Batch <=> e \in Entries(s) /\ e.last > c
    BY <1>3, <1>5 DEF Batch
<1>9. \A e \in Entries(s) : /\ e \in Items /\ e.seq \in Nat /\ e.last \in Nat /\ e.last <= Final(s)
                            /\ (IsEvent(e) => e.seq = e.last) /\ In(e, s)
    BY <1>4, CoverageIs, LastIsThere DEF Items
<1>10. n = c \/ \E e \in Entries(s) : n = e.last
    BY <1>2, <1>5, <1>8 DEF Cursors
<1>11. n <= Final(s)
    BY <1>7, <1>9, <1>10
<1>12. \A e \in reader'.got : IsEvent(e) => In(e, s)
    BY <1>2, <1>7, <1>8, <1>9
<1>13. ASSUME NEW e \in Entries(s), IsEvent(e), e.seq <= n PROVE e \in reader'.got
    <2>1. e.seq \in Nat /\ e.seq = e.last
        BY <1>9, <1>13
    <2>2. CASE e.seq <= c
        BY <1>2, <1>7, <1>13, <2>2
    <2>3. CASE e.seq > c
        <3>1. e \in Batch /\ e.last <= n
            BY <1>8, <1>13, <2>1, <2>3
        <3> QED
            BY <1>2, <3>1
    <2> QED
        BY <2>1, <2>2, <2>3
<1>14. ASSUME NEW k \in 1..n PROVE \E e \in reader'.got : e.seq <= k /\ k <= e.last
    <2>1. CASE k <= c
        BY <1>2, <1>7, <2>1
    <2>2. CASE k > c
        <3>1. PICK e \in Entries(s) : n = e.last
            BY <1>2, <1>10, <2>2
        <3>2. PICK f \in Entries(s) : f.seq <= k /\ k <= f.last /\ f.last <= e.last
            BY <1>4, <3>1, CoverageIs
        <3>3. f.last > c
            BY <1>9, <2>2, <3>2
        <3>4. f \in reader'.got
            BY <1>2, <1>8, <3>1, <3>2, <3>3
        <3> QED
            BY <3>2, <3>4
    <2> QED
        BY <2>1, <2>2
<1> QED
    BY <1>11, <1>12, <1>13, <1>14

\* At the start nothing was sent or acknowledged.
LEMMA InitTold == ASSUME Init PROVE Told
<1>1. reader.cursor = 0 /\ reader.got = {}
    BY DEF Init
<1>2. Final(ledger.events) \in Nat
    BY InitStreams, BoundedIs DEF Streams, Core, LedgerOK
<1>3. \A e \in Entries(ledger.events) : IsEvent(e) => e.seq # 0 /\ e.seq \in Nat
    <2>1. ledger.events = Numbered(Prefix) /\ Prefix \in Histories
        BY PrefixIsFirst DEF Init
    <2>2. ledger.events = Stream(Prefix, 1) /\ 1 \in Cuts(Prefix)
        BY <2>1, NumberedIs, HistoryIs
    <2>3. Actual(ledger.events) = {Event(n, Prefix[n]) : n \in Shown(Prefix, 1)}
        BY <2>1, <2>2, ContentIs
    <2>4. \A n \in Shown(Prefix, 1) : n \in Nat /\ n # 0
        BY <2>1, HistoryIs DEF Shown
    <2> QED
        BY <2>3, <2>4, EntryIs DEF Actual
<1>4. Delivered
    BY <1>1, <1>2, <1>3 DEF Delivered
<1>5. ASSUME NEW a \in {asg, disk} \ {None} PROVE a.digest = None
    BY DEF Init
<1> QED
    BY <1>4, <1>5 DEF Told, Covered

\* What a step does to ledger and follower, unless it sends events.
LEMMA NextLedger ==
    ASSUME Streams, [Next]_vars
    PROVE  LedgerStep /\ (ReaderQuiet \/ Emit \/ Poll)
<1>1. Core /\ LocalOK /\ EarlyOK
    BY DEF Streams
<1>2. CASE RequestStep
    BY <1>1, <1>2, RequestParts DEF StorePart
<1>3. CASE AgentRecords \/ BuildsCheckpoint
    BY <1>1, <1>3, AgentRecordsStep, BuildsCheckpointStep DEF StorePart
<1>4. CASE LocalRecords \/ LocalFinalizes \/ Refresh
    BY <1>1, <1>4, LocalRecordsStep, LocalFinalizesStep, RefreshStep DEF StorePart
<1>5. CASE Poll \/ Emit
    BY <1>1, <1>5, PollStep, EmitStep
<1>6. CASE UNCHANGED vars
    <2>1. UNCHANGED <<ledger, reader, early, torn>>
        BY <1>6 DEF vars, storeVars
    <2> QED
        BY <1>1, <2>1, LedgerStays DEF Core, LedgerOK, ReaderOK, ReaderQuiet
<1>7. CASE EarlyReads
    <2>1. UNCHANGED <<ledger, reader, torn>>
        BY <1>1, <1>7, EarlyReadsStep DEF storeVars
    <2> QED
        BY <1>1, <2>1, LedgerStays DEF Core, LedgerOK, ReaderOK, ReaderQuiet
<1>8. CASE EarlySaves
    BY <1>1, <1>8, EarlySavesStep DEF StorePart
<1> QED
    BY <1>2, <1>3, <1>4, <1>5, <1>6, <1>7, <1>8, NextIs

\* Every step keeps what was sent and acknowledged.
LEMMA NextTold == ASSUME Ended, Told, [Next]_vars PROVE Told'
<1>1. Streams /\ Core /\ EarlyOK /\ OpenOK /\ Delivered /\ Covered
    BY DEF Ended, Streams, Told
<1>2. LedgerStep /\ (ReaderQuiet \/ Emit \/ Poll)
    BY <1>1, NextLedger
<1>3. Covered'
    BY <1>1, <1>2, NextAssign, QuietCovered DEF AssignStep
<1>4. CASE ReaderQuiet
    BY <1>1, <1>2, <1>3, <1>4, QuietTold DEF Told
<1>5. CASE Emit
    BY <1>1, <1>3, <1>5, EmitTold DEF Told
<1>6. CASE Poll
    <2>1. UNCHANGED <<storeVars, torn>> /\ reader'.cursor = reader.cursor /\ reader'.got = reader.got
        BY <1>1, <1>6, PollStep
    <2>2. ledger' = ledger
        BY <2>1 DEF storeVars
    <2>3. Delivered'
        BY <1>1, <2>1, <2>2 DEF Delivered
    <2> QED
        BY <1>3, <2>3 DEF Told
<1> QED
    BY <1>2, <1>4, <1>5, <1>6

\* A follower has every event up to its cursor or was told of its omission, and
\* the ledger still says what it was sent and what was acknowledged.
THEOREM ToldInvariant == Spec => [](Ended /\ Told)
<1>1. Init => Ended /\ Told
    BY InitStreams, InitEnd, InitTold DEF Ended
<1>2. (Ended /\ Told) /\ [Next]_vars => (Ended /\ Told)'
    BY NextEnd, NextTold
<1> QED
    BY <1>1, <1>2, PTL DEF Spec

\* What HistoryKept says, from the invariant.
LEMMA ToldHistory == ASSUME Ended, Told PROVE HistoryKept
<1>1. SUFFICES ASSUME ~torn
               PROVE  /\ \A e \in reader.got : IsEvent(e) => Kept(e)
                      /\ \A i \in DOMAIN ledger.events :
                           LET e == ledger.events[i] IN IsEvent(e) /\ e.seq <= reader.cursor => e \in reader.got
                      /\ \A n \in 1..reader.cursor : \E e \in reader.got : e.seq <= n /\ n <= e.last
                      /\ (disk # None /\ disk.digest # None)
                           => \A i \in DOMAIN disk.digest : IsEvent(disk.digest[i]) => Kept(disk.digest[i])
    BY DEF HistoryKept
<1>2. \A e : Kept(e) <=> In(e, ledger.events)
    BY DEF Kept, In
<1>3. \A i \in DOMAIN ledger.events : ledger.events[i] \in Entries(ledger.events)
    BY DEF Entries
<1>4. Delivered /\ Covered
    BY DEF Told
<1>5. \A e \in reader.got : IsEvent(e) => Kept(e)
    BY <1>1, <1>2, <1>4 DEF Delivered
<1>6. \A i \in DOMAIN ledger.events :
        LET e == ledger.events[i] IN IsEvent(e) /\ e.seq <= reader.cursor => e \in reader.got
    BY <1>1, <1>3, <1>4 DEF Delivered
<1>7. \A n \in 1..reader.cursor : \E e \in reader.got : e.seq <= n /\ n <= e.last
    BY <1>1, <1>4 DEF Delivered
<1>8. (disk # None /\ disk.digest # None)
        => \A i \in DOMAIN disk.digest : IsEvent(disk.digest[i]) => Kept(disk.digest[i])
    BY <1>1, <1>2, <1>4 DEF Covered
<1> QED
    BY <1>5, <1>6, <1>7, <1>8

\* No event that was acknowledged to the Agent or sent to a follower changes, is
\* renumbered or comes back from a gap, through repeated checkpoints, failures,
\* crashes and the terminal merge.
THEOREM HistoryIsKept == Spec => []HistoryKept
<1>1. Ended /\ Told => HistoryKept
    BY ToldHistory
<1> QED
    BY <1>1, ToldInvariant, PTL

=============================================================================
