---------------------------- MODULE BmApiProofs ----------------------------
(* The safety of BmApi for any number of threads and handles, any size of    *)
(* ring and kfifo and any number of APIs; and, when no thread sends on the   *)
(* CPU channel, the order of completion and what it gives to bm_thread_sync  *)
(* and bm_handle_sync.                                                       *)
EXTENDS BmApi, NumberSetProofs, FiniteSetTheorems, SequenceTheorems, TLAPS

-----------------------------------------------------------------------------
(* The invariant.                                                            *)

Sending == {"record", "wait", "enqueue", "copy"}
SendsOn(t, c) == pc[t] \in Sending /\ loc[t].c = c

(* A system call has its handle open; the only call on a handle that is      *)
(* being closed is the close.                                                *)
CallsInv ==
  \A t \in Threads :
    /\ pc[t] = "idle" => loc[t] = Idle
    /\ pc[t] # "idle" => loc[t].h \in handle_list
    /\ pc[t] = "close" => \A u \in Threads \ {t} : loc[u].h # loc[t].h

(* A sender has the mutex of its channel and, when it needs it, room.        *)
SendersInv ==
  \A t \in Threads :
    /\ pc[t] \in Sending =>
         /\ api_mutex[loc[t].c] = t
         /\ loc[t].seq \in 1 .. bm_send_api_seq
         /\ <<loc[t].h, t>> \in threads
    /\ pc[t] \in {"wait", "enqueue", "copy"} =>
         last_api_seq[<<loc[t].h, t>>] = loc[t].seq
    /\ pc[t] \in {"enqueue", "copy"} => Len(ring[loc[t].c]) < RingMsgs

(* Numbers: those in a ring ascend, and a sender has one above them.         *)
NumbersInv ==
  \A c \in Channels :
    /\ Ascending(ring[c])
    /\ \A i \in DOMAIN ring[c] :
         /\ ring[c][i].seq \in 1 .. bm_send_api_seq
         /\ \A t \in Threads : SendsOn(t, c) => ring[c][i].seq < loc[t].seq

(* Interrupts; one of the CPU channel is not counted, and the handler goes   *)
(* on with it as long as there is an executed message.                       *)
InterruptsInv ==
  /\ InterruptPerMessage
  /\ handler.on = "none" => handler.pending = 0
  /\ irq["CPU"] <= 1
  /\ handler.on = "CPU" =>
       handler.pending <= 1 /\ (handler.pending = 1 => executed["CPU"] > 0)

(* Markers complete in order.                                                *)
MarkersIn(l, cpl, last, done) ==
  /\ \A i \in DOMAIN l : IsMarker(l[i]) => cpl < l[i].seq /\ l[i].seq <= last
  /\ \A i, j \in DOMAIN l :
       i < j /\ IsMarker(l[i]) /\ IsMarker(l[j]) => l[i].seq < l[j].seq
  /\ done <= cpl /\ cpl <= last
MarkersOf(l, c) ==
  MarkersIn(l, device_sync_cpl[c], device_sync_last[c], dev_sync_done[c])
MarkersInv == MarkersOf(api_fifo, "XPU") /\ MarkersOf(api_list, "CPU")

(* What a sync is owed is older than what is being sent; none of it is       *)
(* behind its marker.                                                        *)
OwedOld(t, c) ==
  /\ \A x \in loc[t].owed : x <= bm_send_api_seq
  /\ \A u \in Threads : SendsOn(u, c) => \A x \in loc[t].owed : x < loc[u].seq
OwedIn(l, cpl, k, owed) ==
  IF cpl < k
  THEN \A i, j \in DOMAIN l :
         i < j /\ IsMarker(l[i]) /\ l[i].seq >= k
           => IsMarker(l[j]) \/ l[j].seq \notin owed
  ELSE \A j \in DOMAIN l : IsMarker(l[j]) \/ l[j].seq \notin owed
OwedFirst(t, l, c) == OwedIn(l, device_sync_cpl[c], loc[t].seq, loc[t].owed)
DeviceSyncInv ==
  \A t \in Threads :
    /\ pc[t] = "device_sync_cpu" =>
         OwedOld(t, "XPU") /\ OwedFirst(t, api_fifo, "XPU")
    /\ pc[t] \in {"device_sync", "device_sleep"} =>
         OwedOld(t, "CPU") /\ OwedFirst(t, api_list, "CPU")

(* The list of the CPU channel.                                              *)
ListInv ==
  /\ ApisAscending(api_list)
  /\ \A i \in DOMAIN api_list : ~IsMarker(api_list[i]) =>
       /\ api_list[i].seq <= bm_send_api_seq
       /\ "FINISH" \in api_list[i].flag => "DONE" \in api_list[i].flag
       /\ \A t \in Threads : SendsOn(t, "CPU") =>
            /\ api_list[i].seq <= loc[t].seq
            /\ pc[t] # "copy" => api_list[i].seq < loc[t].seq
  /\ CpuEntryFound
  /\ \A t \in BeingCopied("CPU") : \E i \in DOMAIN api_list :
       /\ ~IsMarker(api_list[i]) /\ api_list[i].seq = loc[t].seq
       /\ "DONE" \notin api_list[i].flag
QueryInv ==
  \A t \in Threads : pc[t] = "query" =>
    \E i \in DOMAIN api_list :
      /\ QueriedBy(t, api_list[i]) /\ api_list[i].t = t
      /\ "WAIT" \in api_list[i].flag /\ "FINISH" \notin api_list[i].flag

Core ==
  /\ TypeOK /\ CallsInv /\ SendersInv /\ NumbersInv /\ EntriesMatchMessages
  /\ InterruptsInv /\ NoMarkerLeftBehind /\ MarkersInv /\ DeviceSyncInv
  /\ ListInv /\ QueryInv


-----------------------------------------------------------------------------
(* Lists of entries.                                                         *)

Entries == ApiEntries \cup Markers

LEMMA EntryFacts ==
  ASSUME NEW e \in Entries
  PROVE  /\ IsMarker(e) => e \in Markers /\ e.seq \in MarkerNos /\ e.h = NoHandle
         /\ ~IsMarker(e) => /\ e \in ApiEntries /\ e.seq \in SeqNos
                            /\ e.h \in Handles /\ e.t \in Threads
         /\ e.flag \in SUBSET Flags
         /\ e.seq \in Nat
BY ApiAssumption DEF Entries, ApiEntries, Markers, IsMarker, SeqNos, MarkerNos

LEMMA ApiFacts ==
  ASSUME NEW s \in SeqNos, NEW h \in Handles, NEW t \in Threads
  PROVE  /\ Api(s, h, t) \in Entries /\ ~IsMarker(Api(s, h, t))
         /\ Api(s, h, t).seq = s /\ Api(s, h, t).h = h /\ Api(s, h, t).t = t
         /\ Api(s, h, t).flag = {}
BY DEF Api, Entries, ApiEntries, IsMarker

LEMMA MarkerFacts ==
  ASSUME NEW k \in MarkerNos, NEW g \in SUBSET Flags
  PROVE  /\ Marker(k, g) \in Entries /\ IsMarker(Marker(k, g))
         /\ Marker(k, g).seq = k /\ Marker(k, g).h = NoHandle
BY DEF Marker, Entries, Markers, IsMarker

(* A flag is set.                                                            *)
LEMMA FlagFacts ==
  ASSUME NEW e \in Entries, NEW f \in Flags
  PROVE  LET d == [e EXCEPT !.flag = @ \cup {f}]
         IN  /\ d \in Entries /\ d.kind = e.kind /\ d.seq = e.seq
             /\ d.h = e.h /\ d.t = e.t /\ d.flag = e.flag \cup {f}
BY DEF Entries, ApiEntries, Markers

SameEntry(d, e) == d.kind = e.kind /\ d.seq = e.seq /\ d.h = e.h /\ d.t = e.t

(* The list m has entries of l, in the same order.                           *)
Picks(m, l, f) ==
  /\ m \in Seq(Entries) /\ l \in Seq(Entries)
  /\ f \in [1 .. Len(m) -> 1 .. Len(l)]
  /\ \A i, j \in 1 .. Len(m) : i < j => f[i] < f[j]
  /\ \A i \in 1 .. Len(m) : SameEntry(m[i], l[f[i]])

(* What is in order stays in order.                                          *)
LEMMA PickedInOrder ==
  ASSUME NEW m, NEW l, NEW f, Picks(m, l, f)
  PROVE  /\ ApisAscending(l) => ApisAscending(m)
         /\ ApisIn(m) \subseteq ApisIn(l)
<1>1. DOMAIN m = 1 .. Len(m) /\ DOMAIN l = 1 .. Len(l) /\ Len(m) \in Nat /\ Len(l) \in Nat
  BY LenProperties DEF Picks
<1>2. \A i \in 1 .. Len(m) : IsMarker(m[i]) <=> IsMarker(l[f[i]])
  BY DEF Picks, SameEntry, IsMarker
<1>3. ASSUME ApisAscending(l)
      PROVE  ApisAscending(m)
  <2> SUFFICES ASSUME NEW i \in DOMAIN m, NEW j \in DOMAIN m, i < j,
                      ~IsMarker(m[i]), ~IsMarker(m[j])
               PROVE  m[i].seq < m[j].seq
    BY DEF ApisAscending
  <2>1. f[i] \in DOMAIN l /\ f[j] \in DOMAIN l /\ f[i] < f[j]
    BY <1>1 DEF Picks
  <2>2. l[f[i]].seq < l[f[j]].seq
    BY <1>1, <1>2, <1>3, <2>1 DEF ApisAscending
  <2> QED
    BY <1>1, <2>2 DEF Picks, SameEntry
<1>4. ApisIn(m) \subseteq ApisIn(l)
  <2> SUFFICES ASSUME NEW i \in DOMAIN m, ~IsMarker(m[i])
               PROVE  Message(m[i].seq, m[i].h, m[i].t) \in ApisIn(l)
    BY DEF ApisIn
  <2>1. f[i] \in DOMAIN l /\ ~IsMarker(l[f[i]])
    BY <1>1, <1>2 DEF Picks
  <2>2. Message(m[i].seq, m[i].h, m[i].t)
          = Message(l[f[i]].seq, l[f[i]].h, l[f[i]].t)
    BY <1>1 DEF Picks, SameEntry
  <2> QED
    BY <2>1, <2>2 DEF ApisIn
<1> QED
  BY <1>3, <1>4

LEMMA PickedMarkers ==
  ASSUME NEW m, NEW l, NEW f, Picks(m, l, f), NEW cpl, NEW last, NEW done, NEW d,
         MarkersIn(l, cpl, last, done), d <= cpl
  PROVE  MarkersIn(m, cpl, last, d)
<1>1. DOMAIN m = 1 .. Len(m) /\ DOMAIN l = 1 .. Len(l) /\ Len(m) \in Nat /\ Len(l) \in Nat
  BY LenProperties DEF Picks
<1>2. \A i \in 1 .. Len(m) : IsMarker(m[i]) <=> IsMarker(l[f[i]])
  BY DEF Picks, SameEntry, IsMarker
<1>3. \A i \in 1 .. Len(m) : f[i] \in DOMAIN l /\ m[i].seq = l[f[i]].seq
  BY <1>1 DEF Picks, SameEntry
<1>4. \A i, j \in 1 .. Len(m) : i < j => f[i] < f[j]
  BY DEF Picks
<1> QED
  BY <1>1, <1>2, <1>3, <1>4 DEF MarkersIn

LEMMA PickedOwed ==
  ASSUME NEW m, NEW l, NEW f, Picks(m, l, f), NEW cpl, NEW k, NEW owed,
         OwedIn(l, cpl, k, owed)
  PROVE  OwedIn(m, cpl, k, owed)
<1>1. DOMAIN m = 1 .. Len(m) /\ DOMAIN l = 1 .. Len(l) /\ Len(m) \in Nat /\ Len(l) \in Nat
  BY LenProperties DEF Picks
<1>2. \A i \in 1 .. Len(m) : IsMarker(m[i]) <=> IsMarker(l[f[i]])
  BY DEF Picks, SameEntry, IsMarker
<1>3. \A i \in 1 .. Len(m) : f[i] \in DOMAIN l /\ m[i].seq = l[f[i]].seq
  BY <1>1 DEF Picks, SameEntry
<1>4. \A i, j \in 1 .. Len(m) : i < j => f[i] < f[j]
  BY DEF Picks
<1> QED
  BY <1>1, <1>2, <1>3, <1>4 DEF OwedIn


(* The head of a list is taken.                                              *)
LEMMA TailPicks ==
  ASSUME NEW l \in Seq(Entries), l # <<>>
  PROVE  /\ Head(l) \in Entries /\ Head(l) = l[1] /\ 1 \in 1 .. Len(l)
         /\ Tail(l) \in Seq(Entries) /\ Len(Tail(l)) = Len(l) - 1
         /\ \A i \in 1 .. Len(l) - 1 : Tail(l)[i] = l[i + 1]
         /\ \A i \in 2 .. Len(l) : \E j \in 1 .. Len(Tail(l)) : Tail(l)[j] = l[i]
         /\ \E f : Picks(Tail(l), l, f) /\ \A i \in 1 .. Len(Tail(l)) : f[i] = i + 1
<1> DEFINE m == Tail(l)
           f == [i \in 1 .. Len(m) |-> i + 1]
<1>1. /\ Head(l) \in Entries /\ m \in Seq(Entries) /\ Len(m) = Len(l) - 1
      /\ \A i \in 1 .. Len(m) : m[i] = l[i + 1]
  BY HeadTailProperties
<1>2. Len(l) \in Nat \ {0} /\ Len(m) \in Nat
  BY LenProperties, EmptySeq
<1>3. f \in [1 .. Len(m) -> 1 .. Len(l)]
  BY <1>1, <1>2
<1>4. \A i, j \in 1 .. Len(m) : i < j => f[i] < f[j]
  BY <1>2
<1>5. \A i \in 1 .. Len(m) : SameEntry(m[i], l[f[i]])
  BY <1>1 DEF SameEntry
<1>6. Picks(m, l, f)
  BY <1>1, <1>3, <1>4, <1>5 DEF Picks
<1>7. \A i \in 2 .. Len(l) : \E j \in 1 .. Len(m) : m[j] = l[i]
  <2> SUFFICES ASSUME NEW i \in 2 .. Len(l)
               PROVE  \E j \in 1 .. Len(m) : m[j] = l[i]
    OBVIOUS
  <2>1. i - 1 \in 1 .. Len(m) /\ (i - 1) + 1 = i
    BY <1>1, <1>2
  <2> QED
    BY <1>1, <2>1
<1>8. Head(l) = l[1]
  OBVIOUS
<1>9. \A i \in 1 .. Len(m) : f[i] = i + 1
  OBVIOUS
<1> HIDE DEF f
<1> QED
  BY <1>1, <1>2, <1>6, <1>7, <1>8, <1>9

(* An entry is put behind the others.                                        *)
LEMMA AppendFacts ==
  ASSUME NEW l \in Seq(Entries), NEW e \in Entries
  PROVE  /\ Append(l, e) \in Seq(Entries) /\ Len(Append(l, e)) = Len(l) + 1
         /\ Len(l) \in Nat /\ DOMAIN l = 1 .. Len(l)
         /\ DOMAIN Append(l, e) = 1 .. Len(l) + 1
         /\ \A i \in 1 .. Len(l) : Append(l, e)[i] = l[i]
         /\ Append(l, e)[Len(l) + 1] = e
BY AppendProperties, LenProperties

(* A flag of one entry is set.                                               *)
Flagged(l, i, f) == [l EXCEPT ![i].flag = @ \cup {f}]

LEMMA FlagPicks ==
  ASSUME NEW l \in Seq(Entries), NEW i \in 1 .. Len(l), NEW f \in Flags
  PROVE  LET m == Flagged(l, i, f)
         IN  /\ m \in Seq(Entries) /\ Len(m) = Len(l)
             /\ \A j \in 1 .. Len(l) : j # i => m[j] = l[j]
             /\ SameEntry(m[i], l[i]) /\ m[i].flag = l[i].flag \cup {f}
             /\ \A j \in 1 .. Len(l) : SameEntry(m[j], l[j])
             /\ \E g : Picks(m, l, g)
<1> DEFINE d == [l[i] EXCEPT !.flag = @ \cup {f}]
           m == [l EXCEPT ![i] = d]
           g == [j \in 1 .. Len(m) |-> j]
<1>1. l[i] \in Entries
  BY ElementOfSeq
<1>2. /\ d \in Entries /\ SameEntry(d, l[i]) /\ d.flag = l[i].flag \cup {f}
  BY <1>1, FlagFacts DEF SameEntry
<1> HIDE DEF d
<1>3. m \in Seq(Entries) /\ Len(m) = Len(l)
      /\ \A j \in 1 .. Len(l) : m[j] = IF j = i THEN d ELSE l[j]
  BY <1>2, ExceptSeq
<1>4. Flagged(l, i, f) = m
  BY DEF d, Flagged
<1>5. \A j \in 1 .. Len(l) : SameEntry(m[j], l[j])
  BY <1>2, <1>3 DEF SameEntry
<1> HIDE DEF m
<1>6. Len(l) \in Nat
  BY LenProperties
<1>7. Picks(m, l, g)
  BY <1>3, <1>5, <1>6 DEF Picks
<1> QED
  BY <1>2, <1>3, <1>4, <1>5, <1>7

-----------------------------------------------------------------------------
(* The scan of the list.                                                     *)

(* What remains are entries of the list in their order; those go of which    *)
(* the flag allows it.                                                       *)
LEMMA ScanPicks ==
  ASSUME NEW l \in Seq(Entries), NEW m \in Scanned(l)
  PROVE  \E f : /\ Picks(m, l, f)
                /\ \A i \in 1 .. Len(m) : m[i] = l[f[i]]
                /\ \A j \in 1 .. Len(l) : ~Freed(l[j]) /\ ~MayFree(l[j]) =>
                     \E i \in 1 .. Len(m) : m[i] = l[j]
<1>1. PICK old \in SUBSET {j \in DOMAIN l : MayFree(l[j])} :
        LET kept == {j \in DOMAIN l : ~Freed(l[j]) /\ j \notin old}
        IN  m = [k \in 1 .. Cardinality(kept) |-> l[InOrder(kept)[k]]]
  BY DEF Scanned
<1> DEFINE kept == {j \in DOMAIN l : ~Freed(l[j]) /\ j \notin old}
           n == Cardinality(kept)
           f == InOrder(kept)
<1>2. Len(l) \in Nat /\ DOMAIN l = 1 .. Len(l) /\ \A j \in 1 .. Len(l) : l[j] \in Entries
  BY LenProperties, ElementOfSeq
<1>3. kept \in SUBSET Nat /\ kept \subseteq 1 .. Len(l) /\ IsFiniteSet(kept)
  <2>1. IsFiniteSet(1 .. Len(l))
    BY <1>2, FS_Interval
  <2> QED
    BY <1>2, <2>1, FS_Subset
<1>4. m = [k \in 1 .. n |-> l[f[k]]]
  BY <1>1
<1>5. \A j \in 1 .. Len(l) : ~Freed(l[j]) /\ ~MayFree(l[j]) => j \in kept
  BY <1>1, <1>2
<1> HIDE DEF kept
<1>6. n \in Nat /\ f \in [1 .. n -> kept]
  BY <1>3, InOrderFacts
<1>7. ASSUME NEW i \in 1 .. n, NEW j \in 1 .. n, i < j
      PROVE  f[i] < f[j]
  BY <1>3, <1>7, InOrderAscends
<1>8. ASSUME NEW j \in kept
      PROVE  \E k \in 1 .. n : f[k] = j
  BY <1>3, <1>8, PlaceOf
<1> HIDE DEF n, f
<1>9. m \in Seq(Entries) /\ Len(m) = n
  <2>1. \A k \in 1 .. n : l[f[k]] \in Entries
    BY <1>2, <1>3, <1>6
  <2>2. m \in [1 .. n -> Entries]
    BY <1>4, <2>1
  <2> QED
    BY <1>6, <2>2
<1>10. \A i \in 1 .. Len(m) : m[i] = l[f[i]]
  BY <1>4, <1>9
<1>11. f \in [1 .. Len(m) -> 1 .. Len(l)]
  BY <1>3, <1>6, <1>9
<1>12. \A i \in 1 .. Len(m) : SameEntry(m[i], l[f[i]])
  BY <1>10 DEF SameEntry
<1>13. \A i, j \in 1 .. Len(m) : i < j => f[i] < f[j]
  BY <1>7, <1>9
<1>14. Picks(m, l, f)
  BY <1>9, <1>11, <1>12, <1>13 DEF Picks
<1>15. ASSUME NEW j \in 1 .. Len(l), ~Freed(l[j]), ~MayFree(l[j])
       PROVE  \E i \in 1 .. Len(m) : m[i] = l[j]
  <2>1. PICK k \in 1 .. n : f[k] = j
    BY <1>5, <1>8, <1>15
  <2> QED
    BY <1>9, <1>10, <2>1
<1> QED
  BY <1>10, <1>14, <1>15

(* The list after a message is completed: the front was scanned, the entry   *)
(* of the message is flagged, the rest is as it was.                         *)
HitList(l, i, front, hit) == front \o <<hit>> \o SubSeq(l, i + 1, Len(l))
HitMap(m, l, i, hit, f) ==
  /\ Picks(m, l, f)
  /\ \A k \in 1 .. Len(m) : \/ f[k] # i /\ m[k] = l[f[k]]
                            \/ f[k] = i /\ m[k] = hit
  /\ \A j \in 1 .. Len(l) \ {i} : ~Freed(l[j]) /\ ~MayFree(l[j]) =>
       \E k \in 1 .. Len(m) : m[k] = l[j]
  /\ \E k \in 1 .. Len(m) : m[k] = hit

LEMMA HitPicks ==
  ASSUME NEW l \in Seq(Entries), NEW i \in 1 .. Len(l),
         NEW front \in Scanned(SubSeq(l, 1, i - 1)),
         NEW hit \in Entries, SameEntry(hit, l[i])
  PROVE  \E f : HitMap(HitList(l, i, front, hit), l, i, hit, f)
<1> DEFINE pre == SubSeq(l, 1, i - 1)
           post == SubSeq(l, i + 1, Len(l))
           m == front \o <<hit>> \o post
<1>1. Len(l) \in Nat /\ i \in Nat /\ \A j \in 1 .. Len(l) : l[j] \in Entries
  BY LenProperties, ElementOfSeq
<1>2. /\ pre \in Seq(Entries) /\ Len(pre) = i - 1
      /\ \A j \in 1 .. i - 1 : pre[j] = l[j]
  BY <1>1, SubSeqProperties
<1>3. /\ post \in Seq(Entries) /\ Len(post) = Len(l) - i
      /\ \A j \in 1 .. Len(l) - i : post[j] = l[i + j]
  BY <1>1, SubSeqProperties
<1>4. PICK g : /\ Picks(front, pre, g)
               /\ \A j \in 1 .. Len(front) : front[j] = pre[g[j]]
               /\ \A j \in 1 .. Len(pre) : ~Freed(pre[j]) /\ ~MayFree(pre[j]) =>
                    \E k \in 1 .. Len(front) : front[k] = pre[j]
  BY <1>2, ScanPicks
<1> HIDE DEF pre, post
<1>5. front \in Seq(Entries) /\ Len(front) \in Nat
  BY <1>4, LenProperties DEF Picks
<1> DEFINE n == Len(front)
<1>6. /\ m \in Seq(Entries) /\ Len(m) = n + 1 + (Len(l) - i)
      /\ \A k \in 1 .. Len(m) :
           m[k] = IF k <= n THEN front[k] ELSE IF k = n + 1 THEN hit ELSE post[k - (n + 1)]
  <2>1. <<hit>> \in Seq(Entries) /\ Len(<<hit>>) = 1 /\ <<hit>>[1] = hit
    OBVIOUS
  <2>2. /\ front \o <<hit>> \in Seq(Entries) /\ Len(front \o <<hit>>) = n + 1
        /\ \A k \in 1 .. n + 1 :
             (front \o <<hit>>)[k] = IF k <= n THEN front[k] ELSE <<hit>>[k - n]
    BY <1>5, <2>1, ConcatProperties
  <2> DEFINE a == front \o <<hit>>
  <2>3. \A k \in 1 .. n + 1 : a[k] = IF k <= n THEN front[k] ELSE hit
    <3> SUFFICES ASSUME NEW k \in 1 .. n + 1
                 PROVE  a[k] = IF k <= n THEN front[k] ELSE hit
      OBVIOUS
    <3>1. ~(k <= n) => k - n = 1
      BY <1>5
    <3> QED
      BY <2>1, <2>2, <3>1
  <2>4. a \in Seq(Entries) /\ Len(a) = n + 1
    BY <2>2
  <2> HIDE DEF a
  <2>5. /\ a \o post \in Seq(Entries) /\ Len(a \o post) = (n + 1) + Len(post)
        /\ \A k \in 1 .. (n + 1) + Len(post) :
             (a \o post)[k] = IF k <= n + 1 THEN a[k] ELSE post[k - (n + 1)]
    <3>1. post \in Seq(Entries) /\ a \in Seq(Entries)
      BY <1>3, <2>4
    <3>2. /\ a \o post \in Seq(Entries) /\ Len(a \o post) = Len(a) + Len(post)
          /\ \A k \in 1 .. Len(a) + Len(post) :
               (a \o post)[k] = IF k <= Len(a) THEN a[k] ELSE post[k - Len(a)]
      BY <3>1, ConcatProperties
    <3> QED
      BY <2>4, <3>2
  <2>6. m = a \o post
    BY DEF a
  <2> HIDE DEF m
  <2>7. ASSUME NEW k \in 1 .. Len(m)
        PROVE  m[k] = IF k <= n THEN front[k] ELSE IF k = n + 1 THEN hit ELSE post[k - (n + 1)]
    <3>1. k \in 1 .. (n + 1) + Len(post) /\ k \in Nat /\ n \in Nat
      BY <1>1, <1>3, <1>5, <2>5, <2>6
    <3>2. m[k] = IF k <= n + 1 THEN a[k] ELSE post[k - (n + 1)]
      BY <2>5, <2>6, <3>1
    <3>3. CASE k <= n + 1
      <4>1. k \in 1 .. n + 1 /\ (~(k <= n) => k = n + 1)
        BY <3>1, <3>3
      <4> QED
        BY <2>3, <3>2, <3>3, <4>1
    <3>4. CASE ~(k <= n + 1)
      <4>1. ~(k <= n) /\ k # n + 1
        BY <3>1, <3>4
      <4> QED
        BY <3>2, <3>4, <4>1
    <3> QED
      BY <3>3, <3>4
  <2> QED
    BY <1>3, <2>5, <2>6, <2>7
<1> HIDE DEF m
<1> DEFINE f == [k \in 1 .. Len(m) |-> IF k <= n THEN g[k] ELSE i + (k - (n + 1))]
<1>7. \A k \in 1 .. n : g[k] \in 1 .. i - 1
  BY <1>2, <1>4 DEF Picks
<1>8. \A k \in 1 .. Len(m) : f[k] = IF k <= n THEN g[k] ELSE i + (k - (n + 1))
  OBVIOUS
<1>9. f \in [1 .. Len(m) -> 1 .. Len(l)]
  <2> SUFFICES ASSUME NEW k \in 1 .. Len(m)
               PROVE  (IF k <= n THEN g[k] ELSE i + (k - (n + 1))) \in 1 .. Len(l)
    OBVIOUS
  <2>1. CASE k <= n
    <3>1. g[k] \in 1 .. i - 1
      BY <1>5, <1>6, <1>7, <2>1
    <3> QED
      BY <1>1, <2>1, <3>1
  <2>2. CASE ~(k <= n)
    BY <1>1, <1>5, <1>6, <2>2
  <2> QED
    BY <2>1, <2>2
<1> HIDE DEF f
<1>10. ASSUME NEW j \in 1 .. Len(m), NEW k \in 1 .. Len(m), j < k
       PROVE  f[j] < f[k]
  <2>0. j \in Nat /\ k \in Nat /\ n \in Nat
    BY <1>1, <1>5, <1>6
  <2>1. CASE k <= n
    <3>1. j \in 1 .. n /\ k \in 1 .. n
      BY <2>0, <2>1, <1>10
    <3>2. g[j] < g[k]
      BY <1>4, <1>10, <3>1 DEF Picks
    <3> QED
      BY <1>8, <2>0, <2>1, <3>1, <3>2
  <2>2. CASE j <= n /\ ~(k <= n)
    <3>1. g[j] \in 1 .. i - 1 /\ f[j] = g[j]
      BY <1>7, <1>8, <2>0, <2>2
    <3>2. f[k] = i + (k - (n + 1)) /\ f[k] >= i
      BY <1>1, <1>8, <2>0, <2>2
    <3> QED
      BY <1>1, <2>0, <3>1, <3>2
  <2>3. CASE ~(j <= n)
    <3>1. f[j] = i + (j - (n + 1)) /\ f[k] = i + (k - (n + 1))
      BY <1>8, <1>10, <2>0, <2>3
    <3> QED
      BY <1>1, <1>10, <2>0, <3>1
  <2> QED
    BY <2>1, <2>2, <2>3
<1>11. ASSUME NEW k \in 1 .. Len(m)
       PROVE  \/ f[k] # i /\ m[k] = l[f[k]]
              \/ f[k] = i /\ m[k] = hit
  <2>0. k \in Nat /\ n \in Nat
    BY <1>1, <1>5, <1>6
  <2>1. CASE k <= n
    <3>1. g[k] \in 1 .. i - 1 /\ front[k] = pre[g[k]]
      BY <1>4, <1>7, <2>0, <2>1
    <3>2. f[k] = g[k] /\ m[k] = front[k]
      BY <1>6, <1>8, <2>1
    <3>3. f[k] # i
      BY <1>1, <3>1, <3>2
    <3> QED
      BY <1>2, <3>1, <3>2, <3>3
  <2>2. CASE k = n + 1
    <3>1. f[k] = i /\ m[k] = hit
      BY <1>1, <1>6, <1>8, <2>0, <2>2
    <3> QED
      BY <3>1
  <2>3. CASE k > n + 1
    <3>1. m[k] = post[k - (n + 1)] /\ f[k] = i + (k - (n + 1))
      BY <1>6, <1>8, <2>0, <2>3
    <3>2. k - (n + 1) \in 1 .. Len(l) - i
      BY <1>1, <1>6, <2>0, <2>3
    <3> QED
      BY <1>1, <1>3, <3>1, <3>2
  <2> QED
    BY <2>0, <2>1, <2>2, <2>3
<1>12. ASSUME NEW j \in 1 .. Len(l) \ {i}, ~Freed(l[j]), ~MayFree(l[j])
       PROVE  \E k \in 1 .. Len(m) : m[k] = l[j]
  <2>1. CASE j < i
    <3>1. j \in 1 .. Len(pre) /\ pre[j] = l[j]
      BY <1>1, <1>2, <2>1
    <3>2. PICK k \in 1 .. n : front[k] = pre[j]
      BY <1>4, <1>12, <3>1
    <3>3. k \in 1 .. Len(m) /\ m[k] = front[k]
      BY <1>1, <1>5, <1>6
    <3> QED
      BY <3>1, <3>2, <3>3
  <2>2. CASE j > i
    <3>1. /\ j - i \in 1 .. Len(l) - i /\ i + (j - i) = j
          /\ n + 1 + (j - i) \in 1 .. Len(m)
          /\ (n + 1 + (j - i)) - (n + 1) = j - i
          /\ ~(n + 1 + (j - i) <= n) /\ n + 1 + (j - i) # n + 1
      BY <1>1, <1>5, <1>6, <2>2
    <3>2. m[n + 1 + (j - i)] = post[j - i] /\ post[j - i] = l[j]
      BY <1>3, <1>6, <3>1
    <3> QED
      BY <3>1, <3>2
  <2> QED
    BY <1>1, <1>12, <2>1, <2>2
<1>13. \A k \in 1 .. Len(m) : SameEntry(m[k], l[f[k]])
  BY <1>11 DEF SameEntry
<1>14. Picks(m, l, f)
  BY <1>6, <1>9, <1>10, <1>13 DEF Picks
<1>15. n + 1 \in 1 .. Len(m) /\ m[n + 1] = hit
  <2>1. n + 1 \in 1 .. Len(m) /\ ~(n + 1 <= n)
    BY <1>1, <1>5, <1>6
  <2> QED
    BY <1>6, <2>1
<1>16. HitMap(m, l, i, hit, f)
  BY <1>11, <1>12, <1>14, <1>15 DEF HitMap
<1> QED
  BY <1>16 DEF HitList, m, post

-----------------------------------------------------------------------------
(* The steps.                                                                *)

Syncing == {"device_sync", "device_sleep"}
Locs == [h : Handles \cup {NoHandle}, c : Channels, seq : SeqNos \cup MarkerNos,
         owed : SUBSET SeqNos]

(* A step that only a thread in its call notices: one that begins, ends or   *)
(* goes on without the lists, the numbers and the card.                      *)
Local(t) ==
  /\ UNCHANGED <<handles, thds, bm_send_api_seq, ring, card, handler, api_fifo,
                 api_list, device_sync_last, device_sync_cpl, api_mutex>>
  /\ dev_sync_done' \in [Channels -> MarkerNos]
  /\ \A c \in Channels : dev_sync_done'[c] <= dev_sync_done[c]
  /\ pc' \in [Threads -> SystemCalls] /\ loc' \in [Threads -> Locs]
  /\ \A u \in Threads \ {t} : pc'[u] = pc[u] /\ loc'[u] = loc[u]
  /\ pc[t] \notin Sending /\ pc'[t] \notin Sending
  /\ pc'[t] \notin {"query", "device_sync_cpu"}
  /\ pc'[t] \in Syncing =>
       pc[t] \in Syncing /\ loc'[t].seq = loc[t].seq /\ loc'[t].owed = loc[t].owed

(* A send that fails.                                                        *)
Fail(t) == pc[t] \in {"wait", "enqueue"} /\ GiveUp(t)

LEMMA NumberTypes ==
  /\ SeqNos \subseteq Nat /\ MarkerNos \subseteq Nat
  /\ "XPU" \in Channels /\ "CPU" \in Channels
  /\ RingMsgs \in Nat /\ RingMsgs > 0 /\ FifoEntries \in Nat
BY ApiAssumption DEF SeqNos, MarkerNos, Channels

(* A sender's number is one that was drawn.                                  *)
LEMMA SenderNumber ==
  ASSUME TypeOK, SendersInv, NEW t \in Threads, pc[t] \in Sending
  PROVE  loc[t].seq \in SeqNos
<1>1. bm_send_api_seq \in SeqNos
  BY DEF TypeOK
<1>2. loc[t].seq \in 1 .. bm_send_api_seq
  BY DEF SendersInv
<1> QED
  BY ONLY <1>1, <1>2, ApiAssumption DEF SeqNos

(* What a sync is owed are numbers of messages in a ring.                    *)
LEMMA OutstandingSeqs ==
  ASSUME TypeOK, NEW x \in SeqsOf(Outstanding)
  PROVE  \E c \in Channels : \E i \in DOMAIN ring[c] :
           i > executed[c] /\ ring[c][i].seq = x
<1>1. PICK m \in Outstanding : x = m.seq
  BY DEF SeqsOf
<1>2. PICK c \in Channels : m \in {ring[c][i] : i \in executed[c] + 1 .. Len(ring[c])}
  BY <1>1 DEF Outstanding
<1>3. PICK i \in executed[c] + 1 .. Len(ring[c]) : m = ring[c][i]
  BY <1>2
<1>4. /\ ring[c] \in Seq(Messages) /\ executed[c] \in Nat
  BY ApiAssumption DEF TypeOK
<1>5. Len(ring[c]) \in Nat /\ DOMAIN ring[c] = 1 .. Len(ring[c])
  BY <1>4, LenProperties
<1>6. i \in DOMAIN ring[c] /\ i > executed[c]
  BY <1>3, <1>4, <1>5
<1> QED
  BY <1>1, <1>3, <1>6

LEMMA OwedTypes ==
  ASSUME TypeOK
  PROVE  SeqsOf(Outstanding) \subseteq SeqNos
<1> SUFFICES ASSUME NEW x \in SeqsOf(Outstanding)
             PROVE  x \in SeqNos
  OBVIOUS
<1>1. PICK c \in Channels : \E i \in DOMAIN ring[c] : ring[c][i].seq = x
  BY OutstandingSeqs
<1>2. PICK i \in DOMAIN ring[c] : ring[c][i].seq = x
  BY <1>1
<1>3. ring[c] \in Seq(Messages)
  BY DEF TypeOK
<1>4. ring[c][i] \in Messages
  BY <1>2, <1>3, LenProperties, ElementOfSeq
<1> QED
  BY <1>2, <1>4 DEF Messages

LEMMA GotoFacts ==
  ASSUME TypeOK, NEW t \in Threads, NEW p \in SystemCalls, Goto(t, p)
  PROVE  /\ pc' \in [Threads -> SystemCalls] /\ pc'[t] = p
         /\ \A u \in Threads \ {t} : pc'[u] = pc[u]
BY DEF TypeOK, Goto

LEMMA ReturnFacts ==
  ASSUME TypeOK, NEW t \in Threads, Return(t)
  PROVE  /\ pc' \in [Threads -> SystemCalls] /\ loc' \in [Threads -> Locs]
         /\ pc'[t] = "idle" /\ loc'[t] = Idle
         /\ \A u \in Threads \ {t} : pc'[u] = pc[u] /\ loc'[u] = loc[u]
<1>1. Idle \in Locs
  BY ApiAssumption DEF Idle, Locs, SeqNos, Channels
<1> QED
  BY <1>1 DEF TypeOK, Return, Goto, SystemCalls, Locs

(* A system call begins that may share its handle with others.               *)
LEMMA CallBegins ==
  ASSUME TypeOK, CallsInv, NEW t \in Threads, NEW h \in Handles, MayCall(t, h),
         pc' \in [Threads -> SystemCalls], loc' \in [Threads -> Locs],
         \A u \in Threads \ {t} : pc'[u] = pc[u] /\ loc'[u] = loc[u],
         pc'[t] \notin {"idle", "close"}, loc'[t].h = h, handle_list' = handle_list
  PROVE  CallsInv'
BY DEF CallsInv, MayCall

LEMMA CallGoesOn ==
  ASSUME TypeOK, CallsInv, NEW t \in Threads,
         pc' \in [Threads -> SystemCalls], loc' \in [Threads -> Locs],
         \A u \in Threads \ {t} : pc'[u] = pc[u] /\ loc'[u] = loc[u],
         pc[t] \notin {"idle", "close"}, pc'[t] \notin {"idle", "close"},
         loc'[t].h = loc[t].h, handle_list' = handle_list
  PROVE  CallsInv'
BY DEF CallsInv

LEMMA CallEnds ==
  ASSUME TypeOK, CallsInv, NEW t \in Threads, Return(t), handle_list' = handle_list
  PROVE  CallsInv'
<1>1. \A u \in Threads : pc[u] # "idle" => loc[u].h # NoHandle
  BY ApiAssumption DEF CallsInv, TypeOK
<1>2. /\ pc'[t] = "idle" /\ loc'[t] = Idle /\ Idle.h = NoHandle
      /\ \A u \in Threads \ {t} : pc'[u] = pc[u] /\ loc'[u] = loc[u]
  BY ReturnFacts DEF Idle
<1> QED
  BY <1>1, <1>2 DEF CallsInv

LEMMA LocalBegins ==
  ASSUME TypeOK, CallsInv, NEW t \in Threads, NEW h \in Handles,
         Close(t, h) \/ ThreadSync(t, h) \/ HandleSync(t, h)
  PROVE  Local(t) /\ CallsInv'
<1> USE DEF Local, Sending, Syncing, handles, thds, card, syncs, noApiStep
<1>0. dev_sync_done \in [Channels -> MarkerNos] /\ \A c \in Channels : dev_sync_done[c] \in Nat
  BY NumberTypes DEF TypeOK
<1>1. CASE Close(t, h)
  <2>1. Goto(t, "close") /\ Locals(t, h, "XPU", 0, {}) /\ "close" \in SystemCalls
        /\ 0 \in SeqNos /\ pc[t] = "idle" /\ h \in handle_list
        /\ \A u \in Threads : loc[u].h # h
    BY <1>1, ApiAssumption DEF Close, SystemCalls, SeqNos
  <2>2. /\ pc' \in [Threads -> SystemCalls] /\ pc'[t] = "close"
        /\ \A u \in Threads \ {t} : pc'[u] = pc[u]
    BY <2>1, GotoFacts
  <2>3. /\ loc' \in [Threads -> Locs] /\ loc'[t].h = h
        /\ \A u \in Threads \ {t} : loc'[u] = loc[u]
    BY <2>1, NumberTypes DEF Locals, TypeOK, Locs
  <2>4. CallsInv'
    BY <1>1, <2>1, <2>2, <2>3 DEF CallsInv, Close
  <2> QED
    BY <1>0, <1>1, <2>1, <2>2, <2>3, <2>4 DEF Close
<1>2. CASE ThreadSync(t, h)
  <2> DEFINE p == IF <<h, t>> \in threads THEN "thread_sync" ELSE "ret_thread"
             o == SeqsOf({m \in Outstanding : m.h = h /\ m.t = t})
  <2>1. Goto(t, p) /\ Locals(t, h, "XPU", 0, o) /\ MayCall(t, h)
    BY <1>2 DEF ThreadSync
  <2>2. p \in {"thread_sync", "ret_thread"} /\ p \in SystemCalls /\ 0 \in SeqNos
    BY ApiAssumption DEF SystemCalls, SeqNos
  <2>3. o \in SUBSET SeqNos
    BY OwedTypes DEF SeqsOf
  <2> HIDE DEF p, o
  <2>4. /\ pc' \in [Threads -> SystemCalls] /\ pc'[t] = p
        /\ \A u \in Threads \ {t} : pc'[u] = pc[u]
    BY <2>1, <2>2, GotoFacts
  <2>5. /\ loc' \in [Threads -> Locs] /\ loc'[t].h = h
        /\ \A u \in Threads \ {t} : loc'[u] = loc[u]
    BY <2>1, <2>2, <2>3, NumberTypes DEF Locals, TypeOK, Locs
  <2>6. CallsInv'
    BY <1>2, <2>1, <2>2, <2>4, <2>5, CallBegins DEF ThreadSync
  <2> QED
    BY <1>0, <1>2, <2>1, <2>2, <2>4, <2>5, <2>6 DEF ThreadSync, MayCall
<1>3. CASE HandleSync(t, h)
  <2> DEFINE o == SeqsOf({m \in Outstanding : m.h = h})
  <2>1. Goto(t, "handle_sync") /\ Locals(t, h, "XPU", h_send_api_seq[h], o) /\ MayCall(t, h)
    BY <1>3 DEF HandleSync
  <2>2. "handle_sync" \in SystemCalls /\ h_send_api_seq[h] \in SeqNos
    BY DEF SystemCalls, TypeOK
  <2>3. o \in SUBSET SeqNos
    BY OwedTypes DEF SeqsOf
  <2> HIDE DEF o
  <2>4. /\ pc' \in [Threads -> SystemCalls] /\ pc'[t] = "handle_sync"
        /\ \A u \in Threads \ {t} : pc'[u] = pc[u]
    BY <2>1, <2>2, GotoFacts
  <2>5. /\ loc' \in [Threads -> Locs] /\ loc'[t].h = h
        /\ \A u \in Threads \ {t} : loc'[u] = loc[u]
    BY <2>1, <2>2, <2>3, NumberTypes DEF Locals, TypeOK, Locs
  <2>6. CallsInv'
    BY <1>3, <2>1, <2>2, <2>4, <2>5, CallBegins DEF HandleSync
  <2> QED
    BY <1>0, <1>3, <2>1, <2>2, <2>4, <2>5, <2>6 DEF HandleSync, MayCall
<1> QED
  BY <1>1, <1>2, <1>3

LEMMA LocalGoesOn ==
  ASSUME TypeOK, CallsInv, NEW t \in Threads,
         \/ QueryTimeout(t) \/ ThreadSyncDone(t) \/ HandleSyncDone(t)
         \/ DeviceSyncCompare(t) \/ DeviceSyncWake(t) \/ SyncTimeout(t)
         \/ SyncReturns(t)
  PROVE  Local(t) /\ CallsInv'
<1> USE DEF Local, Sending, Syncing, handles, thds, card, syncs, noApiStep
<1>0. dev_sync_done \in [Channels -> MarkerNos] /\ \A c \in Channels : dev_sync_done[c] \in Nat
  BY NumberTypes DEF TypeOK
<1>1. CASE QueryTimeout(t) \/ SyncTimeout(t) \/ SyncReturns(t)
  <2>1. Return(t) /\ handle_list' = handle_list /\ pc[t] \notin Sending
    BY <1>1 DEF QueryTimeout, SyncTimeout, SyncReturns
  <2>2. CallsInv'
    BY <2>1, CallEnds
  <2> QED
    BY <1>0, <1>1, <2>1, <2>2, ReturnFacts DEF QueryTimeout, SyncTimeout, SyncReturns
<1>2. CASE ThreadSyncDone(t) \/ HandleSyncDone(t)
  <2>1. PICK p \in {"ret_thread", "ret_handle"} : Goto(t, p)
    BY <1>2 DEF ThreadSyncDone, HandleSyncDone
  <2>2. /\ pc' \in [Threads -> SystemCalls] /\ pc'[t] = p
        /\ \A u \in Threads \ {t} : pc'[u] = pc[u]
    BY <2>1, GotoFacts DEF SystemCalls
  <2>3. loc' = loc /\ loc \in [Threads -> Locs] /\ handle_list' = handle_list
        /\ pc[t] \in {"thread_sync", "handle_sync"}
    BY <1>2 DEF ThreadSyncDone, HandleSyncDone, TypeOK, Locs
  <2>4. CallsInv'
    BY <2>1, <2>2, <2>3, CallGoesOn
  <2> QED
    BY <1>0, <1>2, <2>1, <2>2, <2>3, <2>4 DEF ThreadSyncDone, HandleSyncDone
<1>3. CASE DeviceSyncCompare(t)
  <2>1. pc[t] = "device_sync" /\ handle_list' = handle_list
    BY <1>3 DEF DeviceSyncCompare
  <2>2. /\ pc' \in [Threads -> SystemCalls]
        /\ pc'[t] \in {"device_sync", "device_sleep", "ret_device"}
        /\ \A u \in Threads \ {t} : pc'[u] = pc[u]
    BY <1>3, <2>1, GotoFacts DEF DeviceSyncCompare, SystemCalls, TypeOK
  <2>3. /\ loc[t].h \in Handles \cup {NoHandle} /\ loc[t].seq \in SeqNos \cup MarkerNos
        /\ loc[t].owed \in SUBSET SeqNos /\ loc \in [Threads -> Locs]
    BY DEF TypeOK, Locs
  <2>4. /\ loc' \in [Threads -> Locs]
        /\ loc'[t].h = loc[t].h /\ loc'[t].seq = loc[t].seq /\ loc'[t].owed = loc[t].owed
        /\ \A u \in Threads \ {t} : loc'[u] = loc[u]
    <3>1. CASE UNCHANGED loc
      BY <2>3, <3>1
    <3>2. CASE Locals(t, loc[t].h, "CPU", loc[t].seq, loc[t].owed)
      BY <2>3, <3>2, NumberTypes DEF Locals, Locs
    <3> QED
      BY <1>3, <3>1, <3>2 DEF DeviceSyncCompare
  <2>5. CallsInv'
    BY <2>1, <2>2, <2>4, CallGoesOn
  <2> QED
    BY <1>0, <1>3, <2>1, <2>2, <2>4, <2>5 DEF DeviceSyncCompare
<1>4. CASE DeviceSyncWake(t)
  <2>1. pc[t] = "device_sleep" /\ handle_list' = handle_list /\ loc' = loc
        /\ loc \in [Threads -> Locs] /\ Goto(t, "device_sync") /\ loc[t].c \in Channels
    BY <1>4 DEF DeviceSyncWake, TypeOK, Locs
  <2>2. /\ pc' \in [Threads -> SystemCalls] /\ pc'[t] = "device_sync"
        /\ \A u \in Threads \ {t} : pc'[u] = pc[u]
    BY <2>1, GotoFacts DEF SystemCalls
  <2>3. CallsInv'
    BY <2>1, <2>2, CallGoesOn
  <2>4. /\ dev_sync_done' \in [Channels -> MarkerNos]
        /\ \A c \in Channels : dev_sync_done'[c] <= dev_sync_done[c]
    BY <1>0, <1>4, <2>1, ApiAssumption DEF DeviceSyncWake, MarkerNos
  <2> QED
    BY <1>0, <1>4, <2>1, <2>2, <2>3, <2>4 DEF DeviceSyncWake
<1> QED
  BY <1>1, <1>2, <1>3, <1>4

LEMMA StepKinds ==
  ASSUME TypeOK, CallsInv, Next
  PROVE  \/ \E t \in Threads, h \in Handles :
              \/ Open(t, h) \/ QueryApi(t, h) \/ DeviceSync(t, h)
              \/ \E c \in Channels : SendApi(t, h, c)
         \/ \E t \in Threads :
              \/ Local(t) /\ CallsInv'
              \/ CloseFree(t) \/ RecordSeq(t) \/ WaitMsgfifo(t) \/ Enqueue(t)
              \/ Fail(t) \/ CopyToMsgfifo(t) \/ QueryDone(t) \/ DeviceSyncCpu(t)
         \/ \E c \in Channels : Execute(c) \/ IrqStart(c)
         \/ XpuMarker \/ XpuApi \/ XpuEnd \/ CpuMarker \/ CpuApi \/ CpuEnd
<1>1. ASSUME NEW t \in Threads, WaitTimeout(t) \/ EnqueueFull(t)
      PROVE  Fail(t)
  BY <1>1 DEF WaitTimeout, EnqueueFull, Fail
<1>2. ASSUME NEW t \in Threads, NEW h \in Handles,
             Close(t, h) \/ ThreadSync(t, h) \/ HandleSync(t, h)
      PROVE  Local(t) /\ CallsInv'
  BY <1>2, LocalBegins
<1>3. ASSUME NEW t \in Threads,
             \/ QueryTimeout(t) \/ ThreadSyncDone(t) \/ HandleSyncDone(t)
             \/ DeviceSyncCompare(t) \/ DeviceSyncWake(t) \/ SyncTimeout(t)
             \/ SyncReturns(t)
      PROVE  Local(t) /\ CallsInv'
  BY <1>3, LocalGoesOn
<1> QED
  BY <1>1, <1>2, <1>3 DEF Next, Proceed, Handle

-----------------------------------------------------------------------------
(* System calls.                                                             *)

LEMMA CallsStep ==
  ASSUME TypeOK, CallsInv, [Next]_vars
  PROVE  CallsInv'
<1> USE DEF handles, thds, card, syncs, noApiStep
<1>1. ASSUME NEW t \in Threads, NEW h \in Handles, Open(t, h)
      PROVE  CallsInv'
  BY <1>1 DEF Open, CallsInv
<1>2. ASSUME NEW t \in Threads, NEW h \in Handles, NEW c \in Channels, SendApi(t, h, c)
      PROVE  CallsInv'
  <2>1. /\ MayCall(t, h) /\ handle_list' = handle_list
        /\ pc' = [pc EXCEPT ![t] = "record"]
        /\ loc' = [loc EXCEPT ![t] = [h |-> h, c |-> c, seq |-> bm_send_api_seq + 1,
                                      owed |-> {}]]
    BY <1>2 DEF SendApi, Goto, Locals
  <2> QED
    BY <2>1 DEF CallsInv, MayCall, TypeOK
<1>3. ASSUME NEW t \in Threads, NEW h \in Handles, QueryApi(t, h)
      PROVE  CallsInv'
  <2>1. PICK i \in DOMAIN api_list : Locals(t, h, "CPU", api_list[i].seq, {})
    BY <1>3 DEF QueryApi
  <2>2. /\ MayCall(t, h) /\ handle_list' = handle_list
        /\ pc' = [pc EXCEPT ![t] = "query"]
        /\ loc' = [loc EXCEPT ![t] = [h |-> h, c |-> "CPU", seq |-> api_list[i].seq,
                                      owed |-> {}]]
    BY <1>3, <2>1 DEF QueryApi, Goto, Locals
  <2> QED
    BY <2>2 DEF CallsInv, MayCall, TypeOK
<1>4. ASSUME NEW t \in Threads, NEW h \in Handles, DeviceSync(t, h)
      PROVE  CallsInv'
  <2>0. /\ \E s : Locals(t, h, "XPU", s, SeqsOf(Outstanding))
        /\ \E p \in {"ret_device", "device_sync_cpu"} : Goto(t, p)
    BY <1>4 DEF DeviceSync
  <2>1. PICK s : Locals(t, h, "XPU", s, SeqsOf(Outstanding))
    BY <2>0
  <2>2. PICK p \in {"ret_device", "device_sync_cpu"} : Goto(t, p)
    BY <2>0
  <2>3. /\ MayCall(t, h) /\ handle_list' = handle_list
        /\ pc' = [pc EXCEPT ![t] = p]
        /\ loc' = [loc EXCEPT ![t] = [h |-> h, c |-> "XPU", seq |-> s,
                                      owed |-> SeqsOf(Outstanding)]]
    BY <1>4, <2>1, <2>2 DEF DeviceSync, Goto, Locals
  <2> QED
    BY <2>3 DEF CallsInv, MayCall, TypeOK
<1>5. ASSUME NEW t \in Threads, CloseFree(t)
      PROVE  CallsInv'
  <2>1. /\ pc[t] = "close" /\ handle_list' = handle_list \ {loc[t].h}
        /\ pc' = [pc EXCEPT ![t] = "idle"] /\ loc' = [loc EXCEPT ![t] = Idle]
    BY <1>5 DEF CloseFree, Return, Goto
  <2>2. \A u \in Threads : pc[u] # "idle" => loc[u].h # NoHandle
    BY ApiAssumption DEF CallsInv, TypeOK
  <2>3. Idle.h = NoHandle
    BY DEF Idle
  <2> QED
    BY <2>1, <2>2, <2>3 DEF CallsInv, TypeOK
<1>6. ASSUME NEW t \in Threads, RecordSeq(t) \/ WaitMsgfifo(t) \/ Enqueue(t)
      PROVE  CallsInv'
  <2>1. PICK p \in {"wait", "enqueue", "copy"} :
          /\ pc' = [pc EXCEPT ![t] = p] /\ loc' = loc /\ handle_list' = handle_list
          /\ pc[t] \in {"record", "wait", "enqueue"}
    BY <1>6 DEF RecordSeq, WaitMsgfifo, Enqueue, Goto
  <2> QED
    BY <2>1 DEF CallsInv, TypeOK
<1>7. ASSUME NEW t \in Threads, Fail(t) \/ CopyToMsgfifo(t) \/ QueryDone(t)
      PROVE  CallsInv'
  <2>1. Return(t) /\ handle_list' = handle_list
    BY <1>7 DEF Fail, GiveUp, CopyToMsgfifo, QueryDone
  <2> QED
    BY <2>1, CallEnds
<1>8. ASSUME NEW t \in Threads, DeviceSyncCpu(t)
      PROVE  CallsInv'
  <2>1. PICK p \in {"ret_device", "device_sync"} :
          /\ pc[t] = "device_sync_cpu" /\ pc' = [pc EXCEPT ![t] = p]
          /\ handle_list' = handle_list
    BY <1>8 DEF DeviceSyncCpu, Goto
  <2>2. \E l : /\ loc' = [loc EXCEPT ![t] = l] /\ l.h = loc[t].h
    <3>1. CASE UNCHANGED loc
      <4>1. loc' = [loc EXCEPT ![t] = loc[t]]
        BY <3>1 DEF TypeOK
      <4> QED
        BY <4>1
    <3>2. CASE \E k : Locals(t, loc[t].h, "XPU", k, loc[t].owed)
      BY <3>2 DEF Locals
    <3> QED
      BY <1>8, <3>1, <3>2 DEF DeviceSyncCpu
  <2>3. PICK l : loc' = [loc EXCEPT ![t] = l] /\ l.h = loc[t].h
    BY <2>2
  <2> QED
    BY <2>1, <2>3 DEF CallsInv, TypeOK
<1>9. CASE \/ XpuMarker \/ XpuApi \/ XpuEnd \/ CpuMarker \/ CpuApi \/ CpuEnd
           \/ \E c \in Channels : Execute(c) \/ IrqStart(c)
           \/ UNCHANGED vars
  <2>1. UNCHANGED <<pc, loc, handle_list>>
    BY <1>9 DEF XpuMarker, XpuApi, XpuEnd, CpuMarker, CpuApi, CpuEnd, ApiDone,
                Execute, IrqStart, vars
  <2> QED
    BY <2>1 DEF CallsInv
<1> QED
  BY <1>1, <1>2, <1>3, <1>4, <1>5, <1>6, <1>7, <1>8, <1>9, StepKinds

-----------------------------------------------------------------------------
(* The rings.                                                                *)

LEMMA RingFacts ==
  ASSUME TypeOK, NEW c \in Channels
  PROVE  /\ ring[c] \in Seq(Messages) /\ Len(ring[c]) \in Nat
         /\ DOMAIN ring[c] = 1 .. Len(ring[c]) /\ Len(ring[c]) <= RingMsgs
         /\ executed[c] \in Nat /\ executed[c] <= Len(ring[c]) /\ irq[c] \in Nat
         /\ \A i \in DOMAIN ring[c] :
              /\ ring[c][i] \in Messages /\ ring[c][i].seq \in Nat
              /\ ring[c][i].h \in Handles /\ ring[c][i].t \in Threads
<1>1. ring[c] \in Seq(Messages) /\ executed[c] \in Nat /\ irq[c] \in Nat
  BY NumberTypes DEF TypeOK
<1>2. Len(ring[c]) \in Nat /\ DOMAIN ring[c] = 1 .. Len(ring[c])
  BY <1>1, LenProperties
<1>3. \A i \in DOMAIN ring[c] : ring[c][i] \in Messages
  BY <1>1, <1>2, ElementOfSeq
<1> QED
  BY <1>1, <1>2, <1>3, NumberTypes DEF TypeOK, Messages

(* The first message of a ring is released.                                  *)
Released(c) ==
  /\ ring' \in [Channels -> Seq(Messages)] /\ executed' \in [Channels -> Nat]
  /\ Len(ring[c]) > 0 /\ executed[c] > 0
  /\ Len(ring'[c]) = Len(ring[c]) - 1 /\ DOMAIN ring'[c] = 1 .. Len(ring[c]) - 1
  /\ \A i \in 1 .. Len(ring[c]) - 1 : ring'[c][i] = ring[c][i + 1]
  /\ executed'[c] = executed[c] - 1
  /\ \A d \in Channels \ {c} : ring'[d] = ring[d] /\ executed'[d] = executed[d]

LEMMA ReleaseFacts ==
  ASSUME TypeOK, NEW c \in Channels, executed[c] > 0, Release(c)
  PROVE  Released(c)
<1>1. /\ ring[c] \in Seq(Messages) /\ Len(ring[c]) \in Nat /\ Len(ring[c]) > 0
      /\ executed[c] \in Nat
  BY RingFacts
<1>2. ring[c] # <<>>
  BY <1>1
<1>3. Tail(ring[c]) \in Seq(Messages) /\ Len(Tail(ring[c])) = Len(ring[c]) - 1
      /\ \A i \in 1 .. Len(Tail(ring[c])) : Tail(ring[c])[i] = ring[c][i + 1]
  BY <1>1, <1>2, HeadTailProperties
<1>4. DOMAIN Tail(ring[c]) = 1 .. Len(ring[c]) - 1
  BY <1>3, LenProperties
<1>5. ring'[c] = Tail(ring[c]) /\ ring' \in [Channels -> Seq(Messages)]
      /\ \A d \in Channels \ {c} : ring'[d] = ring[d]
  BY <1>3 DEF Release, TypeOK
<1>6. executed'[c] = executed[c] - 1
      /\ \A d \in Channels \ {c} : executed'[d] = executed[d]
  BY DEF Release, TypeOK
<1>7. executed' \in [Channels -> Nat]
  <2>1. executed' = [executed EXCEPT ![c] = executed[c] - 1]
    BY DEF Release
  <2>2. executed[c] - 1 \in Nat /\ \A d \in Channels : executed[d] \in Nat
    BY <1>1, RingFacts
  <2> QED
    BY <2>1, <2>2 DEF TypeOK
<1> QED
  BY <1>1, <1>3, <1>4, <1>5, <1>6, <1>7 DEF Released

LEMMA ReleasingFacts ==
  ASSUME TypeOK, InterruptsInv
  PROVE  XpuApi => Released("XPU")
<1> SUFFICES ASSUME XpuApi
             PROVE  Released("XPU")
  OBVIOUS
<1>1. Release("XPU") /\ handler.on = "XPU" /\ handler.pending > 0
  BY DEF XpuApi, ApiDone
<1>2. executed["XPU"] > 0
  BY <1>1, RingFacts, NumberTypes DEF InterruptsInv, InterruptPerMessage, TypeOK
<1> QED
  BY <1>1, <1>2, ReleaseFacts, NumberTypes

LEMMA ReleasingCpuFacts ==
  ASSUME TypeOK, InterruptsInv
  PROVE  CpuApi => Released("CPU")
<1> SUFFICES ASSUME CpuApi
             PROVE  Released("CPU")
  OBVIOUS
<1>1. Release("CPU") /\ handler.on = "CPU" /\ handler.pending > 0
  BY DEF CpuApi, ApiDone, CpuScan
<1>2. executed["CPU"] > 0
  <2>1. handler.pending \in Nat
    BY NumberTypes DEF TypeOK
  <2> QED
    BY <1>1, <2>1 DEF InterruptsInv
<1> QED
  BY <1>1, <1>2, ReleaseFacts, NumberTypes

(* A message is written.                                                     *)
Written(t, c) ==
  /\ ring' \in [Channels -> Seq(Messages)]
  /\ Len(ring'[c]) = Len(ring[c]) + 1 /\ DOMAIN ring'[c] = 1 .. Len(ring[c]) + 1
  /\ \A i \in 1 .. Len(ring[c]) : ring'[c][i] = ring[c][i]
  /\ ring'[c][Len(ring[c]) + 1] = Message(loc[t].seq, loc[t].h, t)
  /\ \A d \in Channels \ {c} : ring'[d] = ring[d]

LEMMA CopyFacts ==
  ASSUME TypeOK, CallsInv, SendersInv, NEW t \in Threads, CopyToMsgfifo(t)
  PROVE  loc[t].c \in Channels /\ Written(t, loc[t].c)
<1> DEFINE c == loc[t].c
           m == Message(loc[t].seq, loc[t].h, t)
<1>1. pc[t] = "copy" /\ c \in Channels /\ loc[t].h \in Handles
  BY DEF CopyToMsgfifo, TypeOK, CallsInv
<1>2. loc[t].seq \in SeqNos
  BY <1>1, SenderNumber DEF Sending
<1>3. m \in Messages
  BY <1>1, <1>2 DEF Message, Messages
<1>4. ring[c] \in Seq(Messages) /\ Len(ring[c]) \in Nat
  BY <1>1, RingFacts
<1>5. ring' = [ring EXCEPT ![c] = Append(ring[c], m)]
  BY DEF CopyToMsgfifo
<1> HIDE DEF m, c
<1>6. /\ Append(ring[c], m) \in Seq(Messages)
      /\ Len(Append(ring[c], m)) = Len(ring[c]) + 1
      /\ \A i \in 1 .. Len(ring[c]) : Append(ring[c], m)[i] = ring[c][i]
      /\ Append(ring[c], m)[Len(ring[c]) + 1] = m
  BY <1>3, <1>4, AppendProperties
<1>7. DOMAIN Append(ring[c], m) = 1 .. Len(ring[c]) + 1
  BY <1>6, LenProperties
<1>8. ring'[c] = Append(ring[c], m) /\ ring' \in [Channels -> Seq(Messages)]
      /\ \A d \in Channels \ {c} : ring'[d] = ring[d]
  BY <1>1, <1>5, <1>6 DEF TypeOK
<1> QED
  BY <1>1, <1>6, <1>7, <1>8 DEF Written, c, m

-----------------------------------------------------------------------------
(* Interrupts.                                                               *)

(* A message in the ring of the XPU has an entry in api_fifo.                *)
LEMMA FifoNotEmpty ==
  ASSUME TypeOK, EntriesMatchMessages, Len(ring["XPU"]) > 0
  PROVE  api_fifo # <<>>
<1>1. 1 \in DOMAIN ring["XPU"]
  BY RingFacts, NumberTypes
<1>2. ring["XPU"][1] \in ApisIn(api_fifo)
  BY <1>1 DEF EntriesMatchMessages
<1>3. PICK i \in DOMAIN api_fifo : ~IsMarker(api_fifo[i])
  BY <1>2 DEF ApisIn
<1> QED
  BY <1>3

LEMMA InterruptsStep ==
  ASSUME TypeOK, CallsInv, InterruptsInv, EntriesMatchMessages, [Next]_vars
  PROVE  InterruptsInv'
<1> USE DEF handles, thds, card, syncs, noApiStep, InterruptsInv, InterruptPerMessage
<1>0. /\ executed \in [Channels -> 0 .. RingMsgs] /\ irq \in [Channels -> 0 .. RingMsgs]
      /\ handler.pending \in Nat /\ handler.on \in Channels \cup {"none"}
      /\ executed["XPU"] \in Nat /\ irq["XPU"] \in Nat
      /\ executed["CPU"] \in Nat /\ irq["CPU"] \in Nat
  BY NumberTypes DEF TypeOK
<1>1. ASSUME NEW c \in Channels, Execute(c)
      PROVE  InterruptsInv'
  <2>1. /\ executed'[c] = executed[c] + 1 /\ handler' = handler
        /\ irq'[c] = IF c = "XPU" THEN irq[c] + 1 ELSE 1
        /\ \A d \in Channels \ {c} : executed'[d] = executed[d] /\ irq'[d] = irq[d]
    BY <1>0, <1>1 DEF Execute
  <2>2. CASE c = "XPU"
    BY <1>0, <2>1, <2>2, NumberTypes
  <2>3. CASE c = "CPU"
    BY <1>0, <2>1, <2>3, NumberTypes
  <2> QED
    BY <2>2, <2>3 DEF Channels
<1>2. ASSUME NEW c \in Channels, IrqStart(c)
      PROVE  InterruptsInv'
  <2>1. /\ handler.on = "none" /\ executed' = executed /\ irq[c] > 0
        /\ irq'[c] = 0 /\ \A d \in Channels \ {c} : irq'[d] = irq[d]
        /\ IF c = "CPU" /\ executed[c] = 0
           THEN handler' = handler
           ELSE handler' = [on |-> c, pending |-> irq[c]]
    BY <1>0, <1>2 DEF IrqStart
  <2>2. CASE c = "XPU"
    BY <1>0, <2>1, <2>2, NumberTypes
  <2>3. CASE c = "CPU"
    BY <1>0, <2>1, <2>3, NumberTypes
  <2> QED
    BY <2>2, <2>3 DEF Channels
<1>3. CASE XpuApi
  <2>1. Released("XPU") /\ irq' = irq /\ handler.on = "XPU"
        /\ handler' = [handler EXCEPT !.pending = @ - 1]
    BY <1>3, ReleasingFacts DEF XpuApi
  <2>2. /\ executed'["XPU"] = executed["XPU"] - 1 /\ executed'["CPU"] = executed["CPU"]
        /\ handler'.on = "XPU" /\ handler'.pending = handler.pending - 1
    BY <2>1, NumberTypes DEF Released, TypeOK
  <2> QED
    BY <1>0, <2>1, <2>2
<1>4. CASE CpuApi
  <2>1. Released("CPU") /\ irq' = irq /\ handler.on = "CPU" /\ handler.pending > 0
        /\ handler' = [handler EXCEPT !.pending = IF executed'["CPU"] = 0
                                                  THEN @ - 1 ELSE @]
    BY <1>4, ReleasingCpuFacts DEF CpuApi, CpuScan
  <2>2. /\ executed'["CPU"] \in Nat /\ executed'["XPU"] = executed["XPU"]
        /\ handler'.on = "CPU"
        /\ handler'.pending = IF executed'["CPU"] = 0 THEN handler.pending - 1
                              ELSE handler.pending
    BY <2>1, NumberTypes DEF Released, TypeOK
  <2> QED
    BY <1>0, <2>1, <2>2
<1>5. CASE XpuEnd
  <2>1. handler.on = "XPU" /\ UNCHANGED <<executed, irq>>
        /\ handler' = [on |-> "none", pending |-> 0]
    BY <1>5 DEF XpuEnd, HandlerEnd
  <2>2. handler.pending = 0
    <3>1. SUFFICES ASSUME handler.pending > 0
                   PROVE  FALSE
      BY <1>0
    <3>2. Len(ring["XPU"]) > 0
      BY <1>0, <2>1, <3>1, RingFacts, NumberTypes
    <3> QED
      BY <1>5, <3>1, <3>2, FifoNotEmpty DEF XpuEnd
  <2> QED
    BY <1>0, <2>1, <2>2
<1>6. CASE CpuEnd
  BY <1>0, <1>6 DEF CpuEnd, HandlerEnd
<1>7. ASSUME NEW t \in Threads, NEW h \in Handles,
             \/ Open(t, h) \/ QueryApi(t, h) \/ DeviceSync(t, h)
             \/ \E c \in Channels : SendApi(t, h, c)
      PROVE  InterruptsInv'
  <2>1. UNCHANGED <<executed, irq, handler>>
    BY <1>7 DEF Open, QueryApi, DeviceSync, SendApi
  <2> QED
    BY <2>1
<1>8. ASSUME NEW t \in Threads,
             \/ Local(t) \/ CloseFree(t) \/ RecordSeq(t) \/ WaitMsgfifo(t)
             \/ Enqueue(t) \/ Fail(t) \/ CopyToMsgfifo(t) \/ QueryDone(t)
             \/ DeviceSyncCpu(t)
      PROVE  InterruptsInv'
  <2>1. UNCHANGED <<executed, irq, handler>>
    BY <1>8 DEF Local, CloseFree, RecordSeq, WaitMsgfifo, Enqueue, Fail, GiveUp,
                CopyToMsgfifo, QueryDone, DeviceSyncCpu
  <2> QED
    BY <2>1
<1>9. CASE UNCHANGED vars \/ XpuMarker \/ CpuMarker
  <2>1. UNCHANGED <<executed, irq, handler>>
    BY <1>9 DEF vars, XpuMarker, CpuMarker
  <2> QED
    BY <2>1
<1> QED
  BY <1>1, <1>2, <1>3, <1>4, <1>5, <1>6, <1>7, <1>8, <1>9, StepKinds

-----------------------------------------------------------------------------
(* Senders.                                                                  *)

(* What the senders depend on, but for their own steps.                      *)
LEMMA SendersKept ==
  ASSUME TypeOK, CallsInv, SendersInv, NEW t \in Threads,
         \A u \in Threads \ {t} : pc'[u] = pc[u] /\ loc'[u] = loc[u],
         pc[t] \notin Sending, pc'[t] \notin Sending,
         UNCHANGED <<bm_send_api_seq, api_mutex, threads, last_api_seq, ring>>
  PROVE  SendersInv'
BY DEF SendersInv, Sending

LEMMA SendersStep ==
  ASSUME TypeOK, CallsInv, SendersInv, InterruptsInv, [Next]_vars
  PROVE  SendersInv'
<1> USE DEF handles, thds, card, syncs, noApiStep
<1>0. /\ bm_send_api_seq \in Nat /\ \A t \in Threads : loc[t].c \in Channels
      /\ \A t \in Threads : pc[t] # "idle" => loc[t].h \in Handles
      /\ api_mutex \in [Channels -> Threads \cup {NoThread}]
      /\ pc \in [Threads -> SystemCalls] /\ loc \in [Threads -> Locs]
      /\ last_api_seq \in [Handles \X Threads -> SeqNos]
      /\ \A c \in Channels : Len(ring[c]) \in Nat
      /\ NoThread \notin Threads
  BY NumberTypes, RingFacts, ApiAssumption DEF TypeOK, Locs, CallsInv
<1>1. ASSUME NEW t \in Threads, NEW h \in Handles, Open(t, h)
      PROVE  SendersInv'
  <2>1. /\ UNCHANGED <<pc, loc, bm_send_api_seq, api_mutex, ring>>
        /\ threads' = threads \cup {<<h, t>>}
        /\ last_api_seq' = [last_api_seq EXCEPT ![<<h, t>>] = 0]
        /\ h \notin handle_list
    BY <1>1 DEF Open, CreateThreadInfo
  <2>2. \A u \in Threads : pc[u] \in Sending =>
          last_api_seq'[<<loc[u].h, u>>] = last_api_seq[<<loc[u].h, u>>]
    <3> SUFFICES ASSUME NEW u \in Threads, pc[u] \in Sending
                 PROVE  last_api_seq'[<<loc[u].h, u>>] = last_api_seq[<<loc[u].h, u>>]
      OBVIOUS
    <3>1. loc[u].h \in Handles /\ loc[u].h # h
      BY <1>0, <2>1 DEF CallsInv, Sending
    <3>2. <<loc[u].h, u>> # <<h, t>> /\ <<loc[u].h, u>> \in Handles \X Threads
      BY <3>1
    <3> QED
      BY <1>0, <2>1, <3>2
  <2> QED
    BY <2>1, <2>2 DEF SendersInv, Sending
<1>2. ASSUME NEW t \in Threads, CloseFree(t)
      PROVE  SendersInv'
  <2>1. /\ pc[t] = "close" /\ pc'[t] = "idle"
        /\ \A u \in Threads \ {t} : pc'[u] = pc[u] /\ loc'[u] = loc[u]
        /\ UNCHANGED <<bm_send_api_seq, api_mutex, ring>>
        /\ threads' = {x \in threads : x[1] # loc[t].h}
        /\ last_api_seq' = [x \in DOMAIN last_api_seq |->
                              IF x[1] = loc[t].h THEN 0 ELSE last_api_seq[x]]
    BY <1>2, ReturnFacts DEF CloseFree
  <2>2. ASSUME NEW u \in Threads, pc'[u] \in Sending
        PROVE  /\ pc'[u] = pc[u] /\ loc'[u] = loc[u]
               /\ <<loc[u].h, u>> \in threads => <<loc[u].h, u>> \in threads'
               /\ last_api_seq'[<<loc[u].h, u>>] = last_api_seq[<<loc[u].h, u>>]
    <3>1. u # t /\ pc[u] \in Sending
      BY <2>1, <2>2 DEF Sending
    <3>2. loc[u].h # loc[t].h /\ loc[u].h \in Handles
      BY <1>0, <2>1, <3>1 DEF CallsInv, Sending
    <3>3. <<loc[u].h, u>> \in DOMAIN last_api_seq /\ <<loc[u].h, u>>[1] = loc[u].h
      BY <1>0, <3>2
    <3> QED
      BY <2>1, <3>1, <3>2, <3>3
  <2>3. ASSUME NEW u \in Threads
        PROVE  /\ pc'[u] \in Sending =>
                    /\ api_mutex'[loc'[u].c] = u
                    /\ loc'[u].seq \in 1 .. bm_send_api_seq'
                    /\ <<loc'[u].h, u>> \in threads'
               /\ pc'[u] \in {"wait", "enqueue", "copy"} =>
                    last_api_seq'[<<loc'[u].h, u>>] = loc'[u].seq
               /\ pc'[u] \in {"enqueue", "copy"} => Len(ring'[loc'[u].c]) < RingMsgs
    <3>1. CASE pc'[u] \in Sending
      <4>1. /\ pc'[u] = pc[u] /\ loc'[u] = loc[u] /\ pc[u] \in Sending
            /\ <<loc[u].h, u>> \in threads => <<loc[u].h, u>> \in threads'
            /\ last_api_seq'[<<loc[u].h, u>>] = last_api_seq[<<loc[u].h, u>>]
        BY <2>2, <3>1
      <4> QED
        BY <2>1, <4>1 DEF SendersInv
    <3>2. CASE pc'[u] \notin Sending
      BY <3>2 DEF Sending
    <3> QED
      BY <3>1, <3>2
  <2> QED
    BY <2>3 DEF SendersInv
<1>3. ASSUME NEW t \in Threads, NEW h \in Handles, NEW c \in Channels, SendApi(t, h, c)
      PROVE  SendersInv'
  <2>1. /\ pc[t] = "idle" /\ api_mutex[c] = NoThread /\ ring' = ring
        /\ pc' = [pc EXCEPT ![t] = "record"]
        /\ loc' = [loc EXCEPT ![t] = [h |-> h, c |-> c, seq |-> bm_send_api_seq + 1,
                                      owed |-> {}]]
        /\ api_mutex' = [api_mutex EXCEPT ![c] = t]
        /\ bm_send_api_seq' = bm_send_api_seq + 1
    BY <1>3 DEF SendApi, MayCall, Goto, Locals
  <2>2. /\ <<h, t>> \in threads' /\ threads \subseteq threads'
        /\ \A u \in Threads \ {t}, g \in Handles :
             last_api_seq'[<<g, u>>] = last_api_seq[<<g, u>>]
    <3>1. CASE <<h, t>> \in threads
      BY <1>3, <3>1 DEF SendApi
    <3>2. CASE <<h, t>> \notin threads
      <4>1. /\ threads' = threads \cup {<<h, t>>}
            /\ last_api_seq' = [last_api_seq EXCEPT ![<<h, t>>] = 0]
        BY <1>3, <3>2 DEF SendApi, CreateThreadInfo
      <4> QED
        BY <1>0, <4>1
    <3> QED
      BY <3>1, <3>2
  <2>3. ASSUME NEW u \in Threads, u # t, pc'[u] \in Sending
        PROVE  /\ pc'[u] = pc[u] /\ loc'[u] = loc[u] /\ loc[u].c # c
               /\ api_mutex'[loc[u].c] = api_mutex[loc[u].c]
    <3>1. pc'[u] = pc[u] /\ loc'[u] = loc[u]
      BY <1>0, <2>1, <2>3
    <3>2. api_mutex[loc[u].c] = u
      BY <2>3, <3>1 DEF SendersInv
    <3> QED
      BY <1>0, <2>1, <3>1, <3>2
  <2>4. ASSUME NEW u \in Threads, u # t
        PROVE  /\ pc'[u] \in Sending =>
                    /\ api_mutex'[loc'[u].c] = u
                    /\ loc'[u].seq \in 1 .. bm_send_api_seq'
                    /\ <<loc'[u].h, u>> \in threads'
               /\ pc'[u] \in {"wait", "enqueue", "copy"} =>
                    last_api_seq'[<<loc'[u].h, u>>] = loc'[u].seq
               /\ pc'[u] \in {"enqueue", "copy"} => Len(ring'[loc'[u].c]) < RingMsgs
    <3> SUFFICES ASSUME pc'[u] \in Sending
                 PROVE  /\ api_mutex'[loc'[u].c] = u
                        /\ loc'[u].seq \in 1 .. bm_send_api_seq'
                        /\ <<loc'[u].h, u>> \in threads'
                        /\ pc'[u] \in {"wait", "enqueue", "copy"} =>
                             last_api_seq'[<<loc'[u].h, u>>] = loc'[u].seq
                        /\ pc'[u] \in {"enqueue", "copy"} => Len(ring'[loc'[u].c]) < RingMsgs
      BY DEF Sending
    <3>1. pc'[u] = pc[u] /\ loc'[u] = loc[u] /\ api_mutex'[loc[u].c] = api_mutex[loc[u].c]
          /\ loc[u].h \in Handles
      BY <1>0, <2>3, <2>4 DEF Sending
    <3>2. loc[u].seq \in 1 .. bm_send_api_seq'
      <4>1. loc[u].seq \in 1 .. bm_send_api_seq
        BY <3>1 DEF SendersInv
      <4> QED
        BY <1>0, <2>1, <4>1
    <3> QED
      BY <2>1, <2>2, <2>4, <3>1, <3>2 DEF SendersInv
  <2>5. /\ pc'[t] = "record" /\ loc'[t].c = c /\ loc'[t].h = h
        /\ loc'[t].seq = bm_send_api_seq + 1 /\ api_mutex'[c] = t
    BY <1>0, <2>1
  <2>6. loc'[t].seq \in 1 .. bm_send_api_seq'
    BY <1>0, <2>1, <2>5
  <2> QED
    BY <2>2, <2>4, <2>5, <2>6 DEF SendersInv
<1>4. ASSUME NEW t \in Threads, RecordSeq(t) \/ WaitMsgfifo(t) \/ Enqueue(t)
      PROVE  SendersInv'
  <2>1. /\ pc[t] \in {"record", "wait", "enqueue"} /\ loc[t].h \in Handles
        /\ UNCHANGED <<loc, bm_send_api_seq, api_mutex, threads, ring>>
        /\ \E p \in {"wait", "enqueue", "copy"} : pc' = [pc EXCEPT ![t] = p]
    BY <1>0, <1>4 DEF RecordSeq, WaitMsgfifo, Enqueue, Goto
  <2>2. \A u \in Threads \ {t} : pc'[u] = pc[u]
    BY <1>0, <2>1
  <2>3. \A u \in Threads \ {t}, g \in Handles :
          last_api_seq'[<<g, u>>] = last_api_seq[<<g, u>>]
    BY <1>0, <1>4 DEF RecordSeq, WaitMsgfifo, Enqueue
  <2>4. last_api_seq'[<<loc[t].h, t>>] = loc[t].seq
    <3>1. CASE RecordSeq(t)
      BY <1>0, <2>1, <3>1 DEF RecordSeq
    <3>2. CASE WaitMsgfifo(t) \/ Enqueue(t)
      BY <3>2 DEF WaitMsgfifo, Enqueue, SendersInv
    <3> QED
      BY <1>4, <3>1, <3>2
  <2>5. pc'[t] \in {"enqueue", "copy"} => Len(ring[loc[t].c]) < RingMsgs
    BY <1>0, <1>4 DEF RecordSeq, WaitMsgfifo, Enqueue, SendersInv, Goto
  <2>6. pc[t] \in Sending /\ pc'[t] \in Sending
    BY <1>0, <2>1 DEF Sending
  <2> QED
    BY <1>0, <2>1, <2>2, <2>3, <2>4, <2>5, <2>6 DEF SendersInv, Sending
<1>5. ASSUME NEW t \in Threads, Fail(t) \/ CopyToMsgfifo(t)
      PROVE  SendersInv'
  <2> DEFINE c == loc[t].c
  <2>1. /\ pc[t] \in {"wait", "enqueue", "copy"} /\ pc'[t] = "idle"
        /\ \A u \in Threads \ {t} : pc'[u] = pc[u] /\ loc'[u] = loc[u]
        /\ UNCHANGED <<bm_send_api_seq, threads>>
        /\ api_mutex' = [api_mutex EXCEPT ![c] = NoThread]
        /\ \A d \in Channels \ {c} : ring'[d] = ring[d]
    <3>1. \A d \in Channels \ {c} : ring'[d] = ring[d]
      BY <1>0, <1>5, CopyFacts DEF Fail, GiveUp, Written
    <3> QED
      BY <1>5, <3>1, ReturnFacts DEF Fail, GiveUp, CopyToMsgfifo
  <2>2. \A u \in Threads \ {t}, g \in Handles :
          last_api_seq'[<<g, u>>] = last_api_seq[<<g, u>>]
    BY <1>0, <1>5 DEF Fail, GiveUp, CopyToMsgfifo
  <2>3. api_mutex[c] = t
    BY <2>1 DEF SendersInv, Sending
  <2>4. ASSUME NEW u \in Threads, pc'[u] \in Sending
        PROVE  /\ u # t /\ loc[u].c # c /\ ring'[loc[u].c] = ring[loc[u].c]
               /\ api_mutex'[loc[u].c] = api_mutex[loc[u].c] /\ loc[u].h \in Handles
               /\ pc'[u] = pc[u] /\ loc'[u] = loc[u]
    <3>1. u # t
      BY <2>1, <2>4 DEF Sending
    <3>2. pc'[u] = pc[u] /\ loc'[u] = loc[u] /\ loc[u].h \in Handles
      BY <1>0, <2>1, <2>4, <3>1 DEF Sending
    <3>3. api_mutex[loc[u].c] = u
      BY <2>4, <3>2 DEF SendersInv
    <3> QED
      BY <1>0, <2>1, <2>3, <3>1, <3>2, <3>3
  <2> HIDE DEF c
  <2> QED
    BY <2>1, <2>2, <2>4 DEF SendersInv, Sending
<1>6. ASSUME NEW t \in Threads,
             \/ Local(t) \/ QueryDone(t) \/ DeviceSyncCpu(t)
             \/ \E h \in Handles : QueryApi(t, h) \/ DeviceSync(t, h)
      PROVE  SendersInv'
  <2>1. /\ \A u \in Threads \ {t} : pc'[u] = pc[u] /\ loc'[u] = loc[u]
        /\ pc[t] \notin Sending /\ pc'[t] \notin Sending
    <3>1. CASE Local(t)
      BY <3>1 DEF Local
    <3>2. CASE QueryDone(t)
      BY <3>2, ReturnFacts DEF QueryDone, Sending
    <3>3. CASE DeviceSyncCpu(t)
      BY <1>0, <3>3 DEF DeviceSyncCpu, Goto, Locals, Sending
    <3>4. ASSUME NEW h \in Handles, QueryApi(t, h)
          PROVE  /\ \A u \in Threads \ {t} : pc'[u] = pc[u] /\ loc'[u] = loc[u]
                 /\ pc[t] \notin Sending /\ pc'[t] \notin Sending
      BY <1>0, <3>4 DEF QueryApi, MayCall, Goto, Locals, Sending
    <3>5. ASSUME NEW h \in Handles, DeviceSync(t, h)
          PROVE  /\ \A u \in Threads \ {t} : pc'[u] = pc[u] /\ loc'[u] = loc[u]
                 /\ pc[t] \notin Sending /\ pc'[t] \notin Sending
      BY <1>0, <3>5 DEF DeviceSync, MayCall, Goto, Locals, Sending
    <3> QED
      BY <1>6, <3>1, <3>2, <3>3, <3>4, <3>5
  <2>2. UNCHANGED <<bm_send_api_seq, api_mutex, threads, last_api_seq, ring>>
    BY <1>6 DEF Local, QueryDone, DeviceSyncCpu, QueryApi, DeviceSync
  <2> QED
    BY <2>1, <2>2, SendersKept
<1>7. CASE XpuApi \/ CpuApi
  <2>1. /\ UNCHANGED <<pc, loc, bm_send_api_seq, api_mutex, threads, last_api_seq>>
    BY <1>7 DEF XpuApi, CpuApi, ApiDone
  <2>2. \A d \in Channels : Len(ring'[d]) <= Len(ring[d]) /\ Len(ring'[d]) \in Nat
    <3>1. Released("XPU") \/ Released("CPU")
      BY <1>7, ReleasingFacts, ReleasingCpuFacts
    <3> QED
      BY <1>0, <3>1, NumberTypes DEF Released, Channels
  <2>3. \A d \in Channels : Len(ring[d]) < RingMsgs => Len(ring'[d]) < RingMsgs
    BY <1>0, <2>2, NumberTypes
  <2> QED
    BY <1>0, <2>1, <2>3 DEF SendersInv
<1>8. CASE \/ UNCHANGED vars \/ XpuMarker \/ CpuMarker \/ XpuEnd \/ CpuEnd
           \/ \E c \in Channels : Execute(c) \/ IrqStart(c)
  <2>1. UNCHANGED <<pc, loc, bm_send_api_seq, api_mutex, threads, last_api_seq, ring>>
    BY <1>8 DEF vars, XpuMarker, CpuMarker, XpuEnd, CpuEnd, Execute, IrqStart
  <2> QED
    BY <2>1 DEF SendersInv
<1> QED
  BY <1>1, <1>2, <1>3, <1>4, <1>5, <1>6, <1>7, <1>8, StepKinds

-----------------------------------------------------------------------------
(* Numbers.                                                                  *)

(* A number is drawn.                                                        *)
LEMMA SendApiFacts ==
  ASSUME TypeOK, CallsInv, SendersInv, NEW t \in Threads, NEW h \in Handles,
         NEW c \in Channels, SendApi(t, h, c)
  PROVE  /\ pc[t] = "idle" /\ pc'[t] = "record" /\ pc' \in [Threads -> SystemCalls]
         /\ loc' \in [Threads -> Locs] /\ loc'[t].h = h /\ loc'[t].c = c
         /\ loc'[t].seq = bm_send_api_seq + 1 /\ loc'[t].owed = {}
         /\ \A u \in Threads \ {t} : pc'[u] = pc[u] /\ loc'[u] = loc[u]
         /\ \A u \in Threads : ~SendsOn(u, c)
         /\ bm_send_api_seq \in Nat /\ bm_send_api_seq + 1 \in SeqNos
         /\ bm_send_api_seq' = bm_send_api_seq + 1
         /\ UNCHANGED <<handles, ring, card, api_fifo, api_list, syncs, handler>>
<1>1. /\ pc[t] = "idle" /\ bm_send_api_seq < MaxSeq /\ api_mutex[c] = NoThread
      /\ pc' = [pc EXCEPT ![t] = "record"]
      /\ loc' = [loc EXCEPT ![t] = [h |-> h, c |-> c, seq |-> bm_send_api_seq + 1,
                                    owed |-> {}]]
  BY DEF SendApi, MayCall, Goto, Locals
<1>2. bm_send_api_seq \in Nat /\ bm_send_api_seq + 1 \in SeqNos
  BY <1>1, ApiAssumption DEF TypeOK, SeqNos
<1>3. /\ pc' \in [Threads -> SystemCalls] /\ loc' \in [Threads -> Locs]
      /\ \A u \in Threads \ {t} : pc'[u] = pc[u] /\ loc'[u] = loc[u]
      /\ pc'[t] = "record" /\ loc'[t].h = h /\ loc'[t].c = c
      /\ loc'[t].seq = bm_send_api_seq + 1 /\ loc'[t].owed = {}
  BY <1>1, <1>2 DEF TypeOK, Locs, SystemCalls
<1>4. ASSUME NEW u \in Threads, SendsOn(u, c)
      PROVE  FALSE
  <2>1. api_mutex[loc[u].c] = u /\ loc[u].c = c
    BY <1>4 DEF SendersInv, SendsOn
  <2>2. NoThread \notin Threads
    BY ApiAssumption
  <2> QED
    BY <1>1, <2>1, <2>2
<1> QED
  BY <1>1, <1>2, <1>3, <1>4 DEF SendApi

(* No other step draws a number, or makes a sender.                          *)
LEMMA SenderSteps ==
  ASSUME TypeOK, CallsInv, [Next]_vars
  PROVE  \/ \E t \in Threads, h \in Handles, c \in Channels : SendApi(t, h, c)
         \/ /\ bm_send_api_seq' = bm_send_api_seq
            /\ \A u \in Threads : pc'[u] \in Sending =>
                 pc[u] \in Sending /\ loc'[u] = loc[u]
<1> DEFINE Same == /\ bm_send_api_seq' = bm_send_api_seq
                   /\ \A u \in Threads : pc'[u] \in Sending =>
                        pc[u] \in Sending /\ loc'[u] = loc[u]
<1>0. pc \in [Threads -> SystemCalls] /\ loc \in [Threads -> Locs]
  BY DEF TypeOK, Locs
<1>1. ASSUME NEW t \in Threads,
             \/ Local(t) \/ QueryDone(t) \/ DeviceSyncCpu(t) \/ CloseFree(t)
             \/ Fail(t) \/ CopyToMsgfifo(t)
             \/ \E h \in Handles : QueryApi(t, h) \/ DeviceSync(t, h)
      PROVE  Same
  <2>1. /\ \A u \in Threads \ {t} : pc'[u] = pc[u] /\ loc'[u] = loc[u]
        /\ pc'[t] \notin Sending
    <3>1. CASE Local(t)
      BY <3>1 DEF Local
    <3>2. CASE QueryDone(t) \/ CloseFree(t) \/ Fail(t) \/ CopyToMsgfifo(t)
      <4>1. Return(t)
        BY <3>2 DEF QueryDone, CloseFree, Fail, GiveUp, CopyToMsgfifo
      <4> QED
        BY <4>1, ReturnFacts DEF Sending
    <3>3. CASE DeviceSyncCpu(t)
      BY <1>0, <3>3 DEF DeviceSyncCpu, Goto, Locals, Sending
    <3>4. ASSUME NEW h \in Handles, QueryApi(t, h)
          PROVE  /\ \A u \in Threads \ {t} : pc'[u] = pc[u] /\ loc'[u] = loc[u]
                 /\ pc'[t] \notin Sending
      BY <1>0, <3>4 DEF QueryApi, Goto, Locals, Sending
    <3>5. ASSUME NEW h \in Handles, DeviceSync(t, h)
          PROVE  /\ \A u \in Threads \ {t} : pc'[u] = pc[u] /\ loc'[u] = loc[u]
                 /\ pc'[t] \notin Sending
      BY <1>0, <3>5 DEF DeviceSync, Goto, Locals, Sending
    <3> QED
      BY <1>1, <3>1, <3>2, <3>3, <3>4, <3>5
  <2>2. bm_send_api_seq' = bm_send_api_seq
    BY <1>1 DEF Local, QueryDone, DeviceSyncCpu, CloseFree, Fail, GiveUp, CopyToMsgfifo,
                QueryApi, DeviceSync, noApiStep
  <2> QED
    BY <2>1, <2>2
<1>2. ASSUME NEW t \in Threads, RecordSeq(t) \/ WaitMsgfifo(t) \/ Enqueue(t)
      PROVE  Same
  <2>1. /\ pc[t] \in Sending /\ loc' = loc /\ bm_send_api_seq' = bm_send_api_seq
        /\ \A u \in Threads \ {t} : pc'[u] = pc[u]
    BY <1>0, <1>2 DEF RecordSeq, WaitMsgfifo, Enqueue, Goto, Sending
  <2> QED
    BY <2>1
<1>3. ASSUME \/ UNCHANGED vars \/ XpuMarker \/ CpuMarker \/ XpuEnd \/ CpuEnd
             \/ XpuApi \/ CpuApi
             \/ \E c \in Channels : Execute(c) \/ IrqStart(c)
             \/ \E t \in Threads, h \in Handles : Open(t, h)
      PROVE  Same
  <2>1. UNCHANGED <<pc, loc, bm_send_api_seq>>
    BY <1>3 DEF vars, XpuMarker, CpuMarker, XpuEnd, CpuEnd, XpuApi, CpuApi, Execute,
                IrqStart, Open
  <2> QED
    BY <2>1
<1> HIDE DEF Same
<1>4. ASSUME ~(\E t \in Threads, h \in Handles, c \in Channels : SendApi(t, h, c))
      PROVE  Same
  <2>1. ASSUME Next
        PROVE  Same
    BY <1>1, <1>2, <1>3, <1>4, <2>1, StepKinds
  <2> QED
    BY <1>3, <2>1
<1> QED
  BY <1>4 DEF Same

(* The rings change when a message is written or released.                   *)
LEMMA RingSteps ==
  ASSUME TypeOK, CallsInv, [Next]_vars
  PROVE  \/ ring' = ring
         \/ \E t \in Threads : CopyToMsgfifo(t)
         \/ XpuApi \/ CpuApi
<1>1. ASSUME NEW t \in Threads,
             \/ Local(t) \/ QueryDone(t) \/ DeviceSyncCpu(t) \/ CloseFree(t)
             \/ Fail(t) \/ RecordSeq(t) \/ WaitMsgfifo(t) \/ Enqueue(t)
             \/ \E h \in Handles : \/ Open(t, h) \/ QueryApi(t, h) \/ DeviceSync(t, h)
                                   \/ \E c \in Channels : SendApi(t, h, c)
      PROVE  ring' = ring
  BY <1>1 DEF Local, QueryDone, DeviceSyncCpu, CloseFree, Fail, GiveUp, RecordSeq,
              WaitMsgfifo, Enqueue, Open, QueryApi, DeviceSync, SendApi, noApiStep
<1>2. CASE \/ UNCHANGED vars \/ XpuMarker \/ CpuMarker \/ XpuEnd \/ CpuEnd
           \/ \E c \in Channels : Execute(c) \/ IrqStart(c)
  BY <1>2 DEF vars, XpuMarker, CpuMarker, XpuEnd, CpuEnd, Execute, IrqStart
<1> QED
  BY <1>1, <1>2, StepKinds

LEMMA ExecutedSteps ==
  ASSUME TypeOK, CallsInv, [Next]_vars
  PROVE  \/ ring' = ring /\ executed' = executed
         \/ \E t \in Threads : CopyToMsgfifo(t)
         \/ XpuApi \/ CpuApi
         \/ \E c \in Channels : Execute(c)
<1>1. ASSUME NEW t \in Threads,
             \/ Local(t) \/ QueryDone(t) \/ DeviceSyncCpu(t) \/ CloseFree(t)
             \/ Fail(t) \/ RecordSeq(t) \/ WaitMsgfifo(t) \/ Enqueue(t)
             \/ \E h \in Handles : \/ Open(t, h) \/ QueryApi(t, h) \/ DeviceSync(t, h)
                                   \/ \E c \in Channels : SendApi(t, h, c)
      PROVE  executed' = executed
  BY <1>1 DEF Local, QueryDone, DeviceSyncCpu, CloseFree, Fail, GiveUp, RecordSeq,
              WaitMsgfifo, Enqueue, Open, QueryApi, DeviceSync, SendApi, noApiStep, card
<1>2. CASE \/ UNCHANGED vars \/ XpuMarker \/ CpuMarker \/ XpuEnd \/ CpuEnd
           \/ \E c \in Channels : IrqStart(c)
  BY <1>2 DEF vars, XpuMarker, CpuMarker, XpuEnd, CpuEnd, IrqStart, card
<1>3. \/ ring' = ring
      \/ \E t \in Threads : CopyToMsgfifo(t)
      \/ XpuApi \/ CpuApi
  BY RingSteps
<1> QED
  BY <1>1, <1>2, <1>3, StepKinds

(* A channel has one sender.                                                 *)
LEMMA OneSender ==
  ASSUME SendersInv, NEW t \in Threads, NEW u \in Threads, NEW c \in Channels,
         SendsOn(t, c), SendsOn(u, c)
  PROVE  t = u
BY DEF SendersInv, SendsOn

LEMMA NumbersStep ==
  ASSUME TypeOK, CallsInv, SendersInv, NumbersInv, InterruptsInv, [Next]_vars
  PROVE  NumbersInv'
<1> SUFFICES ASSUME NEW c \in Channels
             PROVE  /\ Ascending(ring'[c])
                    /\ \A i \in DOMAIN ring'[c] :
                         /\ ring'[c][i].seq \in 1 .. bm_send_api_seq'
                         /\ \A t \in Threads :
                              SendsOn(t, c)' => ring'[c][i].seq < loc'[t].seq
  BY DEF NumbersInv, Ascending
<1>0. /\ Len(ring[c]) \in Nat /\ DOMAIN ring[c] = 1 .. Len(ring[c])
      /\ bm_send_api_seq \in Nat
      /\ \A i \in DOMAIN ring[c] : ring[c][i].seq \in Nat
      /\ \A t \in Threads : loc[t].seq \in Nat
  BY RingFacts, NumberTypes DEF TypeOK
<1>1. /\ \A i, j \in DOMAIN ring[c] : i < j => ring[c][i].seq < ring[c][j].seq
      /\ \A i \in DOMAIN ring[c] :
           /\ ring[c][i].seq \in 1 .. bm_send_api_seq
           /\ \A t \in Threads : SendsOn(t, c) => ring[c][i].seq < loc[t].seq
  BY DEF NumbersInv, Ascending
<1>2. ASSUME NEW t \in Threads, NEW h \in Handles, NEW d \in Channels, SendApi(t, h, d)
      PROVE  /\ bm_send_api_seq' = bm_send_api_seq + 1
             /\ \A i \in DOMAIN ring[c] : \A u \in Threads :
                  SendsOn(u, c)' => ring[c][i].seq < loc'[u].seq
  <2>1. /\ \A u \in Threads \ {t} : pc'[u] = pc[u] /\ loc'[u] = loc[u]
        /\ loc'[t].seq = bm_send_api_seq + 1 /\ bm_send_api_seq' = bm_send_api_seq + 1
    BY <1>2, SendApiFacts
  <2>2. ASSUME NEW i \in DOMAIN ring[c], NEW u \in Threads, SendsOn(u, c)'
        PROVE  ring[c][i].seq < loc'[u].seq
    <3>1. CASE u = t
      BY <1>0, <1>1, <2>1, <3>1
    <3>2. CASE u # t
      <4>1. SendsOn(u, c) /\ loc'[u] = loc[u]
        BY <2>1, <2>2, <3>2 DEF SendsOn
      <4> QED
        BY <1>1, <4>1
    <3> QED
      BY <3>1, <3>2
  <2> QED
    BY <2>1, <2>2
<1>3. /\ bm_send_api_seq' \in Nat /\ bm_send_api_seq <= bm_send_api_seq'
      /\ \A i \in DOMAIN ring[c] : \A u \in Threads :
           SendsOn(u, c)' => ring[c][i].seq < loc'[u].seq
  <2>1. CASE \E t \in Threads, h \in Handles, d \in Channels : SendApi(t, h, d)
    BY <1>0, <1>2, <2>1
  <2>2. CASE /\ bm_send_api_seq' = bm_send_api_seq
             /\ \A u \in Threads : pc'[u] \in Sending =>
                  pc[u] \in Sending /\ loc'[u] = loc[u]
    <3>1. ASSUME NEW u \in Threads, SendsOn(u, c)'
          PROVE  SendsOn(u, c) /\ loc'[u] = loc[u]
      BY <2>2, <3>1 DEF SendsOn
    <3> QED
      BY <1>0, <1>1, <2>2, <3>1
  <2> QED
    BY <2>1, <2>2, SenderSteps
<1>4. \A i \in DOMAIN ring[c] : ring[c][i].seq \in 1 .. bm_send_api_seq'
  BY <1>0, <1>1, <1>3
<1>5. CASE ring'[c] = ring[c]
  BY <1>1, <1>3, <1>4, <1>5 DEF Ascending
<1>6. ASSUME NEW t \in Threads, CopyToMsgfifo(t), ring'[c] # ring[c]
      PROVE  /\ Ascending(ring'[c])
             /\ \A i \in DOMAIN ring'[c] :
                  /\ ring'[c][i].seq \in 1 .. bm_send_api_seq'
                  /\ \A u \in Threads : SendsOn(u, c)' => ring'[c][i].seq < loc'[u].seq
  <2>1. Written(t, loc[t].c) /\ loc[t].c = c
    BY <1>6, CopyFacts DEF Written
  <2>2. /\ DOMAIN ring'[c] = 1 .. Len(ring[c]) + 1
        /\ \A i \in 1 .. Len(ring[c]) : ring'[c][i] = ring[c][i]
        /\ ring'[c][Len(ring[c]) + 1].seq = loc[t].seq
    BY <2>1 DEF Written, Message
  <2>3. SendsOn(t, c) /\ loc[t].seq \in 1 .. bm_send_api_seq /\ pc'[t] = "idle"
    BY <1>6, <2>1, ReturnFacts DEF CopyToMsgfifo, SendsOn, Sending, SendersInv
  <2>4. ASSUME NEW u \in Threads
        PROVE  ~SendsOn(u, c)'
    <3>1. CASE u = t
      BY <2>3, <3>1 DEF SendsOn, Sending
    <3>2. CASE u # t
      <4>1. pc'[u] = pc[u] /\ loc'[u] = loc[u]
        BY <1>6, <3>2, ReturnFacts DEF CopyToMsgfifo
      <4>2. ~SendsOn(u, c)
        BY <2>3, <3>2, OneSender
      <4> QED
        BY <4>1, <4>2 DEF SendsOn
    <3> QED
      BY <3>1, <3>2
  <2>5. \A i, j \in DOMAIN ring'[c] : i < j => ring'[c][i].seq < ring'[c][j].seq
    <3> SUFFICES ASSUME NEW i \in DOMAIN ring'[c], NEW j \in DOMAIN ring'[c], i < j
                 PROVE  ring'[c][i].seq < ring'[c][j].seq
      OBVIOUS
    <3>1. i \in 1 .. Len(ring[c]) /\ ring'[c][i] = ring[c][i]
      BY <1>0, <2>2
    <3>2. CASE j \in 1 .. Len(ring[c])
      BY <1>0, <1>1, <2>2, <3>1, <3>2
    <3>3. CASE j = Len(ring[c]) + 1
      BY <1>0, <1>1, <2>2, <2>3, <3>1, <3>3
    <3> QED
      BY <1>0, <2>2, <3>2, <3>3
  <2>6. \A i \in DOMAIN ring'[c] : ring'[c][i].seq \in 1 .. bm_send_api_seq'
    <3> SUFFICES ASSUME NEW i \in DOMAIN ring'[c]
                 PROVE  ring'[c][i].seq \in 1 .. bm_send_api_seq'
      OBVIOUS
    <3>1. CASE i \in 1 .. Len(ring[c])
      BY <1>0, <1>4, <2>2, <3>1
    <3>2. CASE i = Len(ring[c]) + 1
      BY <1>0, <1>3, <2>2, <2>3, <3>2
    <3> QED
      BY <1>0, <2>2, <3>1, <3>2
  <2> QED
    BY <2>4, <2>5, <2>6 DEF Ascending
<1>7. ASSUME Released(c)
      PROVE  /\ Ascending(ring'[c])
             /\ \A i \in DOMAIN ring'[c] :
                  /\ ring'[c][i].seq \in 1 .. bm_send_api_seq'
                  /\ \A u \in Threads : SendsOn(u, c)' => ring'[c][i].seq < loc'[u].seq
  <2>1. /\ DOMAIN ring'[c] = 1 .. Len(ring[c]) - 1
        /\ \A i \in 1 .. Len(ring[c]) - 1 : ring'[c][i] = ring[c][i + 1]
    BY <1>7 DEF Released
  <2>2. \A i \in 1 .. Len(ring[c]) - 1 : i + 1 \in DOMAIN ring[c] /\ i \in Int
    BY <1>0
  <2>3. \A i, j \in 1 .. Len(ring[c]) - 1 : i < j => i + 1 < j + 1
    BY <1>0
  <2> QED
    BY <1>1, <1>3, <1>4, <2>1, <2>2, <2>3 DEF Ascending
<1>8. CASE XpuApi \/ CpuApi
  <2>1. Released(c) \/ ring'[c] = ring[c]
    BY <1>8, ReleasingFacts, ReleasingCpuFacts DEF Released, Channels
  <2> QED
    BY <1>5, <1>7, <2>1
<1> QED
  BY <1>5, <1>6, <1>8, RingSteps

-----------------------------------------------------------------------------
(* What the steps do to the lists.                                           *)

LEMMA ListTypes ==
  ASSUME TypeOK
  PROVE  /\ api_fifo \in Seq(Entries) /\ api_list \in Seq(Entries)
         /\ Len(api_fifo) \in Nat /\ Len(api_list) \in Nat
         /\ DOMAIN api_fifo = 1 .. Len(api_fifo) /\ DOMAIN api_list = 1 .. Len(api_list)
         /\ \A i \in DOMAIN api_fifo : api_fifo[i] \in Entries
         /\ \A i \in DOMAIN api_list : api_list[i] \in Entries
<1>1. api_fifo \in Seq(Entries) /\ api_list \in Seq(Entries)
  BY DEF TypeOK, Entries
<1>2. /\ Len(api_fifo) \in Nat /\ Len(api_list) \in Nat
      /\ DOMAIN api_fifo = 1 .. Len(api_fifo) /\ DOMAIN api_list = 1 .. Len(api_list)
  BY <1>1, LenProperties
<1> QED
  BY <1>1, <1>2, ElementOfSeq

LEMMA NextMarker ==
  ASSUME TypeOK, NEW c \in Channels, device_sync_last[c] < MaxSyncs
  PROVE  device_sync_last[c] + 1 \in MarkerNos
<1>1. device_sync_last[c] \in 0 .. MaxSyncs
  BY DEF TypeOK, MarkerNos
<1>2. MaxSyncs \in Nat
  BY ApiAssumption
<1> QED
  BY <1>1, <1>2 DEF MarkerNos

LEMMA EnqueueFacts ==
  ASSUME TypeOK, CallsInv, SendersInv, NEW t \in Threads, Enqueue(t)
  PROVE  /\ pc[t] = "enqueue" /\ pc' = [pc EXCEPT ![t] = "copy"] /\ loc' = loc
         /\ handler.on # loc[t].c
         /\ loc[t].seq \in SeqNos /\ loc[t].h \in Handles
         /\ \E e \in Entries :
              /\ e = Api(loc[t].seq, loc[t].h, t) /\ ~IsMarker(e)
              /\ e.seq = loc[t].seq /\ e.h = loc[t].h /\ e.t = t /\ e.flag = {}
              /\ \/ /\ loc[t].c = "XPU" /\ Len(api_fifo) < FifoEntries
                    /\ api_fifo' = Append(api_fifo, e) /\ api_list' = api_list
                 \/ /\ loc[t].c = "CPU"
                    /\ api_list' = Append(api_list, e) /\ api_fifo' = api_fifo
<1>1. pc[t] = "enqueue" /\ loc[t].h \in Handles
  BY DEF Enqueue, TypeOK, CallsInv
<1>2. loc[t].seq \in SeqNos
  BY <1>1, SenderNumber DEF Sending
<1>3. /\ pc' = [pc EXCEPT ![t] = "copy"] /\ loc' = loc /\ handler.on # loc[t].c
      /\ \/ /\ loc[t].c = "XPU" /\ Len(api_fifo) < FifoEntries
            /\ api_fifo' = Append(api_fifo, Api(loc[t].seq, loc[t].h, t))
            /\ api_list' = api_list
         \/ /\ loc[t].c = "CPU"
            /\ api_list' = Append(api_list, Api(loc[t].seq, loc[t].h, t))
            /\ api_fifo' = api_fifo
  BY DEF Enqueue, Goto, FifoFree
<1> QED
  BY <1>1, <1>2, <1>3, ApiFacts

LEMMA DeviceSyncFacts ==
  ASSUME TypeOK, NEW t \in Threads, NEW h \in Handles, DeviceSync(t, h)
  PROVE  /\ pc[t] = "idle" /\ pc' \in [Threads -> SystemCalls] /\ loc' \in [Threads -> Locs]
         /\ \A u \in Threads \ {t} : pc'[u] = pc[u] /\ loc'[u] = loc[u]
         /\ loc'[t].h = h /\ loc'[t].owed = SeqsOf(Outstanding)
         /\ handler.on # "XPU"
         /\ \/ /\ api_fifo = <<>> /\ pc'[t] = "ret_device"
               /\ UNCHANGED <<api_fifo, device_sync_last>>
            \/ \E k \in MarkerNos, e \in Entries :
                 /\ k = device_sync_last["XPU"] + 1 /\ pc'[t] = "device_sync_cpu"
                 /\ loc'[t].seq = k /\ IsMarker(e) /\ e.seq = k /\ e.h = NoHandle
                 /\ api_fifo # <<>> /\ Len(api_fifo) < FifoEntries
                 /\ api_fifo' = Append(api_fifo, e)
                 /\ device_sync_last' = [device_sync_last EXCEPT !["XPU"] = k]
         /\ UNCHANGED <<noApiStep, api_list, device_sync_cpl, dev_sync_done, api_mutex>>
<1>0. pc \in [Threads -> SystemCalls] /\ loc \in [Threads -> Locs] /\ h \in Handles
  BY DEF TypeOK, Locs
<1>1. /\ pc[t] = "idle" /\ handler.on # "XPU"
      /\ UNCHANGED <<noApiStep, api_list, device_sync_cpl, dev_sync_done, api_mutex>>
  BY DEF DeviceSync, MayCall, FifoFree
<1>2. SeqsOf(Outstanding) \in SUBSET SeqNos
  BY OwedTypes
<1>3. CASE api_fifo = <<>>
  <2>1. /\ pc' = [pc EXCEPT ![t] = "ret_device"]
        /\ loc' = [loc EXCEPT ![t] = [h |-> h, c |-> "XPU", seq |-> 0,
                                      owed |-> SeqsOf(Outstanding)]]
        /\ UNCHANGED <<api_fifo, device_sync_last>>
    BY <1>3 DEF DeviceSync, Goto, Locals
  <2>2. [h |-> h, c |-> "XPU", seq |-> 0, owed |-> SeqsOf(Outstanding)] \in Locs
    BY <1>2, ApiAssumption DEF Locs, SeqNos, Channels
  <2> QED
    BY <1>0, <1>1, <1>3, <2>1, <2>2 DEF SystemCalls
<1>4. CASE api_fifo # <<>>
  <2> DEFINE k == device_sync_last["XPU"] + 1
             l == [h |-> h, c |-> "XPU", seq |-> k, owed |-> SeqsOf(Outstanding)]
  <2>1. /\ pc' = [pc EXCEPT ![t] = "device_sync_cpu"] /\ loc' = [loc EXCEPT ![t] = l]
        /\ Len(api_fifo) < FifoEntries /\ device_sync_last["XPU"] < MaxSyncs
        /\ api_fifo' = Append(api_fifo, Marker(k, {}))
        /\ device_sync_last' = [device_sync_last EXCEPT !["XPU"] = k]
    BY <1>4 DEF DeviceSync, Goto, Locals
  <2>2. k \in MarkerNos
    BY <2>1, NextMarker, NumberTypes
  <2>3. l \in Locs
    BY <1>2, <2>2, NumberTypes DEF Locs
  <2>4. Marker(k, {}) \in Entries /\ IsMarker(Marker(k, {})) /\ Marker(k, {}).seq = k
        /\ Marker(k, {}).h = NoHandle
    BY <2>2, MarkerFacts
  <2>5. /\ pc' \in [Threads -> SystemCalls] /\ pc'[t] = "device_sync_cpu"
        /\ loc' \in [Threads -> Locs] /\ loc'[t] = l
        /\ \A u \in Threads \ {t} : pc'[u] = pc[u] /\ loc'[u] = loc[u]
    BY <1>0, <2>1, <2>3 DEF SystemCalls
  <2>6. loc'[t].h = h /\ loc'[t].seq = k /\ loc'[t].owed = SeqsOf(Outstanding)
    BY <2>5
  <2> HIDE DEF l
  <2> QED
    BY <1>1, <1>4, <2>1, <2>2, <2>4, <2>5, <2>6
<1> QED
  BY <1>3, <1>4

LEMMA DeviceSyncCpuFacts ==
  ASSUME TypeOK, NEW t \in Threads, DeviceSyncCpu(t)
  PROVE  /\ pc[t] = "device_sync_cpu" /\ pc' \in [Threads -> SystemCalls]
         /\ loc' \in [Threads -> Locs]
         /\ \A u \in Threads \ {t} : pc'[u] = pc[u] /\ loc'[u] = loc[u]
         /\ loc'[t].h = loc[t].h /\ loc'[t].owed = loc[t].owed
         /\ handler.on # "CPU" /\ api_mutex["CPU"] = NoThread
         /\ \/ /\ pc'[t] = "ret_device" /\ UNCHANGED <<api_list, device_sync_last>>
            \/ \E k \in MarkerNos, e \in Entries :
                 /\ k = device_sync_last["CPU"] + 1 /\ pc'[t] = "device_sync"
                 /\ loc'[t].seq = k /\ IsMarker(e) /\ e.seq = k /\ e.h = NoHandle
                 /\ api_list' = Append(api_list, e)
                 /\ device_sync_last' = [device_sync_last EXCEPT !["CPU"] = k]
         /\ UNCHANGED <<noApiStep, api_fifo, device_sync_cpl, dev_sync_done, api_mutex>>
<1>0. pc \in [Threads -> SystemCalls] /\ loc \in [Threads -> Locs]
  BY DEF TypeOK, Locs
<1>1. /\ pc[t] = "device_sync_cpu" /\ handler.on # "CPU" /\ api_mutex["CPU"] = NoThread
      /\ UNCHANGED <<noApiStep, api_fifo, device_sync_cpl, dev_sync_done, api_mutex>>
  BY DEF DeviceSyncCpu, FifoFree
<1>3. CASE ring["CPU"] = <<>>
  <2>1. /\ pc' = [pc EXCEPT ![t] = "ret_device"]
        /\ UNCHANGED <<api_list, device_sync_last, loc>>
    BY <1>3 DEF DeviceSyncCpu, Goto
  <2> QED
    BY <1>0, <1>1, <2>1 DEF SystemCalls
<1>4. CASE ring["CPU"] # <<>>
  <2> DEFINE k == device_sync_last["CPU"] + 1
             l == [h |-> loc[t].h, c |-> "XPU", seq |-> k, owed |-> loc[t].owed]
  <2>1. /\ pc' = [pc EXCEPT ![t] = "device_sync"] /\ loc' = [loc EXCEPT ![t] = l]
        /\ device_sync_last["CPU"] < MaxSyncs
        /\ \E g \in Garbage : api_list' = Append(api_list, Marker(k, g))
        /\ device_sync_last' = [device_sync_last EXCEPT !["CPU"] = k]
    BY <1>4 DEF DeviceSyncCpu, Goto, Locals
  <2>2. k \in MarkerNos
    BY <2>1, NextMarker, NumberTypes
  <2>3. l \in Locs
    BY <1>0, <2>2, NumberTypes DEF Locs
  <2>4. PICK g \in Garbage : api_list' = Append(api_list, Marker(k, g))
    BY <2>1
  <2>5. Marker(k, g) \in Entries /\ IsMarker(Marker(k, g)) /\ Marker(k, g).seq = k
        /\ Marker(k, g).h = NoHandle
    <3>1. g \in SUBSET Flags
      BY DEF Garbage, Flags
    <3> QED
      BY <2>2, <3>1, MarkerFacts
  <2>6. /\ pc' \in [Threads -> SystemCalls] /\ pc'[t] = "device_sync"
        /\ loc' \in [Threads -> Locs] /\ loc'[t] = l
        /\ \A u \in Threads \ {t} : pc'[u] = pc[u] /\ loc'[u] = loc[u]
    BY <1>0, <2>1, <2>3 DEF SystemCalls
  <2>7. loc'[t].h = loc[t].h /\ loc'[t].seq = k /\ loc'[t].owed = loc[t].owed
    BY <2>6
  <2> HIDE DEF l
  <2> QED
    BY <1>1, <2>1, <2>2, <2>4, <2>5, <2>6, <2>7
<1> QED
  BY <1>3, <1>4

LEMMA QueryFacts ==
  ASSUME TypeOK, NEW t \in Threads,
         QueryDone(t) \/ \E h \in Handles : QueryApi(t, h)
  PROVE  /\ pc' \in [Threads -> SystemCalls] /\ loc' \in [Threads -> Locs]
         /\ \A u \in Threads \ {t} : pc'[u] = pc[u] /\ loc'[u] = loc[u]
         /\ UNCHANGED <<handles, thds, bm_send_api_seq, ring, card, api_fifo, syncs,
                        api_mutex, handler>>
         /\ \E i \in 1 .. Len(api_list) : ~IsMarker(api_list[i]) /\
              \/ /\ pc[t] = "query" /\ pc'[t] = "idle" /\ loc'[t] = Idle
                 /\ QueriedBy(t, api_list[i]) /\ "DONE" \in api_list[i].flag
                 /\ api_list' = Flagged(api_list, i, "FINISH")
              \/ /\ pc[t] = "idle" /\ pc'[t] = "query" /\ loc'[t].owed = {}
                 /\ loc'[t].seq = api_list[i].seq /\ api_list[i].t = t
                 /\ "FINISH" \notin api_list[i].flag /\ handler.on # "CPU"
                 /\ api_list' = Flagged(api_list, i, "WAIT")
<1>0. pc \in [Threads -> SystemCalls] /\ loc \in [Threads -> Locs]
      /\ DOMAIN api_list = 1 .. Len(api_list)
  BY ListTypes DEF TypeOK, Locs
<1>1. UNCHANGED <<handles, thds, bm_send_api_seq, ring, card, api_fifo, syncs,
                  api_mutex, handler>>
  BY DEF QueryDone, QueryApi
<1>2. CASE QueryDone(t)
  <2>1. pc[t] = "query" /\ Return(t)
    BY <1>2 DEF QueryDone
  <2>2. PICK i \in DOMAIN api_list :
          /\ QueriedBy(t, api_list[i]) /\ "DONE" \in api_list[i].flag
          /\ api_list' = Flagged(api_list, i, "FINISH")
    BY <1>2 DEF QueryDone, Flagged
  <2>3. ~IsMarker(api_list[i])
    BY <2>2 DEF QueriedBy
  <2> QED
    BY <1>0, <1>1, <2>1, <2>2, <2>3, ReturnFacts
<1>3. ASSUME NEW h \in Handles, QueryApi(t, h)
      PROVE  /\ pc' \in [Threads -> SystemCalls] /\ loc' \in [Threads -> Locs]
             /\ \A u \in Threads \ {t} : pc'[u] = pc[u] /\ loc'[u] = loc[u]
             /\ \E i \in 1 .. Len(api_list) :
                  /\ ~IsMarker(api_list[i]) /\ pc[t] = "idle" /\ pc'[t] = "query"
                  /\ loc'[t].seq = api_list[i].seq /\ api_list[i].t = t
                  /\ loc'[t].owed = {}
                  /\ "FINISH" \notin api_list[i].flag /\ handler.on # "CPU"
                  /\ api_list' = Flagged(api_list, i, "WAIT")
  <2>1. pc[t] = "idle" /\ pc' = [pc EXCEPT ![t] = "query"] /\ handler.on # "CPU"
    BY <1>3 DEF QueryApi, Goto, MayCall, FifoFree
  <2>2. PICK i \in DOMAIN api_list :
          /\ ~IsMarker(api_list[i]) /\ api_list[i].t = t
          /\ "FINISH" \notin api_list[i].flag
          /\ api_list' = Flagged(api_list, i, "WAIT")
          /\ loc' = [loc EXCEPT ![t] = [h |-> h, c |-> "CPU", seq |-> api_list[i].seq,
                                        owed |-> {}]]
    BY <1>3 DEF QueryApi, Locals, Flagged
  <2>3. api_list[i].seq \in SeqNos
    BY <2>2, ListTypes, EntryFacts
  <2>4. [h |-> h, c |-> "CPU", seq |-> api_list[i].seq, owed |-> {}] \in Locs
    BY <2>3, NumberTypes DEF Locs
  <2>5. /\ pc' \in [Threads -> SystemCalls] /\ loc' \in [Threads -> Locs]
        /\ \A u \in Threads \ {t} : pc'[u] = pc[u] /\ loc'[u] = loc[u]
        /\ pc'[t] = "query" /\ loc'[t].seq = api_list[i].seq /\ loc'[t].owed = {}
    BY <1>0, <2>1, <2>2, <2>4 DEF SystemCalls
  <2> QED
    BY <1>0, <2>1, <2>2, <2>5
<1> QED
  BY <1>1, <1>2, <1>3

(* The entry of a completed message.                                         *)
CpuHit(i, hit, f) ==
  /\ i \in 1 .. Len(api_list) /\ hit \in Entries
  /\ CpuMatch(i) /\ SameEntry(hit, api_list[i]) /\ ~IsMarker(hit)
  /\ hit.flag = api_list[i].flag \cup {"DONE"} /\ ApiDone("CPU", hit)
  /\ HitMap(api_list', api_list, i, hit, f)

LEMMA CpuApiFacts ==
  ASSUME TypeOK, CpuApi
  PROVE  /\ \E i, hit, f : CpuHit(i, hit, f)
         /\ handler.on = "CPU"
         /\ UNCHANGED <<bm_send_api_seq, irq, api_fifo, syncs, api_mutex, pc, loc>>
<1>1. PICK i \in DOMAIN api_list :
        /\ CpuMatch(i)
        /\ \E front \in Scanned(SubSeq(api_list, 1, i - 1)) :
             LET hit == [api_list[i] EXCEPT !.flag = @ \cup {"DONE"}]
             IN  /\ api_list' = front \o <<hit>>
                                  \o SubSeq(api_list, i + 1, Len(api_list))
                 /\ ApiDone("CPU", hit)
  BY DEF CpuApi
<1> DEFINE hit == [api_list[i] EXCEPT !.flag = @ \cup {"DONE"}]
<1>2. PICK front \in Scanned(SubSeq(api_list, 1, i - 1)) :
        /\ api_list' = HitList(api_list, i, front, hit)
        /\ ApiDone("CPU", hit)
  BY <1>1 DEF HitList
<1>3. i \in 1 .. Len(api_list) /\ api_list[i] \in Entries /\ api_list \in Seq(Entries)
  BY <1>1, ListTypes
<1>4. /\ hit \in Entries /\ hit.kind = api_list[i].kind /\ hit.seq = api_list[i].seq
      /\ hit.h = api_list[i].h /\ hit.t = api_list[i].t
      /\ hit.flag = api_list[i].flag \cup {"DONE"}
  BY <1>3, FlagFacts DEF Flags
<1>5. SameEntry(hit, api_list[i]) /\ ~IsMarker(hit)
  BY <1>1, <1>4 DEF SameEntry, IsMarker, CpuMatch
<1>6. /\ hit \in Entries /\ SameEntry(hit, api_list[i]) /\ ~IsMarker(hit)
      /\ hit.flag = api_list[i].flag \cup {"DONE"} /\ ApiDone("CPU", hit)
      /\ api_list' = HitList(api_list, i, front, hit)
  BY <1>2, <1>4, <1>5
<1> HIDE DEF hit
<1>7. \E f : HitMap(HitList(api_list, i, front, hit), api_list, i, hit, f)
  BY <1>2, <1>3, <1>6, HitPicks
<1>8. PICK f : HitMap(api_list', api_list, i, hit, f)
  BY <1>6, <1>7
<1>9. CpuHit(i, hit, f)
  BY <1>1, <1>3, <1>6, <1>8 DEF CpuHit
<1>10. handler.on = "CPU"
  BY DEF CpuApi, CpuScan
<1>11. UNCHANGED <<bm_send_api_seq, irq, api_fifo, syncs, api_mutex, pc, loc>>
  BY DEF CpuApi
<1> QED
  BY <1>9, <1>10, <1>11

(* The handler finds the entry of every message, so that it ends with none.  *)
LEMMA CpuEndFacts ==
  ASSUME TypeOK, InterruptsInv, ListInv, CpuEnd
  PROVE  /\ handler.pending = 0
         /\ UNCHANGED <<handles, thds, bm_send_api_seq, ring, card, api_fifo, api_list,
                        syncs, api_mutex, pc, loc>>
<1>1. handler.on = "CPU" /\ handler.pending \in Nat
  BY NumberTypes DEF CpuEnd, TypeOK
<1>2. ASSUME handler.pending > 0
      PROVE  FALSE
  <2>1. executed["CPU"] > 0
    BY <1>1, <1>2 DEF InterruptsInv
  <2>2. 1 \in DOMAIN ring["CPU"] /\ ring["CPU"] # <<>> /\ Head(ring["CPU"]) = ring["CPU"][1]
    BY <2>1, RingFacts, NumberTypes
  <2>3. PICK i \in DOMAIN api_list :
          /\ ~IsMarker(api_list[i]) /\ api_list[i].seq = ring["CPU"][1].seq
          /\ "DONE" \notin api_list[i].flag
    BY <2>2 DEF ListInv, CpuEntryFound
  <2>4. ~Freed(api_list[i])
    BY <2>3 DEF ListInv, Freed
  <2> QED
    BY <1>2, <2>2, <2>3, <2>4 DEF CpuEnd, CpuMatch
<1>3. handler.pending = 0
  BY <1>1, <1>2
<1> QED
  BY <1>3 DEF CpuEnd

LEMMA MarkerTaken ==
  ASSUME TypeOK, MarkersInv, NEW c \in Channels, NEW l \in Seq(Entries), l # <<>>,
         MarkersOf(l, c), IsMarker(Head(l)), MarkerDone(c, Head(l))
  PROVE  /\ device_sync_cpl' \in [Channels -> MarkerNos]
         /\ dev_sync_done' \in [Channels -> MarkerNos]
         /\ device_sync_last' = device_sync_last /\ IsMarker(l[1])
         /\ device_sync_cpl[c] < l[1].seq /\ l[1].seq <= device_sync_last[c]
         /\ device_sync_cpl'[c] = l[1].seq /\ dev_sync_done'[c] = dev_sync_done[c] + 1
         /\ \A d \in Channels \ {c} : /\ device_sync_cpl'[d] = device_sync_cpl[d]
                                      /\ dev_sync_done'[d] = dev_sync_done[d]
<1>1. Head(l) = l[1] /\ 1 \in DOMAIN l /\ l[1] \in Entries
  BY TailPicks, LenProperties
<1>2. l[1].seq \in MarkerNos /\ IsMarker(l[1])
  BY <1>1, EntryFacts
<1>3. /\ device_sync_cpl[c] < l[1].seq /\ l[1].seq <= device_sync_last[c]
      /\ dev_sync_done[c] <= device_sync_cpl[c]
  BY <1>1, <1>2 DEF MarkersOf, MarkersIn
<1>4. /\ device_sync_cpl \in [Channels -> MarkerNos]
      /\ dev_sync_done \in [Channels -> MarkerNos]
      /\ dev_sync_done[c] \in Nat /\ device_sync_cpl[c] \in Nat
  BY NumberTypes DEF TypeOK
<1>5. dev_sync_done[c] + 1 \in MarkerNos
  BY <1>2, <1>3, <1>4, ApiAssumption DEF MarkerNos
<1>6. /\ device_sync_cpl' = [device_sync_cpl EXCEPT ![c] = l[1].seq]
      /\ dev_sync_done' = [dev_sync_done EXCEPT ![c] = dev_sync_done[c] + 1]
      /\ device_sync_last' = device_sync_last
  BY <1>1 DEF MarkerDone
<1> QED
  BY <1>2, <1>3, <1>4, <1>5, <1>6

-----------------------------------------------------------------------------
(* Types.                                                                    *)

HandleTypes ==
  /\ handle_list \subseteq Handles /\ threads \subseteq handle_list \X Threads
  /\ h_send_api_seq \in [Handles -> SeqNos]
  /\ h_cpl_api_seq \in [Handles -> SeqNos]
  /\ last_api_seq \in [Handles \X Threads -> SeqNos]
  /\ cpl_api_seq \in [Handles \X Threads -> SeqNos]
  /\ bm_send_api_seq \in SeqNos

LEMMA ApiDoneTypes ==
  ASSUME TypeOK, NEW c \in Channels, NEW e \in Entries, ~IsMarker(e), ApiDone(c, e),
         bm_send_api_seq' = bm_send_api_seq
  PROVE  HandleTypes'
<1>1. e.seq \in SeqNos /\ e.h \in Handles /\ e.t \in Threads
  BY EntryFacts
<1>2. UNCHANGED <<handle_list, h_send_api_seq, threads, last_api_seq>>
  BY DEF ApiDone
<1>3. cpl_api_seq' \in [Handles \X Threads -> SeqNos] /\ h_cpl_api_seq' \in [Handles -> SeqNos]
  <2>1. CASE e.h \in handle_list
    <3>1. /\ cpl_api_seq' = [cpl_api_seq EXCEPT ![<<e.h, e.t>>] = e.seq]
          /\ h_cpl_api_seq' = [h_cpl_api_seq EXCEPT ![e.h] = e.seq]
      BY <2>1 DEF ApiDone
    <3>2. cpl_api_seq \in [Handles \X Threads -> SeqNos] /\ h_cpl_api_seq \in [Handles -> SeqNos]
      BY DEF TypeOK
    <3> QED
      BY <1>1, <3>1, <3>2
  <2>2. CASE e.h \notin handle_list
    BY <2>2 DEF ApiDone, TypeOK
  <2> QED
    BY <2>1, <2>2
<1> QED
  BY <1>2, <1>3 DEF HandleTypes, TypeOK

LEMMA HandleTypesStep ==
  ASSUME TypeOK, CallsInv, SendersInv, [Next]_vars
  PROVE  HandleTypes'
<1> USE DEF handles, thds, card, syncs, noApiStep
<1>0. HandleTypes /\ 0 \in SeqNos
  BY ApiAssumption DEF TypeOK, HandleTypes, SeqNos
<1>1. ASSUME NEW x \in Handles \X Threads, CreateThreadInfo(x)
      PROVE  /\ last_api_seq' \in [Handles \X Threads -> SeqNos]
             /\ cpl_api_seq' \in [Handles \X Threads -> SeqNos]
             /\ threads' = threads \cup {x}
  BY <1>0, <1>1 DEF HandleTypes, CreateThreadInfo
<1>2. ASSUME NEW t \in Threads, NEW h \in Handles, Open(t, h)
      PROVE  HandleTypes'
  <2>1. /\ CreateThreadInfo(<<h, t>>) /\ bm_send_api_seq' = bm_send_api_seq
        /\ handle_list' = handle_list \cup {h}
        /\ h_send_api_seq' = [h_send_api_seq EXCEPT ![h] = 0]
        /\ h_cpl_api_seq' = [h_cpl_api_seq EXCEPT ![h] = 0]
    BY <1>2 DEF Open
  <2>2. /\ last_api_seq' \in [Handles \X Threads -> SeqNos]
        /\ cpl_api_seq' \in [Handles \X Threads -> SeqNos]
        /\ threads' = threads \cup {<<h, t>>}
    BY <1>1, <2>1
  <2>3. threads' \subseteq handle_list' \X Threads
    BY <1>0, <2>1, <2>2 DEF HandleTypes
  <2>4. h_send_api_seq' \in [Handles -> SeqNos] /\ h_cpl_api_seq' \in [Handles -> SeqNos]
    BY <1>0, <2>1 DEF HandleTypes
  <2> QED
    BY <1>0, <2>1, <2>2, <2>3, <2>4 DEF HandleTypes
<1>3. ASSUME NEW t \in Threads, NEW h \in Handles, NEW c \in Channels, SendApi(t, h, c)
      PROVE  HandleTypes'
  <2>1. UNCHANGED handles /\ bm_send_api_seq' \in SeqNos /\ h \in handle_list
    BY <1>3, SendApiFacts DEF SendApi, MayCall
  <2>2. CASE <<h, t>> \in threads
    BY <1>0, <1>3, <2>1, <2>2 DEF SendApi, HandleTypes
  <2>3. CASE <<h, t>> \notin threads
    <3>1. CreateThreadInfo(<<h, t>>)
      BY <1>3, <2>3 DEF SendApi
    <3>2. /\ last_api_seq' \in [Handles \X Threads -> SeqNos]
          /\ cpl_api_seq' \in [Handles \X Threads -> SeqNos]
          /\ threads' = threads \cup {<<h, t>>}
      BY <1>1, <3>1
    <3> QED
      BY <1>0, <2>1, <3>2 DEF HandleTypes
  <2> QED
    BY <2>2, <2>3
<1>4. ASSUME NEW t \in Threads, CloseFree(t)
      PROVE  HandleTypes'
  <2>1. /\ handle_list' = handle_list \ {loc[t].h} /\ bm_send_api_seq' = bm_send_api_seq
        /\ h_send_api_seq' = [h_send_api_seq EXCEPT ![loc[t].h] = 0]
        /\ h_cpl_api_seq' = [h_cpl_api_seq EXCEPT ![loc[t].h] = 0]
        /\ threads' = {x \in threads : x[1] # loc[t].h}
        /\ last_api_seq' = [x \in DOMAIN last_api_seq |->
                              IF x[1] = loc[t].h THEN 0 ELSE last_api_seq[x]]
        /\ cpl_api_seq' = [x \in DOMAIN cpl_api_seq |->
                              IF x[1] = loc[t].h THEN 0 ELSE cpl_api_seq[x]]
    BY <1>4 DEF CloseFree
  <2>2. /\ last_api_seq' \in [Handles \X Threads -> SeqNos]
        /\ cpl_api_seq' \in [Handles \X Threads -> SeqNos]
    BY <1>0, <2>1 DEF HandleTypes
  <2>3. threads' \subseteq handle_list' \X Threads
    BY <1>0, <2>1 DEF HandleTypes
  <2>4. h_send_api_seq' \in [Handles -> SeqNos] /\ h_cpl_api_seq' \in [Handles -> SeqNos]
    BY <1>0, <2>1 DEF HandleTypes
  <2> QED
    BY <1>0, <2>1, <2>2, <2>3, <2>4 DEF HandleTypes
<1>5. ASSUME NEW t \in Threads, RecordSeq(t)
      PROVE  HandleTypes'
  <2>1. loc[t].seq \in SeqNos
    <3>1. loc[t].seq \in 1 .. bm_send_api_seq
      BY <1>5 DEF RecordSeq, SendersInv, Sending
    <3> QED
      BY <1>0, <3>1, ApiAssumption DEF HandleTypes, SeqNos
  <2>2. /\ UNCHANGED <<handle_list, h_cpl_api_seq, threads, cpl_api_seq, bm_send_api_seq>>
        /\ h_send_api_seq' = [h_send_api_seq EXCEPT ![loc[t].h] = loc[t].seq]
        /\ last_api_seq' = [last_api_seq EXCEPT ![<<loc[t].h, t>>] = loc[t].seq]
    BY <1>5 DEF RecordSeq
  <2>3. h_send_api_seq' \in [Handles -> SeqNos]
        /\ last_api_seq' \in [Handles \X Threads -> SeqNos]
    BY <1>0, <2>1, <2>2 DEF HandleTypes
  <2> QED
    BY <1>0, <2>2, <2>3 DEF HandleTypes
<1>6. ASSUME NEW t \in Threads, Fail(t)
      PROVE  HandleTypes'
  <2>1. /\ UNCHANGED <<handles, threads, cpl_api_seq, bm_send_api_seq>>
        /\ last_api_seq' = [last_api_seq EXCEPT ![<<loc[t].h, t>>] =
                              last_api_seq[<<loc[t].h, t>>] - 1]
        /\ pc[t] \in {"wait", "enqueue"}
    BY <1>6 DEF Fail, GiveUp
  <2>2. last_api_seq[<<loc[t].h, t>>] - 1 \in SeqNos
    <3>1. /\ last_api_seq[<<loc[t].h, t>>] = loc[t].seq
          /\ loc[t].seq \in 1 .. bm_send_api_seq
      BY <2>1 DEF SendersInv, Sending
    <3> QED
      BY <1>0, <3>1, ApiAssumption DEF HandleTypes, SeqNos
  <2>3. last_api_seq' \in [Handles \X Threads -> SeqNos]
    BY <1>0, <2>1, <2>2 DEF HandleTypes
  <2> QED
    BY <1>0, <2>1, <2>3 DEF HandleTypes
<1>7. CASE XpuApi
  <2>1. /\ api_fifo # <<>> /\ ~IsMarker(Head(api_fifo)) /\ ApiDone("XPU", Head(api_fifo))
        /\ bm_send_api_seq' = bm_send_api_seq
    BY <1>7 DEF XpuApi
  <2>2. Head(api_fifo) \in Entries
    BY <2>1, ListTypes, TailPicks
  <2> QED
    BY <2>1, <2>2, ApiDoneTypes, NumberTypes
<1>8. CASE CpuApi
  <2>1. PICK i, hit, f : CpuHit(i, hit, f)
    BY <1>8, CpuApiFacts
  <2>2. bm_send_api_seq' = bm_send_api_seq
    BY <1>8 DEF CpuApi
  <2> QED
    BY <2>1, <2>2, ApiDoneTypes, NumberTypes DEF CpuHit
<1>9. ASSUME NEW t \in Threads,
             \/ Local(t) \/ WaitMsgfifo(t) \/ Enqueue(t) \/ CopyToMsgfifo(t)
             \/ QueryDone(t) \/ DeviceSyncCpu(t)
             \/ \E h \in Handles : QueryApi(t, h) \/ DeviceSync(t, h)
      PROVE  HandleTypes'
  <2>1. UNCHANGED <<handles, thds, bm_send_api_seq>>
    BY <1>9 DEF Local, WaitMsgfifo, Enqueue, CopyToMsgfifo, QueryDone, DeviceSyncCpu,
                QueryApi, DeviceSync
  <2> QED
    BY <1>0, <2>1 DEF HandleTypes
<1>10. CASE \/ UNCHANGED vars \/ XpuMarker \/ CpuMarker \/ XpuEnd \/ CpuEnd
            \/ \E c \in Channels : Execute(c) \/ IrqStart(c)
  <2>1. UNCHANGED <<handles, thds, bm_send_api_seq>>
    BY <1>10 DEF vars, XpuMarker, CpuMarker, XpuEnd, CpuEnd, Execute, IrqStart
  <2> QED
    BY <1>0, <2>1 DEF HandleTypes
<1> QED
  BY <1>2, <1>3, <1>4, <1>5, <1>6, <1>7, <1>8, <1>9, <1>10, StepKinds

RingTypes ==
  /\ ring \in [Channels -> Seq(Messages)]
  /\ executed \in [Channels -> 0 .. RingMsgs]
  /\ irq \in [Channels -> 0 .. RingMsgs]
  /\ \A c \in Channels : executed[c] <= Len(ring[c]) /\ Len(ring[c]) <= RingMsgs
  /\ handler \in [on : Channels \cup {"none"}, pending : 0 .. RingMsgs]

LEMMA RingTypesStep ==
  ASSUME TypeOK, CallsInv, SendersInv, InterruptsInv, [Next]_vars
  PROVE  RingTypes'
<1> USE DEF handles, thds, card, syncs, noApiStep
<1>0. /\ RingTypes /\ RingMsgs \in Nat \ {0}
      /\ \A c \in Channels : /\ Len(ring[c]) \in Nat /\ executed[c] \in Nat /\ irq[c] \in Nat
                             /\ executed[c] <= Len(ring[c]) /\ Len(ring[c]) <= RingMsgs
  BY ApiAssumption, RingFacts DEF TypeOK, RingTypes
<1>1. ASSUME NEW t \in Threads, CopyToMsgfifo(t)
      PROVE  RingTypes'
  <2>1. Written(t, loc[t].c) /\ UNCHANGED <<executed, irq, handler>> /\ loc[t].c \in Channels
    BY <1>1, CopyFacts DEF CopyToMsgfifo
  <2>2. Len(ring[loc[t].c]) < RingMsgs
    BY <1>1 DEF CopyToMsgfifo, SendersInv
  <2>3. \A c \in Channels : executed[c] <= Len(ring'[c]) /\ Len(ring'[c]) <= RingMsgs
    BY <1>0, <2>1, <2>2 DEF Written
  <2> QED
    BY <1>0, <2>1, <2>3 DEF RingTypes, Written
<1>2. CASE XpuApi \/ CpuApi
  <2>1. PICK c \in Channels : Released(c) /\ irq' = irq
    BY <1>2, ReleasingFacts, ReleasingCpuFacts, NumberTypes DEF XpuApi, CpuApi
  <2>2. \A d \in Channels : /\ executed'[d] \in Nat /\ executed'[d] <= Len(ring'[d])
                            /\ Len(ring'[d]) <= RingMsgs /\ executed'[d] <= RingMsgs
    <3>1. ASSUME NEW d \in Channels
          PROVE  executed'[d] \in Nat /\ executed'[d] <= Len(ring'[d])
                 /\ Len(ring'[d]) <= RingMsgs
      <4>1. d # c => ring'[d] = ring[d] /\ executed'[d] = executed[d]
        BY <2>1 DEF Released
      <4>2. CASE d # c
        BY <1>0, <4>1, <4>2
      <4>3. CASE d = c
        BY <1>0, <2>1, <4>3 DEF Released
      <4> QED
        BY <4>2, <4>3
    <3>2. ASSUME NEW d \in Channels
          PROVE  executed'[d] <= RingMsgs
      <4>1. Len(ring'[d]) \in Nat
        BY <2>1, LenProperties DEF Released
      <4> QED
        BY <3>1, <4>1, NumberTypes
    <3> QED
      BY <3>1, <3>2
  <2>3. /\ executed' \in [Channels -> 0 .. RingMsgs]
        /\ ring' \in [Channels -> Seq(Messages)]
    <3>1. executed' \in [Channels -> Nat] /\ ring' \in [Channels -> Seq(Messages)]
      BY <2>1 DEF Released
    <3>2. \A d \in Channels : executed'[d] \in 0 .. RingMsgs
      BY <1>0, <2>2
    <3> QED
      BY <3>1, <3>2
  <2>4. handler' \in [on : Channels \cup {"none"}, pending : 0 .. RingMsgs]
    <3>1. /\ handler \in [on : Channels \cup {"none"}, pending : 0 .. RingMsgs]
          /\ handler.pending > 0
      BY <1>0, <1>2 DEF RingTypes, XpuApi, CpuApi, CpuScan
    <3>2. handler.pending - 1 \in 0 .. RingMsgs
      BY <1>0, <3>1
    <3>3. \/ handler' = [handler EXCEPT !.pending = handler.pending - 1]
          \/ handler' = [handler EXCEPT !.pending = handler.pending]
      BY <1>2 DEF XpuApi, CpuApi
    <3> QED
      BY <3>1, <3>2, <3>3
  <2> QED
    BY <1>0, <2>1, <2>2, <2>3, <2>4 DEF RingTypes
<1>3. ASSUME NEW c \in Channels, Execute(c)
      PROVE  RingTypes'
  <2>1. /\ executed[c] < Len(ring[c]) /\ ring' = ring /\ handler' = handler
        /\ executed' = [executed EXCEPT ![c] = executed[c] + 1]
        /\ irq' = [irq EXCEPT ![c] = IF c = "XPU" THEN irq[c] + 1 ELSE 1]
    BY <1>3 DEF Execute
  <2>2. executed[c] + 1 \in 0 .. RingMsgs
    BY <1>0, <2>1
  <2>3. (IF c = "XPU" THEN irq[c] + 1 ELSE 1) \in 0 .. RingMsgs
    <3>1. CASE c = "XPU"
      <4>1. irq[c] <= executed[c]
        BY <1>0, <3>1 DEF InterruptsInv, InterruptPerMessage, RingTypes
      <4> QED
        BY <1>0, <2>1, <4>1
    <3>2. CASE c # "XPU"
      BY <1>0, <3>2
    <3> QED
      BY <3>1, <3>2
  <2>4. executed' \in [Channels -> 0 .. RingMsgs] /\ irq' \in [Channels -> 0 .. RingMsgs]
    BY <1>0, <2>1, <2>2, <2>3 DEF RingTypes
  <2>5. \A d \in Channels : executed'[d] <= Len(ring[d])
    BY <1>0, <2>1 DEF RingTypes
  <2> QED
    BY <1>0, <2>1, <2>4, <2>5 DEF RingTypes
<1>4. ASSUME NEW c \in Channels, IrqStart(c)
      PROVE  RingTypes'
  <2>1. /\ ring' = ring /\ executed' = executed /\ irq' = [irq EXCEPT ![c] = 0]
        /\ handler' = handler \/ handler' = [on |-> c, pending |-> irq[c]]
    BY <1>4 DEF IrqStart
  <2>2. irq[c] \in 0 .. RingMsgs /\ 0 \in 0 .. RingMsgs
    BY <1>0 DEF RingTypes
  <2> QED
    BY <1>0, <2>1, <2>2 DEF RingTypes
<1>5. CASE XpuEnd \/ CpuEnd
  <2>1. UNCHANGED <<ring, executed, irq>> /\ handler' = [on |-> "none", pending |-> 0]
    BY <1>5 DEF XpuEnd, CpuEnd, HandlerEnd
  <2>2. 0 \in 0 .. RingMsgs
    BY <1>0
  <2> QED
    BY <1>0, <2>1, <2>2 DEF RingTypes
<1>6. ASSUME NEW t \in Threads,
             \/ Local(t) \/ CloseFree(t) \/ RecordSeq(t) \/ WaitMsgfifo(t) \/ Enqueue(t)
             \/ Fail(t) \/ QueryDone(t) \/ DeviceSyncCpu(t)
             \/ \E h \in Handles : \/ Open(t, h) \/ QueryApi(t, h) \/ DeviceSync(t, h)
                                   \/ \E c \in Channels : SendApi(t, h, c)
      PROVE  RingTypes'
  <2>1. UNCHANGED <<ring, executed, irq, handler>>
    BY <1>6 DEF Local, CloseFree, RecordSeq, WaitMsgfifo, Enqueue, Fail, GiveUp, QueryDone,
                DeviceSyncCpu, Open, QueryApi, DeviceSync, SendApi
  <2> QED
    BY <1>0, <2>1 DEF RingTypes
<1>7. CASE UNCHANGED vars \/ XpuMarker \/ CpuMarker
  <2>1. UNCHANGED <<ring, executed, irq, handler>>
    BY <1>7 DEF vars, XpuMarker, CpuMarker
  <2> QED
    BY <1>0, <2>1 DEF RingTypes
<1> QED
  BY <1>1, <1>2, <1>3, <1>4, <1>5, <1>6, <1>7, StepKinds

ListsTyped ==
  /\ device_sync_last \in [Channels -> MarkerNos]
  /\ device_sync_cpl \in [Channels -> MarkerNos]
  /\ dev_sync_done \in [Channels -> MarkerNos]
  /\ api_fifo \in Seq(Entries) /\ Len(api_fifo) <= FifoEntries
  /\ api_list \in Seq(Entries)

LEMMA ListTypesStep ==
  ASSUME TypeOK, CallsInv, SendersInv, InterruptsInv, MarkersInv, ListInv, [Next]_vars
  PROVE  ListsTyped'
<1> USE DEF handles, thds, card, syncs, noApiStep
<1>0. /\ ListsTyped /\ Len(api_fifo) \in Nat /\ FifoEntries \in Nat
      /\ "XPU" \in Channels /\ "CPU" \in Channels
  BY ListTypes, NumberTypes DEF TypeOK, ListsTyped
<1>1. ASSUME NEW t \in Threads, Enqueue(t)
      PROVE  ListsTyped'
  <2>1. PICK e \in Entries :
          \/ /\ Len(api_fifo) < FifoEntries
             /\ api_fifo' = Append(api_fifo, e) /\ api_list' = api_list
          \/ api_list' = Append(api_list, e) /\ api_fifo' = api_fifo
    BY <1>1, EnqueueFacts
  <2>2. UNCHANGED syncs
    BY <1>1 DEF Enqueue
  <2>3. /\ Append(api_fifo, e) \in Seq(Entries) /\ Len(Append(api_fifo, e)) = Len(api_fifo) + 1
        /\ Append(api_list, e) \in Seq(Entries)
    BY <1>0, AppendFacts DEF ListsTyped
  <2>4. api_fifo' \in Seq(Entries) /\ api_list' \in Seq(Entries)
    BY <1>0, <2>1, <2>3 DEF ListsTyped
  <2>5. Len(api_fifo') <= FifoEntries
    <3>1. CASE Len(api_fifo) < FifoEntries /\ api_fifo' = Append(api_fifo, e)
      BY <1>0, <2>3, <3>1
    <3>2. CASE api_fifo' = api_fifo
      BY <1>0, <3>2 DEF ListsTyped
    <3> QED
      BY <2>1, <3>1, <3>2
  <2> QED
    BY <1>0, <2>2, <2>4, <2>5 DEF ListsTyped
<1>2. ASSUME NEW t \in Threads, NEW h \in Handles, DeviceSync(t, h)
      PROVE  ListsTyped'
  <2>1. UNCHANGED <<api_list, device_sync_cpl, dev_sync_done>>
    BY <1>2 DEF DeviceSync
  <2>2. CASE UNCHANGED <<api_fifo, device_sync_last>>
    BY <1>0, <2>1, <2>2 DEF ListsTyped
  <2>3. ASSUME NEW k \in MarkerNos, NEW e \in Entries, Len(api_fifo) < FifoEntries,
               api_fifo' = Append(api_fifo, e),
               device_sync_last' = [device_sync_last EXCEPT !["XPU"] = k]
        PROVE  ListsTyped'
    <3>1. Append(api_fifo, e) \in Seq(Entries) /\ Len(Append(api_fifo, e)) = Len(api_fifo) + 1
      BY <1>0, AppendFacts DEF ListsTyped
    <3> QED
      BY <1>0, <2>1, <2>3, <3>1 DEF ListsTyped
  <2> QED
    BY <1>2, <2>2, <2>3, DeviceSyncFacts
<1>3. ASSUME NEW t \in Threads, DeviceSyncCpu(t)
      PROVE  ListsTyped'
  <2>1. UNCHANGED <<api_fifo, device_sync_cpl, dev_sync_done>>
    BY <1>3 DEF DeviceSyncCpu
  <2>2. CASE UNCHANGED <<api_list, device_sync_last>>
    BY <1>0, <2>1, <2>2 DEF ListsTyped
  <2>3. ASSUME NEW k \in MarkerNos, NEW e \in Entries,
               api_list' = Append(api_list, e),
               device_sync_last' = [device_sync_last EXCEPT !["CPU"] = k]
        PROVE  ListsTyped'
    <3>1. Append(api_list, e) \in Seq(Entries)
      BY <1>0, AppendFacts DEF ListsTyped
    <3> QED
      BY <1>0, <2>1, <2>3, <3>1 DEF ListsTyped
  <2> QED
    BY <1>3, <2>2, <2>3, DeviceSyncCpuFacts
<1>4. ASSUME NEW t \in Threads, QueryDone(t) \/ \E h \in Handles : QueryApi(t, h)
      PROVE  ListsTyped'
  <2>1. UNCHANGED <<api_fifo, syncs>>
    BY <1>4 DEF QueryDone, QueryApi
  <2>2. PICK i \in 1 .. Len(api_list) :
          \/ api_list' = Flagged(api_list, i, "FINISH")
          \/ api_list' = Flagged(api_list, i, "WAIT")
    BY <1>4, QueryFacts
  <2>3. api_list' \in Seq(Entries)
    <3>1. api_list \in Seq(Entries) /\ "FINISH" \in Flags /\ "WAIT" \in Flags
      BY <1>0 DEF ListsTyped, Flags
    <3>2. /\ Flagged(api_list, i, "FINISH") \in Seq(Entries)
          /\ Flagged(api_list, i, "WAIT") \in Seq(Entries)
      BY <3>1, FlagPicks
    <3> QED
      BY <2>2, <3>2
  <2> QED
    BY <1>0, <2>1, <2>3 DEF ListsTyped
<1>5. CASE XpuMarker
  <2>1. /\ api_fifo # <<>> /\ IsMarker(Head(api_fifo)) /\ MarkerDone("XPU", Head(api_fifo))
        /\ api_fifo' = Tail(api_fifo) /\ api_list' = api_list
    BY <1>5 DEF XpuMarker
  <2>2. /\ device_sync_cpl' \in [Channels -> MarkerNos]
        /\ dev_sync_done' \in [Channels -> MarkerNos]
        /\ device_sync_last' = device_sync_last
    BY <1>0, <2>1, MarkerTaken DEF ListsTyped, MarkersInv
  <2>3. Tail(api_fifo) \in Seq(Entries) /\ Len(Tail(api_fifo)) = Len(api_fifo) - 1
    BY <1>0, <2>1, TailPicks DEF ListsTyped
  <2> QED
    BY <1>0, <2>1, <2>2, <2>3 DEF ListsTyped
<1>6. CASE CpuMarker
  <2>1. /\ api_list # <<>> /\ IsMarker(Head(api_list)) /\ MarkerDone("CPU", Head(api_list))
        /\ api_list' = Tail(api_list) /\ api_fifo' = api_fifo
    BY <1>6 DEF CpuMarker
  <2>2. /\ device_sync_cpl' \in [Channels -> MarkerNos]
        /\ dev_sync_done' \in [Channels -> MarkerNos]
        /\ device_sync_last' = device_sync_last
    BY <1>0, <2>1, MarkerTaken DEF ListsTyped, MarkersInv
  <2>3. Tail(api_list) \in Seq(Entries)
    BY <1>0, <2>1, TailPicks DEF ListsTyped
  <2> QED
    BY <1>0, <2>1, <2>2, <2>3 DEF ListsTyped
<1>7. CASE XpuApi
  <2>1. api_fifo # <<>> /\ api_fifo' = Tail(api_fifo) /\ UNCHANGED <<api_list, syncs>>
    BY <1>7 DEF XpuApi
  <2>2. Tail(api_fifo) \in Seq(Entries) /\ Len(Tail(api_fifo)) = Len(api_fifo) - 1
    BY <1>0, <2>1, TailPicks DEF ListsTyped
  <2> QED
    BY <1>0, <2>1, <2>2 DEF ListsTyped
<1>8. CASE CpuApi
  <2>1. PICK i, hit, f : CpuHit(i, hit, f)
    BY <1>8, CpuApiFacts
  <2>2. UNCHANGED <<api_fifo, syncs>>
    BY <1>8 DEF CpuApi
  <2>3. api_list' \in Seq(Entries)
    BY <2>1 DEF CpuHit, HitMap, Picks
  <2> QED
    BY <1>0, <2>2, <2>3 DEF ListsTyped
<1>9. ASSUME NEW t \in Threads, Local(t)
      PROVE  ListsTyped'
  BY <1>0, <1>9 DEF Local, ListsTyped
<1>10. ASSUME NEW t \in Threads,
              \/ CloseFree(t) \/ RecordSeq(t) \/ WaitMsgfifo(t) \/ Fail(t)
              \/ CopyToMsgfifo(t)
              \/ \E h \in Handles : Open(t, h) \/ \E c \in Channels : SendApi(t, h, c)
       PROVE  ListsTyped'
  <2>1. UNCHANGED <<api_fifo, api_list, syncs>>
    BY <1>10 DEF CloseFree, RecordSeq, WaitMsgfifo, Fail, GiveUp, CopyToMsgfifo, Open,
                 SendApi
  <2> QED
    BY <1>0, <2>1 DEF ListsTyped
<1>11. CASE \/ UNCHANGED vars \/ XpuEnd \/ CpuEnd
            \/ \E c \in Channels : Execute(c) \/ IrqStart(c)
  <2>1. UNCHANGED <<api_fifo, api_list, syncs>>
    BY <1>11, CpuEndFacts DEF vars, XpuEnd, Execute, IrqStart
  <2> QED
    BY <1>0, <2>1 DEF ListsTyped
<1> QED
  BY <1>1, <1>2, <1>3, <1>4, <1>5, <1>6, <1>7, <1>8, <1>9, <1>10, <1>11, StepKinds

CallTypes ==
  /\ api_mutex \in [Channels -> Threads \cup {NoThread}]
  /\ pc \in [Threads -> SystemCalls] /\ loc \in [Threads -> Locs]

LEMMA CallTypesStep ==
  ASSUME TypeOK, CallsInv, SendersInv, [Next]_vars
  PROVE  CallTypes'
<1> USE DEF handles, thds, card, syncs, noApiStep
<1>0. CallTypes
  BY DEF TypeOK, CallTypes, Locs
<1>1. ASSUME NEW t \in Threads, NEW h \in Handles, NEW c \in Channels, SendApi(t, h, c)
      PROVE  CallTypes'
  <2>1. api_mutex' = [api_mutex EXCEPT ![c] = t]
    BY <1>1 DEF SendApi
  <2> QED
    BY <1>0, <1>1, <2>1, SendApiFacts DEF CallTypes
<1>2. ASSUME NEW t \in Threads, RecordSeq(t) \/ WaitMsgfifo(t) \/ Enqueue(t)
      PROVE  CallTypes'
  <2>1. /\ UNCHANGED <<api_mutex, loc>>
        /\ \E p \in {"wait", "enqueue", "copy"} : pc' = [pc EXCEPT ![t] = p]
    BY <1>2 DEF RecordSeq, WaitMsgfifo, Enqueue, Goto
  <2> QED
    BY <1>0, <2>1 DEF CallTypes, SystemCalls
<1>3. ASSUME NEW t \in Threads, CloseFree(t) \/ Fail(t) \/ CopyToMsgfifo(t)
      PROVE  CallTypes'
  <2>1. /\ Return(t) /\ loc[t].c \in Channels
        /\ \/ api_mutex' = api_mutex
           \/ api_mutex' = [api_mutex EXCEPT ![loc[t].c] = NoThread]
    BY <1>0, <1>3 DEF CloseFree, Fail, GiveUp, CopyToMsgfifo, CallTypes, Locs
  <2> QED
    BY <1>0, <2>1, ReturnFacts DEF CallTypes
<1>4. ASSUME NEW t \in Threads, Local(t)
      PROVE  CallTypes'
  BY <1>0, <1>4 DEF Local, CallTypes
<1>5. ASSUME NEW t \in Threads, QueryDone(t) \/ \E h \in Handles : QueryApi(t, h)
      PROVE  CallTypes'
  BY <1>0, <1>5, QueryFacts DEF CallTypes
<1>6. ASSUME NEW t \in Threads, DeviceSyncCpu(t)
      PROVE  CallTypes'
  BY <1>0, <1>6, DeviceSyncCpuFacts DEF CallTypes
<1>7. ASSUME NEW t \in Threads, NEW h \in Handles, DeviceSync(t, h)
      PROVE  CallTypes'
  BY <1>0, <1>7, DeviceSyncFacts DEF CallTypes
<1>8. CASE \/ UNCHANGED vars \/ XpuMarker \/ CpuMarker \/ XpuEnd \/ CpuEnd
           \/ XpuApi \/ CpuApi
           \/ \E c \in Channels : Execute(c) \/ IrqStart(c)
           \/ \E t \in Threads, h \in Handles : Open(t, h)
  <2>1. UNCHANGED <<api_mutex, pc, loc>>
    BY <1>8 DEF vars, XpuMarker, CpuMarker, XpuEnd, CpuEnd, XpuApi, CpuApi, Execute,
                IrqStart, Open
  <2> QED
    BY <1>0, <2>1 DEF CallTypes
<1> QED
  BY <1>1, <1>2, <1>3, <1>4, <1>5, <1>6, <1>7, <1>8, StepKinds

LEMMA TypesStep ==
  ASSUME TypeOK, CallsInv, SendersInv, InterruptsInv, MarkersInv, ListInv, [Next]_vars
  PROVE  TypeOK'
<1>1. HandleTypes' /\ RingTypes' /\ ListsTyped' /\ CallTypes'
  BY HandleTypesStep, RingTypesStep, ListTypesStep, CallTypesStep
<1> QED
  BY <1>1 DEF TypeOK, HandleTypes, RingTypes, ListsTyped, CallTypes, Entries, Locs

-----------------------------------------------------------------------------
(* api_fifo and the ring of the XPU.                                         *)

MessageOf(e) == Message(e.seq, e.h, e.t)

LEMMA ApisInAppend ==
  ASSUME NEW l \in Seq(Entries), NEW e \in Entries
  PROVE  ApisIn(Append(l, e)) =
           ApisIn(l) \cup (IF IsMarker(e) THEN {} ELSE {MessageOf(e)})
<1> DEFINE m == Append(l, e)
<1>1. /\ DOMAIN l = 1 .. Len(l) /\ DOMAIN m = 1 .. Len(l) + 1 /\ Len(l) \in Nat
      /\ \A i \in 1 .. Len(l) : m[i] = l[i]
      /\ m[Len(l) + 1] = e
  BY AppendFacts
<1> HIDE DEF m
<1>2. ASSUME NEW i \in DOMAIN m, ~IsMarker(m[i])
      PROVE  MessageOf(m[i]) \in ApisIn(l) \cup (IF IsMarker(e) THEN {} ELSE {MessageOf(e)})
  <2>1. CASE i \in 1 .. Len(l)
    BY <1>1, <1>2, <2>1 DEF ApisIn, MessageOf
  <2>2. CASE i = Len(l) + 1
    BY <1>1, <1>2, <2>2
  <2> QED
    BY <1>1, <2>1, <2>2
<1>3. ASSUME NEW i \in DOMAIN l, ~IsMarker(l[i])
      PROVE  MessageOf(l[i]) \in ApisIn(m)
  <2>1. i \in DOMAIN m /\ m[i] = l[i]
    BY <1>1
  <2> QED
    BY <1>3, <2>1 DEF ApisIn, MessageOf
<1>4. ~IsMarker(e) => MessageOf(e) \in ApisIn(m)
  <2>1. Len(l) + 1 \in DOMAIN m
    BY <1>1
  <2> QED
    BY <1>1, <2>1 DEF ApisIn, MessageOf
<1>5. ApisIn(m) \subseteq ApisIn(l) \cup (IF IsMarker(e) THEN {} ELSE {MessageOf(e)})
  BY <1>2 DEF ApisIn, MessageOf
<1>6. ApisIn(l) \subseteq ApisIn(m)
  BY <1>3 DEF ApisIn, MessageOf
<1>7. ApisIn(m) = ApisIn(l) \cup (IF IsMarker(e) THEN {} ELSE {MessageOf(e)})
  BY <1>4, <1>5, <1>6
<1> QED
  BY <1>7 DEF m

LEMMA ApisInTail ==
  ASSUME NEW l \in Seq(Entries), l # <<>>
  PROVE  ApisIn(l) =
           ApisIn(Tail(l)) \cup (IF IsMarker(l[1]) THEN {} ELSE {MessageOf(l[1])})
<1> DEFINE m == Tail(l)
<1>1. /\ m \in Seq(Entries) /\ Len(m) = Len(l) - 1 /\ 1 \in 1 .. Len(l)
      /\ \A i \in 1 .. Len(l) - 1 : m[i] = l[i + 1]
  BY TailPicks
<1>2. DOMAIN l = 1 .. Len(l) /\ DOMAIN m = 1 .. Len(l) - 1 /\ Len(l) \in Nat
  BY <1>1, LenProperties
<1> HIDE DEF m
<1>3. ASSUME NEW i \in DOMAIN m, ~IsMarker(m[i])
      PROVE  MessageOf(m[i]) \in ApisIn(l)
  <2>1. i + 1 \in DOMAIN l /\ m[i] = l[i + 1]
    BY <1>1, <1>2
  <2> QED
    BY <1>3, <2>1 DEF ApisIn, MessageOf
<1>4. ASSUME NEW i \in DOMAIN l, ~IsMarker(l[i])
      PROVE  MessageOf(l[i]) \in
               ApisIn(m) \cup (IF IsMarker(l[1]) THEN {} ELSE {MessageOf(l[1])})
  <2>1. CASE i = 1
    BY <1>4, <2>1
  <2>2. CASE i # 1
    <3>1. i - 1 \in DOMAIN m /\ m[i - 1] = l[i]
      <4>1. i - 1 \in 1 .. Len(l) - 1 /\ (i - 1) + 1 = i
        BY <1>2, <2>2
      <4> QED
        BY <1>1, <1>2, <4>1
    <3>2. MessageOf(m[i - 1]) \in ApisIn(m)
      BY <1>4, <3>1 DEF ApisIn, MessageOf
    <3> QED
      BY <3>1, <3>2
  <2> QED
    BY <2>1, <2>2
<1>5. ApisIn(m) \subseteq ApisIn(l)
  BY <1>3 DEF ApisIn, MessageOf
<1>6. ApisIn(l) \subseteq
        ApisIn(m) \cup (IF IsMarker(l[1]) THEN {} ELSE {MessageOf(l[1])})
  BY <1>4 DEF ApisIn, MessageOf
<1>7. ~IsMarker(l[1]) => MessageOf(l[1]) \in ApisIn(l)
  BY <1>1, <1>2 DEF ApisIn, MessageOf
<1>8. ApisIn(l) = ApisIn(m) \cup (IF IsMarker(l[1]) THEN {} ELSE {MessageOf(l[1])})
  BY <1>5, <1>6, <1>7
<1> QED
  BY <1>8 DEF m

LEMMA MessageOfFacts ==
  ASSUME NEW e
  PROVE  /\ MessageOf(e).seq = e.seq /\ MessageOf(e).h = e.h /\ MessageOf(e).t = e.t
BY DEF MessageOf, Message

(* What is behind an API in a list has a higher number, in the message too.  *)
LEMMA HeadIsLeast ==
  ASSUME NEW l \in Seq(Entries), l # <<>>, ApisAscending(l), ~IsMarker(l[1]),
         NEW m \in ApisIn(Tail(l))
  PROVE  l[1].seq < m.seq
<1>1. PICK i \in DOMAIN Tail(l) : ~IsMarker(Tail(l)[i]) /\ m = MessageOf(Tail(l)[i])
  BY DEF ApisIn, MessageOf
<1>2. /\ Tail(l) \in Seq(Entries) /\ Len(Tail(l)) = Len(l) - 1 /\ 1 \in 1 .. Len(l)
      /\ \A j \in 1 .. Len(l) - 1 : Tail(l)[j] = l[j + 1]
  BY TailPicks
<1>3. DOMAIN l = 1 .. Len(l) /\ DOMAIN Tail(l) = 1 .. Len(l) - 1 /\ Len(l) \in Nat
  BY <1>2, LenProperties
<1>4. i + 1 \in DOMAIN l /\ 1 \in DOMAIN l /\ 1 < i + 1 /\ Tail(l)[i] = l[i + 1]
  BY <1>1, <1>2, <1>3
<1>5. l[1].seq < l[i + 1].seq
  BY <1>1, <1>4 DEF ApisAscending
<1> QED
  BY <1>1, <1>4, <1>5, MessageOfFacts

(* The entry at the head of api_fifo is that of the first message.           *)
LEMMA HeadMatches ==
  ASSUME TypeOK, EntriesMatchMessages, InterruptsInv, XpuApi
  PROVE  /\ api_fifo # <<>> /\ Head(api_fifo) = api_fifo[1] /\ ~IsMarker(api_fifo[1])
         /\ api_fifo[1] \in Entries
         /\ 1 \in DOMAIN ring["XPU"] /\ executed["XPU"] > 0
         /\ ring["XPU"][1] = MessageOf(api_fifo[1])
<1> DEFINE e == api_fifo[1]
<1>1. /\ api_fifo # <<>> /\ Head(api_fifo) = e /\ ~IsMarker(e) /\ e \in Entries
      /\ api_fifo \in Seq(Entries)
  BY ListTypes, TailPicks DEF XpuApi
<1>2. /\ 1 \in DOMAIN ring["XPU"] /\ executed["XPU"] > 0
      /\ DOMAIN ring["XPU"] = 1 .. Len(ring["XPU"]) /\ Len(ring["XPU"]) \in Nat
      /\ \A i \in DOMAIN ring["XPU"] : ring["XPU"][i].seq \in Nat
  <2>1. executed["XPU"] > 0 /\ Len(ring["XPU"]) > 0
    BY ReleasingFacts DEF Released
  <2> QED
    BY <2>1, RingFacts, NumberTypes
<1>3. /\ ApisIn(api_fifo) = ApisIn(Tail(api_fifo)) \cup {MessageOf(e)}
      /\ \A m \in ApisIn(Tail(api_fifo)) : e.seq < m.seq
  BY <1>1, ApisInTail, HeadIsLeast DEF EntriesMatchMessages
<1>4. e.seq \in Nat /\ MessageOf(e).seq = e.seq
  BY <1>1, EntryFacts, MessageOfFacts
<1>5. ring["XPU"][1] \in ApisIn(api_fifo)
  BY <1>2 DEF EntriesMatchMessages
<1>6. ASSUME ring["XPU"][1] # MessageOf(e)
      PROVE  FALSE
  <2>1. e.seq < ring["XPU"][1].seq
    BY <1>3, <1>5, <1>6
  <2>2. \/ \E i \in DOMAIN ring["XPU"] : MessageOf(e) = ring["XPU"][i]
        \/ \E t \in BeingCopied("XPU") : MessageOf(e) = Message(loc[t].seq, loc[t].h, t)
    BY <1>3 DEF EntriesMatchMessages
  <2>3. ASSUME NEW i \in DOMAIN ring["XPU"], MessageOf(e) = ring["XPU"][i]
        PROVE  FALSE
    <3>1. CASE i = 1
      BY <1>6, <2>3, <3>1
    <3>2. CASE i # 1
      <4>1. 1 < i /\ ring["XPU"][1].seq < ring["XPU"][i].seq
        BY <1>2, <3>2 DEF EntriesMatchMessages, Ascending
      <4> QED
        BY <1>2, <1>4, <2>1, <2>3, <4>1
    <3> QED
      BY <3>1, <3>2
  <2>4. ASSUME NEW t \in BeingCopied("XPU"), MessageOf(e) = Message(loc[t].seq, loc[t].h, t)
        PROVE  FALSE
    <3>1. ring["XPU"][1].seq < loc[t].seq
      BY <1>2 DEF EntriesMatchMessages
    <3>2. loc[t].seq = e.seq
      BY <1>4, <2>4 DEF Message
    <3> QED
      BY <1>2, <1>4, <2>1, <3>1, <3>2
  <2> QED
    BY <2>2, <2>3, <2>4
<1> QED
  BY <1>1, <1>2, <1>6

LEMMA AppendAscends ==
  ASSUME NEW l \in Seq(Entries), NEW e \in Entries, ApisAscending(l),
         IsMarker(e) \/ \A m \in ApisIn(l) : m.seq < e.seq
  PROVE  ApisAscending(Append(l, e))
<1> DEFINE m == Append(l, e)
<1>1. /\ DOMAIN l = 1 .. Len(l) /\ DOMAIN m = 1 .. Len(l) + 1 /\ Len(l) \in Nat
      /\ \A i \in 1 .. Len(l) : m[i] = l[i]
      /\ m[Len(l) + 1] = e
  BY AppendFacts
<1> HIDE DEF m
<1>2. SUFFICES ASSUME NEW i \in DOMAIN m, NEW j \in DOMAIN m, i < j,
                      ~IsMarker(m[i]), ~IsMarker(m[j])
               PROVE  m[i].seq < m[j].seq
  BY DEF ApisAscending, m
<1>3. i \in DOMAIN l /\ m[i] = l[i]
  BY <1>1, <1>2
<1>4. CASE j \in DOMAIN l
  BY <1>1, <1>2, <1>3, <1>4 DEF ApisAscending
<1>5. CASE j = Len(l) + 1
  <2>1. MessageOf(l[i]) \in ApisIn(l)
    BY <1>2, <1>3 DEF ApisIn, MessageOf
  <2>2. MessageOf(l[i]).seq < e.seq
    BY <1>1, <1>2, <1>5, <2>1
  <2> QED
    BY <1>1, <1>3, <1>5, <2>2, MessageOfFacts
<1> QED
  BY <1>1, <1>4, <1>5

LEMMA TailAscends ==
  ASSUME NEW l \in Seq(Entries), l # <<>>, ApisAscending(l)
  PROVE  ApisAscending(Tail(l))
<1>1. PICK f : Picks(Tail(l), l, f)
  BY TailPicks
<1> QED
  BY <1>1, PickedInOrder

CopiersKept ==
  \A u \in Threads : /\ pc'[u] = "copy" <=> pc[u] = "copy"
                     /\ pc[u] = "copy" => loc'[u] = loc[u]

(* Copies begin and end in two steps.                                        *)
LEMMA CopierSteps ==
  ASSUME TypeOK, CallsInv, [Next]_vars
  PROVE  \/ \E t \in Threads : Enqueue(t) \/ CopyToMsgfifo(t)
         \/ CopiersKept
<1>0. pc \in [Threads -> SystemCalls] /\ loc \in [Threads -> Locs]
  BY DEF TypeOK, Locs
<1>1. ASSUME NEW t \in Threads, pc[t] # "copy", pc'[t] # "copy",
             \A u \in Threads \ {t} : pc'[u] = pc[u] /\ loc'[u] = loc[u]
      PROVE  CopiersKept
  BY <1>1 DEF CopiersKept
<1>2. ASSUME NEW t \in Threads, Local(t)
      PROVE  CopiersKept
  BY <1>1, <1>2 DEF Local, Sending
<1>3. ASSUME NEW t \in Threads, QueryDone(t) \/ CloseFree(t) \/ Fail(t)
      PROVE  CopiersKept
  <2>1. Return(t) /\ pc[t] # "copy"
    BY <1>3 DEF QueryDone, CloseFree, Fail, GiveUp
  <2> QED
    BY <1>1, <2>1, ReturnFacts
<1>4. ASSUME NEW t \in Threads, DeviceSyncCpu(t)
      PROVE  CopiersKept
  BY <1>1, <1>4, DeviceSyncCpuFacts
<1>5. ASSUME NEW t \in Threads, NEW h \in Handles, QueryApi(t, h)
      PROVE  CopiersKept
  BY <1>0, <1>1, <1>5 DEF QueryApi, MayCall, Goto, Locals
<1>6. ASSUME NEW t \in Threads, NEW h \in Handles, DeviceSync(t, h)
      PROVE  CopiersKept
  BY <1>1, <1>6, DeviceSyncFacts
<1>7. ASSUME NEW t \in Threads, NEW h \in Handles, NEW c \in Channels, SendApi(t, h, c)
      PROVE  CopiersKept
  BY <1>0, <1>1, <1>7 DEF SendApi, MayCall, Goto, Locals
<1>8. ASSUME NEW t \in Threads, RecordSeq(t) \/ WaitMsgfifo(t)
      PROVE  CopiersKept
  BY <1>0, <1>1, <1>8 DEF RecordSeq, WaitMsgfifo, Goto
<1>9. ASSUME \/ UNCHANGED vars \/ XpuMarker \/ CpuMarker \/ XpuEnd \/ CpuEnd
             \/ XpuApi \/ CpuApi
             \/ \E c \in Channels : Execute(c) \/ IrqStart(c)
             \/ \E t \in Threads, h \in Handles : Open(t, h)
      PROVE  CopiersKept
  <2>1. UNCHANGED <<pc, loc>>
    BY <1>9 DEF vars, XpuMarker, CpuMarker, XpuEnd, CpuEnd, XpuApi, CpuApi, Execute,
                IrqStart, Open
  <2> QED
    BY <2>1 DEF CopiersKept
<1> QED
  BY <1>2, <1>3, <1>4, <1>5, <1>6, <1>7, <1>8, <1>9, StepKinds

LEMMA FifoSteps ==
  ASSUME TypeOK, CallsInv, SendersInv, InterruptsInv, ListInv, [Next]_vars
  PROVE  \/ \E t \in Threads :
              \/ Enqueue(t) \/ CopyToMsgfifo(t)
              \/ \E h \in Handles : DeviceSync(t, h)
         \/ XpuMarker \/ XpuApi
         \/ api_fifo' = api_fifo /\ ring'["XPU"] = ring["XPU"] /\ CopiersKept
<1> DEFINE Same == api_fifo' = api_fifo /\ ring'["XPU"] = ring["XPU"]
<1>1. ASSUME NEW t \in Threads,
             \/ Local(t) \/ QueryDone(t) \/ DeviceSyncCpu(t) \/ CloseFree(t)
             \/ Fail(t) \/ RecordSeq(t) \/ WaitMsgfifo(t)
             \/ \E h \in Handles : \/ Open(t, h) \/ QueryApi(t, h)
                                   \/ \E c \in Channels : SendApi(t, h, c)
      PROVE  Same
  BY <1>1 DEF Local, QueryDone, DeviceSyncCpu, CloseFree, Fail, GiveUp, RecordSeq,
              WaitMsgfifo, Open, QueryApi, SendApi, noApiStep
<1>2. ASSUME \/ UNCHANGED vars \/ CpuMarker \/ XpuEnd \/ CpuEnd
             \/ \E c \in Channels : Execute(c) \/ IrqStart(c)
      PROVE  Same
  BY <1>2 DEF vars, CpuMarker, XpuEnd, CpuEnd, Execute, IrqStart
<1>3. ASSUME CpuApi
      PROVE  Same
  BY <1>3, ReleasingCpuFacts, NumberTypes DEF CpuApi, Released
<1> HIDE DEF Same
<1>4. \/ \E t \in Threads :
           \/ Enqueue(t) \/ CopyToMsgfifo(t)
           \/ \E h \in Handles : DeviceSync(t, h)
      \/ XpuMarker \/ XpuApi
      \/ Same
  BY <1>1, <1>2, <1>3, StepKinds
<1> QED
  BY <1>4, CopierSteps DEF Same

Copied(c) == {Message(loc[t].seq, loc[t].h, t) : t \in BeingCopied(c)}
InRing(c) == {ring[c][i] : i \in DOMAIN ring[c]}

LEMMA EntriesStep ==
  ASSUME TypeOK, CallsInv, SendersInv, NumbersInv, InterruptsInv, ListInv,
         EntriesMatchMessages, NumbersInv', [Next]_vars
  PROVE  EntriesMatchMessages'
<1> USE NumberTypes
<1>0. /\ api_fifo \in Seq(Entries) /\ ApisAscending(api_fifo)
      /\ ApisIn(api_fifo) = InRing("XPU") \cup Copied("XPU")
      /\ DOMAIN ring["XPU"] = 1 .. Len(ring["XPU"]) /\ Len(ring["XPU"]) \in Nat
      /\ \A i \in DOMAIN ring["XPU"] : ring["XPU"][i].seq \in Nat
  BY ListTypes, RingFacts DEF EntriesMatchMessages, InRing, Copied
<1>1. /\ Ascending(ring'["XPU"])
      /\ \A t \in BeingCopied("XPU")', i \in DOMAIN ring'["XPU"] :
           ring'["XPU"][i].seq < loc'[t].seq
  <2>1. Ascending(ring'["XPU"])
    BY DEF NumbersInv, Ascending
  <2>2. \A t \in BeingCopied("XPU")' : SendsOn(t, "XPU")' /\ t \in Threads
    BY DEF BeingCopied, SendsOn, Sending
  <2> QED
    BY <2>1, <2>2 DEF NumbersInv
<1>2. SUFFICES /\ ApisAscending(api_fifo')
               /\ ApisIn(api_fifo') = InRing("XPU")' \cup Copied("XPU")'
  BY <1>1 DEF EntriesMatchMessages, InRing, Copied, Ascending, ApisAscending, ApisIn
<1>3. ASSUME CopiersKept
      PROVE  Copied("XPU")' = Copied("XPU")
  BY <1>3 DEF CopiersKept, Copied, BeingCopied
<1>4. ASSUME NEW t \in Threads, SendsOn(t, "XPU"), pc[t] # "copy"
      PROVE  BeingCopied("XPU") = {}
  <2>1. ASSUME NEW u \in BeingCopied("XPU")
        PROVE  FALSE
    <3>1. u \in Threads /\ SendsOn(u, "XPU") /\ pc[u] = "copy"
      BY DEF BeingCopied, SendsOn, Sending
    <3> QED
      BY <1>4, <3>1, OneSender
  <2> QED
    BY <2>1
<1>5. ASSUME NEW t \in Threads, Enqueue(t)
      PROVE  /\ ApisAscending(api_fifo')
             /\ ApisIn(api_fifo') = InRing("XPU")' \cup Copied("XPU")'
  <2>1. PICK e \in Entries :
          /\ ~IsMarker(e) /\ e.seq = loc[t].seq /\ e.h = loc[t].h /\ e.t = t
          /\ \/ /\ loc[t].c = "XPU" /\ api_fifo' = Append(api_fifo, e)
             \/ /\ loc[t].c = "CPU" /\ api_fifo' = api_fifo
    BY <1>5, EnqueueFacts
  <2>2. /\ pc[t] = "enqueue" /\ loc' = loc /\ ring' = ring
        /\ pc' \in [Threads -> SystemCalls] /\ pc'[t] = "copy"
        /\ \A u \in Threads \ {t} : pc'[u] = pc[u]
    <3>1. pc[t] = "enqueue" /\ loc' = loc /\ pc' = [pc EXCEPT ![t] = "copy"]
      BY <1>5, EnqueueFacts
    <3>2. ring' = ring /\ pc \in [Threads -> SystemCalls]
      BY <1>5 DEF Enqueue, TypeOK
    <3> QED
      BY <3>1, <3>2 DEF SystemCalls
  <2>3. InRing("XPU")' = InRing("XPU")
    BY <2>2 DEF InRing
  <2>4. CASE loc[t].c = "CPU"
    <3>1. BeingCopied("XPU")' = BeingCopied("XPU")
      BY <2>2, <2>4 DEF BeingCopied
    <3>2. Copied("XPU")' = Copied("XPU")
      BY <2>2, <3>1 DEF Copied
    <3>3. api_fifo' = api_fifo
      BY <2>1, <2>4
    <3> QED
      BY <1>0, <2>3, <3>2, <3>3
  <2>5. CASE loc[t].c = "XPU"
    <3>1. BeingCopied("XPU") = {} /\ SendsOn(t, "XPU")
      BY <1>4, <2>2, <2>5 DEF SendsOn, Sending
    <3>2. BeingCopied("XPU")' = {t}
      <4>1. \A u \in Threads : pc'[u] = "copy" /\ loc'[u].c = "XPU" <=> u = t
        BY <2>2, <2>5, <3>1 DEF BeingCopied
      <4> QED
        BY <4>1 DEF BeingCopied
    <3>3. Copied("XPU")' = {MessageOf(e)} /\ Copied("XPU") = {}
      BY <2>1, <2>2, <3>1, <3>2 DEF Copied, MessageOf
    <3>4. api_fifo' = Append(api_fifo, e)
      BY <2>1, <2>5
    <3>5. ApisIn(api_fifo') = ApisIn(api_fifo) \cup {MessageOf(e)}
      BY <1>0, <2>1, <3>4, ApisInAppend
    <3>6. \A m \in ApisIn(api_fifo) : m.seq < e.seq
      BY <1>0, <2>1, <3>1, <3>3 DEF InRing, NumbersInv
    <3>7. ApisAscending(api_fifo')
      BY <1>0, <3>4, <3>6, AppendAscends
    <3> QED
      BY <1>0, <2>3, <3>3, <3>5, <3>7
  <2> QED
    BY <2>1, <2>4, <2>5
<1>6. ASSUME NEW t \in Threads, CopyToMsgfifo(t)
      PROVE  /\ ApisAscending(api_fifo')
             /\ ApisIn(api_fifo') = InRing("XPU")' \cup Copied("XPU")'
  <2>1. /\ pc[t] = "copy" /\ api_fifo' = api_fifo /\ pc'[t] = "idle"
        /\ \A u \in Threads \ {t} : pc'[u] = pc[u] /\ loc'[u] = loc[u]
        /\ Written(t, loc[t].c) /\ loc[t].c \in Channels
    BY <1>6, CopyFacts, ReturnFacts DEF CopyToMsgfifo
  <2>2. CASE loc[t].c = "CPU"
    <3>1. ring'["XPU"] = ring["XPU"]
      BY <2>1, <2>2 DEF Written
    <3>2. BeingCopied("XPU")' = BeingCopied("XPU") /\ t \notin BeingCopied("XPU")
      BY <2>1, <2>2 DEF BeingCopied
    <3>3. Copied("XPU")' = Copied("XPU")
      <4>1. \A u \in BeingCopied("XPU") : loc'[u] = loc[u]
        BY <2>1, <3>2 DEF BeingCopied
      <4> QED
        BY <3>2, <4>1 DEF Copied
    <3>4. InRing("XPU")' = InRing("XPU")
      BY <3>1 DEF InRing
    <3> QED
      BY <1>0, <2>1, <3>3, <3>4
  <2>3. CASE loc[t].c = "XPU"
    <3>1. BeingCopied("XPU") = {t}
      <4>1. ASSUME NEW u \in BeingCopied("XPU")
            PROVE  u = t
        <5>1. u \in Threads /\ SendsOn(u, "XPU") /\ SendsOn(t, "XPU")
          BY <2>1, <2>3 DEF BeingCopied, SendsOn, Sending
        <5> QED
          BY <5>1, OneSender
      <4> QED
        BY <2>1, <2>3, <4>1 DEF BeingCopied
    <3>2. BeingCopied("XPU")' = {}
      <4>1. ASSUME NEW u \in Threads, pc'[u] = "copy", loc'[u].c = "XPU"
            PROVE  FALSE
        <5>1. u # t
          BY <2>1, <4>1
        <5>2. u \in BeingCopied("XPU")
          BY <2>1, <4>1, <5>1 DEF BeingCopied
        <5> QED
          BY <3>1, <5>1, <5>2
      <4> QED
        BY <4>1 DEF BeingCopied
    <3>3. Copied("XPU")' = {} /\ Copied("XPU") = {Message(loc[t].seq, loc[t].h, t)}
      BY <3>1, <3>2 DEF Copied
    <3>4. InRing("XPU")' = InRing("XPU") \cup {Message(loc[t].seq, loc[t].h, t)}
      <4>1. /\ DOMAIN ring'["XPU"] = 1 .. Len(ring["XPU"]) + 1
            /\ \A i \in 1 .. Len(ring["XPU"]) : ring'["XPU"][i] = ring["XPU"][i]
            /\ ring'["XPU"][Len(ring["XPU"]) + 1] = Message(loc[t].seq, loc[t].h, t)
        BY <2>1, <2>3 DEF Written
      <4>2. 1 .. Len(ring["XPU"]) + 1 = (1 .. Len(ring["XPU"])) \cup {Len(ring["XPU"]) + 1}
        BY <1>0
      <4> QED
        BY <1>0, <4>1, <4>2 DEF InRing
    <3> QED
      BY <1>0, <2>1, <3>3, <3>4
  <2> QED
    BY <2>1, <2>2, <2>3 DEF Channels
<1>7. ASSUME NEW t \in Threads, NEW h \in Handles, DeviceSync(t, h)
      PROVE  /\ ApisAscending(api_fifo')
             /\ ApisIn(api_fifo') = InRing("XPU")' \cup Copied("XPU")'
  <2>1. /\ pc[t] = "idle" /\ pc'[t] # "copy" /\ ring' = ring
        /\ \A u \in Threads \ {t} : pc'[u] = pc[u] /\ loc'[u] = loc[u]
    BY <1>7, DeviceSyncFacts DEF noApiStep
  <2>2. CopiersKept
    BY <2>1 DEF CopiersKept
  <2>3. InRing("XPU")' = InRing("XPU") /\ Copied("XPU")' = Copied("XPU")
    BY <1>3, <2>1, <2>2 DEF InRing
  <2>4. ApisAscending(api_fifo') /\ ApisIn(api_fifo') = ApisIn(api_fifo)
    <3>1. CASE api_fifo' = api_fifo
      BY <1>0, <3>1
    <3>2. ASSUME NEW e \in Entries, IsMarker(e), api_fifo' = Append(api_fifo, e)
          PROVE  ApisAscending(api_fifo') /\ ApisIn(api_fifo') = ApisIn(api_fifo)
      BY <1>0, <3>2, ApisInAppend, AppendAscends
    <3> QED
      BY <1>7, <3>1, <3>2, DeviceSyncFacts
  <2> QED
    BY <1>0, <2>3, <2>4
<1>8. CASE XpuMarker
  <2>1. /\ api_fifo # <<>> /\ IsMarker(api_fifo[1]) /\ api_fifo' = Tail(api_fifo)
        /\ UNCHANGED <<ring, pc, loc>>
    BY <1>0, <1>8, TailPicks DEF XpuMarker
  <2>2. InRing("XPU")' = InRing("XPU") /\ Copied("XPU")' = Copied("XPU")
    BY <2>1 DEF InRing, Copied, BeingCopied
  <2>3. ApisAscending(api_fifo') /\ ApisIn(api_fifo') = ApisIn(api_fifo)
    BY <1>0, <2>1, ApisInTail, TailAscends
  <2> QED
    BY <1>0, <2>2, <2>3
<1>9. CASE XpuApi
  <2>1. /\ api_fifo # <<>> /\ ~IsMarker(api_fifo[1]) /\ api_fifo[1] \in Entries
        /\ ring["XPU"][1] = MessageOf(api_fifo[1]) /\ 1 \in DOMAIN ring["XPU"]
    BY <1>9, HeadMatches
  <2>2. /\ api_fifo' = Tail(api_fifo) /\ UNCHANGED <<pc, loc>> /\ Released("XPU")
    BY <1>9, ReleasingFacts DEF XpuApi
  <2>3. Copied("XPU")' = Copied("XPU")
    BY <2>2 DEF Copied, BeingCopied
  <2>4. ApisAscending(api_fifo') /\ ApisIn(api_fifo) = ApisIn(api_fifo') \cup {ring["XPU"][1]}
        /\ \A m \in ApisIn(api_fifo') : api_fifo[1].seq < m.seq
    BY <1>0, <2>1, <2>2, ApisInTail, TailAscends, HeadIsLeast
  <2>5. ring["XPU"][1] \notin ApisIn(api_fifo')
    <3>1. ring["XPU"][1].seq = api_fifo[1].seq /\ api_fifo[1].seq \in Nat
      BY <2>1, MessageOfFacts, EntryFacts
    <3> QED
      BY <2>4, <3>1
  <2>6. /\ InRing("XPU") = InRing("XPU")' \cup {ring["XPU"][1]}
        /\ ring["XPU"][1] \notin InRing("XPU")'
    <3>1. /\ DOMAIN ring'["XPU"] = 1 .. Len(ring["XPU"]) - 1
          /\ \A i \in 1 .. Len(ring["XPU"]) - 1 : ring'["XPU"][i] = ring["XPU"][i + 1]
      BY <2>2 DEF Released
    <3>2. ASSUME NEW i \in DOMAIN ring'["XPU"]
          PROVE  ring'["XPU"][i] \in InRing("XPU") /\ ring'["XPU"][i] # ring["XPU"][1]
      <4>1. i + 1 \in DOMAIN ring["XPU"] /\ 1 < i + 1 /\ ring'["XPU"][i] = ring["XPU"][i + 1]
        BY <1>0, <3>1
      <4>2. ring["XPU"][1].seq < ring["XPU"][i + 1].seq
        BY <2>1, <4>1 DEF EntriesMatchMessages, Ascending
      <4>3. ring["XPU"][1].seq \in Nat
        BY <1>0, <2>1
      <4> QED
        BY <4>1, <4>2, <4>3 DEF InRing
    <3>3. ASSUME NEW i \in DOMAIN ring["XPU"], i # 1
          PROVE  ring["XPU"][i] \in InRing("XPU")'
      <4>1. i - 1 \in DOMAIN ring'["XPU"] /\ ring'["XPU"][i - 1] = ring["XPU"][i]
        <5>1. i - 1 \in 1 .. Len(ring["XPU"]) - 1 /\ (i - 1) + 1 = i
          BY <1>0, <3>3
        <5> QED
          BY <3>1, <5>1
      <4> QED
        BY <4>1 DEF InRing
    <3>4. InRing("XPU")' \subseteq InRing("XPU") /\ ring["XPU"][1] \notin InRing("XPU")'
      BY <3>2 DEF InRing
    <3>5. InRing("XPU") \subseteq InRing("XPU")' \cup {ring["XPU"][1]}
      <4>1. ASSUME NEW i \in DOMAIN ring["XPU"]
            PROVE  ring["XPU"][i] \in InRing("XPU")' \cup {ring["XPU"][1]}
        BY <3>3
      <4> QED
        BY <4>1 DEF InRing
    <3>6. ring["XPU"][1] \in InRing("XPU")
      BY <2>1 DEF InRing
    <3> QED
      BY <3>4, <3>5, <3>6
  <2>7. ring["XPU"][1] \notin Copied("XPU")
    <3>1. ASSUME NEW t \in BeingCopied("XPU"),
                 ring["XPU"][1] = Message(loc[t].seq, loc[t].h, t)
          PROVE  FALSE
      <4>1. ring["XPU"][1].seq < loc[t].seq /\ ring["XPU"][1].seq = loc[t].seq
        BY <2>1, <3>1 DEF EntriesMatchMessages, Message
      <4> QED
        BY <1>0, <2>1, <4>1
    <3> QED
      BY <3>1 DEF Copied
  <2> QED
    BY <1>0, <2>3, <2>4, <2>5, <2>6, <2>7
<1>10. CASE api_fifo' = api_fifo /\ ring'["XPU"] = ring["XPU"] /\ CopiersKept
  <2>1. InRing("XPU")' = InRing("XPU") /\ Copied("XPU")' = Copied("XPU")
    BY <1>3, <1>10 DEF InRing
  <2> QED
    BY <1>0, <1>10, <2>1
<1> QED
  BY <1>5, <1>6, <1>7, <1>8, <1>9, <1>10, FifoSteps

-----------------------------------------------------------------------------
(* Markers.                                                                  *)

LEMMA AppendedMarkers ==
  ASSUME NEW l \in Seq(Entries), NEW e \in Entries, NEW cpl, NEW last, NEW done,
         NEW n \in Nat, MarkersIn(l, cpl, last, done), last \in Nat, cpl \in Nat,
         IF IsMarker(e) THEN n = last + 1 /\ e.seq = n ELSE n = last
  PROVE  MarkersIn(Append(l, e), cpl, n, done)
<1> DEFINE m == Append(l, e)
<1>1. /\ DOMAIN l = 1 .. Len(l) /\ DOMAIN m = 1 .. Len(l) + 1 /\ Len(l) \in Nat
      /\ \A i \in 1 .. Len(l) : m[i] = l[i] /\ l[i] \in Entries
      /\ m[Len(l) + 1] = e
  BY AppendFacts, ElementOfSeq
<1> HIDE DEF m
<1>2. \A i \in 1 .. Len(l) : l[i].seq \in Nat
  BY <1>1, EntryFacts
<1>3. ASSUME NEW i \in DOMAIN m, IsMarker(m[i])
      PROVE  cpl < m[i].seq /\ m[i].seq <= n
  <2>1. CASE i \in 1 .. Len(l)
    <3>1. m[i] = l[i] /\ l[i].seq \in Nat /\ cpl < l[i].seq /\ l[i].seq <= last
      BY <1>1, <1>2, <1>3, <2>1 DEF MarkersIn
    <3> QED
      BY <3>1
  <2>2. CASE i = Len(l) + 1
    <3>1. m[i] = e /\ n = last + 1 /\ e.seq = n /\ cpl <= last
      BY <1>1, <1>3, <2>2 DEF MarkersIn
    <3> QED
      BY <3>1
  <2> QED
    BY <1>1, <2>1, <2>2
<1>4. ASSUME NEW i \in DOMAIN m, NEW j \in DOMAIN m, i < j, IsMarker(m[i]), IsMarker(m[j])
      PROVE  m[i].seq < m[j].seq
  <2>1. i \in 1 .. Len(l)
    BY <1>1, <1>4
  <2>2. CASE j \in 1 .. Len(l)
    BY <1>1, <1>4, <2>1, <2>2 DEF MarkersIn
  <2>3. CASE j = Len(l) + 1
    <3>1. m[i] = l[i] /\ l[i].seq \in Nat /\ l[i].seq <= last
      BY <1>1, <1>2, <1>4, <2>1 DEF MarkersIn
    <3>2. m[j] = e /\ e.seq = last + 1
      BY <1>1, <1>4, <2>3
    <3> QED
      BY <3>1, <3>2
  <2> QED
    BY <1>1, <2>2, <2>3
<1>5. done <= cpl /\ cpl <= n
  BY DEF MarkersIn
<1>6. MarkersIn(m, cpl, n, done)
  BY <1>3, <1>4, <1>5 DEF MarkersIn
<1> QED
  BY <1>6 DEF m

LEMMA TakenMarkers ==
  ASSUME NEW l \in Seq(Entries), l # <<>>, NEW cpl \in Nat, NEW last, NEW done \in Nat,
         MarkersIn(l, cpl, last, done), IsMarker(l[1])
  PROVE  MarkersIn(Tail(l), l[1].seq, last, done + 1)
<1> DEFINE m == Tail(l)
<1>1. /\ m \in Seq(Entries) /\ Len(m) = Len(l) - 1 /\ 1 \in 1 .. Len(l)
      /\ \A i \in 1 .. Len(l) - 1 : m[i] = l[i + 1]
      /\ l[1] \in Entries /\ l[1].seq \in Nat
  BY TailPicks, EntryFacts
<1>2. DOMAIN l = 1 .. Len(l) /\ DOMAIN m = 1 .. Len(l) - 1 /\ Len(l) \in Nat
  BY <1>1, LenProperties
<1> HIDE DEF m
<1>3. \A i \in DOMAIN m : i + 1 \in DOMAIN l /\ 1 < i + 1 /\ m[i] = l[i + 1]
  BY <1>1, <1>2
<1>4. cpl < l[1].seq /\ l[1].seq <= last /\ done <= cpl
  BY <1>1, <1>2 DEF MarkersIn
<1>5. \A i \in DOMAIN m : IsMarker(m[i]) => l[1].seq < m[i].seq /\ m[i].seq <= last
  BY <1>1, <1>2, <1>3 DEF MarkersIn
<1>6. \A i, j \in DOMAIN m : i < j => i + 1 < j + 1
  BY <1>2
<1>7. done + 1 <= l[1].seq
  BY <1>1, <1>4
<1>8. MarkersIn(m, l[1].seq, last, done + 1)
  BY <1>3, <1>4, <1>5, <1>6, <1>7 DEF MarkersIn
<1> QED
  BY <1>8 DEF m

LEMMA AppendedOwed ==
  ASSUME NEW l \in Seq(Entries), NEW e \in Entries, NEW cpl, NEW k, NEW owed,
         OwedIn(l, cpl, k, owed), IsMarker(e) \/ e.seq \notin owed
  PROVE  OwedIn(Append(l, e), cpl, k, owed)
<1> DEFINE m == Append(l, e)
<1>1. /\ DOMAIN l = 1 .. Len(l) /\ DOMAIN m = 1 .. Len(l) + 1 /\ Len(l) \in Nat
      /\ \A i \in 1 .. Len(l) : m[i] = l[i]
      /\ m[Len(l) + 1] = e
  BY AppendFacts
<1> HIDE DEF m
<1>2. \A j \in DOMAIN m : j \in DOMAIN l \/ j = Len(l) + 1
  BY <1>1
<1>3. \A i, j \in DOMAIN m : i < j => i \in DOMAIN l
  BY <1>1
<1>4. OwedIn(m, cpl, k, owed)
  BY <1>1, <1>2, <1>3 DEF OwedIn
<1> QED
  BY <1>4 DEF m

(* The marker of a sync is the last of all markers.                          *)
LEMMA NewestOwed ==
  ASSUME NEW l \in Seq(Entries), NEW e \in Entries, NEW cpl \in Nat, NEW last \in Nat,
         NEW done, NEW owed, MarkersIn(l, cpl, last, done), e.seq = last + 1
  PROVE  OwedIn(Append(l, e), cpl, last + 1, owed)
<1> DEFINE m == Append(l, e)
<1>1. /\ DOMAIN l = 1 .. Len(l) /\ DOMAIN m = 1 .. Len(l) + 1 /\ Len(l) \in Nat
      /\ \A i \in 1 .. Len(l) : m[i] = l[i] /\ l[i] \in Entries
      /\ m[Len(l) + 1] = e
  BY AppendFacts, ElementOfSeq
<1> HIDE DEF m
<1>2. \A i \in 1 .. Len(l) : l[i].seq \in Nat
  BY <1>1, EntryFacts
<1>3. cpl < last + 1
  BY DEF MarkersIn
<1>4. ASSUME NEW i \in DOMAIN m, NEW j \in DOMAIN m, i < j, IsMarker(m[i]),
             m[i].seq >= last + 1
      PROVE  FALSE
  <2>1. i \in 1 .. Len(l)
    BY <1>1, <1>4
  <2>2. m[i] = l[i] /\ l[i].seq \in Nat /\ l[i].seq <= last
    BY <1>1, <1>2, <1>4, <2>1 DEF MarkersIn
  <2> QED
    BY <1>4, <2>2
<1>5. OwedIn(m, cpl, last + 1, owed)
  BY <1>3, <1>4 DEF OwedIn
<1> QED
  BY <1>5 DEF m

LEMMA TakenOwed ==
  ASSUME NEW l \in Seq(Entries), l # <<>>, NEW cpl \in Nat, NEW last, NEW done, NEW owed,
         NEW k \in Nat, MarkersIn(l, cpl, last, done), IsMarker(l[1]),
         OwedIn(l, cpl, k, owed)
  PROVE  OwedIn(Tail(l), l[1].seq, k, owed)
<1> DEFINE m == Tail(l)
<1>1. /\ m \in Seq(Entries) /\ Len(m) = Len(l) - 1 /\ 1 \in 1 .. Len(l)
      /\ \A i \in 1 .. Len(l) - 1 : m[i] = l[i + 1]
      /\ l[1] \in Entries /\ l[1].seq \in Nat
  BY TailPicks, EntryFacts
<1>2. DOMAIN l = 1 .. Len(l) /\ DOMAIN m = 1 .. Len(l) - 1 /\ Len(l) \in Nat
  BY <1>1, LenProperties
<1> HIDE DEF m
<1>3. /\ \A i \in DOMAIN m : i + 1 \in DOMAIN l /\ 1 < i + 1 /\ m[i] = l[i + 1]
      /\ \A i, j \in DOMAIN m : i < j => i + 1 < j + 1
      /\ 1 \in DOMAIN l
  BY <1>1, <1>2
<1>4. cpl < l[1].seq
  BY <1>3 DEF MarkersIn
<1>5. CASE l[1].seq < k
  <2>1. cpl < k
    BY <1>1, <1>4, <1>5
  <2> QED
    BY <1>3, <1>5, <2>1 DEF OwedIn, m
<1>6. CASE ~(l[1].seq < k)
  <2>1. l[1].seq >= k
    BY <1>1, <1>6
  <2>2. \A j \in DOMAIN m : IsMarker(m[j]) \/ m[j].seq \notin owed
    <3>1. CASE cpl < k
      BY <1>3, <2>1, <3>1 DEF OwedIn
    <3>2. CASE ~(cpl < k)
      BY <1>3, <3>2 DEF OwedIn
    <3> QED
      BY <3>1, <3>2
  <2> QED
    BY <1>6, <2>2 DEF OwedIn, m
<1> QED
  BY <1>5, <1>6

SyncsKept(c) ==
  /\ device_sync_cpl'[c] = device_sync_cpl[c] /\ device_sync_last'[c] = device_sync_last[c]
  /\ dev_sync_done'[c] <= dev_sync_done[c]

LEMMA SyncNumbers ==
  ASSUME TypeOK, NEW c \in Channels
  PROVE  /\ device_sync_cpl[c] \in Nat /\ device_sync_last[c] \in Nat
         /\ dev_sync_done[c] \in Nat
BY NumberTypes DEF TypeOK

(* What changes api_fifo or the counts of its markers, and what api_list.    *)
LEMMA FifoMarkerSteps ==
  ASSUME TypeOK, CallsInv, InterruptsInv, ListInv, [Next]_vars
  PROVE  \/ \E t \in Threads : Enqueue(t) \/ \E h \in Handles : DeviceSync(t, h)
         \/ XpuMarker \/ XpuApi
         \/ api_fifo' = api_fifo /\ SyncsKept("XPU")
<1> DEFINE Same == api_fifo' = api_fifo /\ SyncsKept("XPU")
<1>0. \A c \in Channels : dev_sync_done[c] \in Nat
  BY SyncNumbers
<1>1. ASSUME NEW t \in Threads, Local(t)
      PROVE  Same
  BY <1>1, NumberTypes DEF Local, SyncsKept
<1>2. ASSUME NEW t \in Threads,
             \/ QueryDone(t) \/ CloseFree(t)
             \/ Fail(t) \/ RecordSeq(t) \/ WaitMsgfifo(t) \/ CopyToMsgfifo(t)
             \/ \E h \in Handles : \/ Open(t, h) \/ QueryApi(t, h)
                                   \/ \E c \in Channels : SendApi(t, h, c)
      PROVE  Same
  <2>1. UNCHANGED <<api_fifo, syncs>>
    BY <1>2 DEF QueryDone, CloseFree, Fail, GiveUp, RecordSeq, WaitMsgfifo, CopyToMsgfifo,
                Open, QueryApi, SendApi
  <2> QED
    BY <1>0, <2>1, NumberTypes DEF SyncsKept, syncs
<1>3. ASSUME NEW t \in Threads, DeviceSyncCpu(t)
      PROVE  Same
  <2>1. /\ UNCHANGED <<api_fifo, device_sync_cpl, dev_sync_done>>
        /\ \/ device_sync_last' = device_sync_last
           \/ \E k : device_sync_last' = [device_sync_last EXCEPT !["CPU"] = k]
    BY <1>3 DEF DeviceSyncCpu
  <2>2. device_sync_last'["XPU"] = device_sync_last["XPU"]
    BY <2>1, NumberTypes DEF TypeOK
  <2> QED
    BY <1>0, <2>1, <2>2, NumberTypes DEF SyncsKept
<1>4. ASSUME CpuMarker
      PROVE  Same
  <2>1. api_fifo' = api_fifo /\ MarkerDone("CPU", Head(api_list))
    BY <1>4 DEF CpuMarker
  <2> QED
    BY <1>0, <2>1, NumberTypes DEF SyncsKept, MarkerDone
<1>5. ASSUME \/ UNCHANGED vars \/ XpuEnd \/ CpuEnd \/ CpuApi
             \/ \E c \in Channels : Execute(c) \/ IrqStart(c)
      PROVE  Same
  <2>1. UNCHANGED <<api_fifo, syncs>>
    BY <1>5 DEF vars, XpuEnd, CpuEnd, CpuApi, Execute, IrqStart
  <2> QED
    BY <1>0, <2>1, NumberTypes DEF SyncsKept, syncs
<1> HIDE DEF Same
<1>6. \/ \E t \in Threads : Enqueue(t) \/ \E h \in Handles : DeviceSync(t, h)
      \/ XpuMarker \/ XpuApi
      \/ Same
  BY <1>1, <1>2, <1>3, <1>4, <1>5, StepKinds
<1> QED
  BY <1>6 DEF Same

LEMMA ListMarkerSteps ==
  ASSUME TypeOK, CallsInv, InterruptsInv, ListInv, [Next]_vars
  PROVE  \/ \E t \in Threads : \/ Enqueue(t) \/ DeviceSyncCpu(t) \/ QueryDone(t)
                               \/ \E h \in Handles : QueryApi(t, h)
         \/ CpuMarker \/ CpuApi
         \/ api_list' = api_list /\ SyncsKept("CPU")
<1> DEFINE Same == api_list' = api_list /\ SyncsKept("CPU")
<1>0. \A c \in Channels : dev_sync_done[c] \in Nat
  BY SyncNumbers
<1>1. ASSUME NEW t \in Threads, Local(t)
      PROVE  Same
  BY <1>1, NumberTypes DEF Local, SyncsKept
<1>2. ASSUME NEW t \in Threads,
             \/ CloseFree(t)
             \/ Fail(t) \/ RecordSeq(t) \/ WaitMsgfifo(t) \/ CopyToMsgfifo(t)
             \/ \E h \in Handles : \/ Open(t, h)
                                   \/ \E c \in Channels : SendApi(t, h, c)
      PROVE  Same
  <2>1. UNCHANGED <<api_list, syncs>>
    BY <1>2 DEF CloseFree, Fail, GiveUp, RecordSeq, WaitMsgfifo, CopyToMsgfifo,
                Open, SendApi
  <2> QED
    BY <1>0, <2>1, NumberTypes DEF SyncsKept, syncs
<1>3. ASSUME NEW t \in Threads, NEW h \in Handles, DeviceSync(t, h)
      PROVE  Same
  <2>1. /\ UNCHANGED <<api_list, device_sync_cpl, dev_sync_done>>
        /\ \/ device_sync_last' = device_sync_last
           \/ \E k : device_sync_last' = [device_sync_last EXCEPT !["XPU"] = k]
    BY <1>3 DEF DeviceSync
  <2>2. device_sync_last'["CPU"] = device_sync_last["CPU"]
    BY <2>1, NumberTypes DEF TypeOK
  <2> QED
    BY <1>0, <2>1, <2>2, NumberTypes DEF SyncsKept
<1>4. ASSUME XpuMarker
      PROVE  Same
  <2>1. api_list' = api_list /\ MarkerDone("XPU", Head(api_fifo))
    BY <1>4 DEF XpuMarker
  <2> QED
    BY <1>0, <2>1, NumberTypes DEF SyncsKept, MarkerDone
<1>5. ASSUME \/ UNCHANGED vars \/ XpuEnd \/ CpuEnd \/ XpuApi
             \/ \E c \in Channels : Execute(c) \/ IrqStart(c)
      PROVE  Same
  <2>1. UNCHANGED <<api_list, syncs>>
    BY <1>5, CpuEndFacts DEF vars, XpuEnd, XpuApi, Execute, IrqStart
  <2> QED
    BY <1>0, <2>1, NumberTypes DEF SyncsKept, syncs
<1> HIDE DEF Same
<1>6. \/ \E t \in Threads : \/ Enqueue(t) \/ DeviceSyncCpu(t) \/ QueryDone(t)
                            \/ \E h \in Handles : QueryApi(t, h)
      \/ CpuMarker \/ CpuApi
      \/ Same
  BY <1>1, <1>2, <1>3, <1>4, <1>5, StepKinds
<1> QED
  BY <1>6 DEF Same

LEMMA NoMarkerStep ==
  ASSUME TypeOK, CallsInv, SendersInv, InterruptsInv, ListInv, NoMarkerLeftBehind,
         [Next]_vars
  PROVE  NoMarkerLeftBehind'
<1> USE NumberTypes
<1>0. /\ api_fifo \in Seq(Entries) /\ Len(api_fifo) \in Nat
      /\ api_fifo # <<>> => Head(api_fifo) = api_fifo[1] /\ Len(api_fifo) > 0
  BY ListTypes
<1>1. ASSUME handler'.on # "XPU", handler.on = "XPU"
      PROVE  NoMarkerLeftBehind'
  <2>1. ASSUME NEW t \in Threads,
               \/ Local(t) \/ QueryDone(t) \/ CloseFree(t) \/ DeviceSyncCpu(t)
               \/ Fail(t) \/ RecordSeq(t) \/ WaitMsgfifo(t) \/ CopyToMsgfifo(t)
               \/ Enqueue(t)
               \/ \E h \in Handles : \/ Open(t, h) \/ QueryApi(t, h) \/ DeviceSync(t, h)
                                     \/ \E c \in Channels : SendApi(t, h, c)
        PROVE  handler' = handler
    BY <2>1 DEF Local, QueryDone, CloseFree, DeviceSyncCpu, Fail, GiveUp, RecordSeq,
                WaitMsgfifo, CopyToMsgfifo, Enqueue, Open, QueryApi, DeviceSync, SendApi,
                noApiStep
  <2>2. ASSUME \/ UNCHANGED vars \/ XpuMarker \/ CpuMarker \/ CpuEnd \/ CpuApi \/ XpuApi
               \/ \E c \in Channels : Execute(c) \/ IrqStart(c)
        PROVE  handler'.on = "XPU"
    BY <1>1, <2>2 DEF vars, XpuMarker, CpuMarker, CpuEnd, CpuApi, CpuScan, XpuApi, Execute,
                      IrqStart, TypeOK
  <2>3. XpuEnd
    BY <1>1, <2>1, <2>2, StepKinds
  <2> QED
    BY <2>3 DEF XpuEnd, NoMarkerLeftBehind
<1>2. ASSUME handler'.on # "XPU", handler.on # "XPU"
      PROVE  NoMarkerLeftBehind'
  <2>1. ASSUME NEW e \in Entries, api_fifo' = Append(api_fifo, e),
               api_fifo = <<>> => ~IsMarker(e)
        PROVE  NoMarkerLeftBehind'
    <3>1. /\ api_fifo' \in Seq(Entries) /\ Len(api_fifo') = Len(api_fifo) + 1
          /\ \A i \in 1 .. Len(api_fifo) : api_fifo'[i] = api_fifo[i]
          /\ api_fifo'[Len(api_fifo) + 1] = e
      BY <1>0, <2>1, AppendFacts
    <3>2. Head(api_fifo') = api_fifo'[1]
      BY <3>1
    <3>3. CASE api_fifo = <<>>
      BY <2>1, <3>1, <3>2, <3>3 DEF NoMarkerLeftBehind
    <3>4. CASE api_fifo # <<>>
      <4>1. 1 \in 1 .. Len(api_fifo) /\ ~IsMarker(api_fifo[1])
        BY <1>0, <1>2, <3>4 DEF NoMarkerLeftBehind
      <4> QED
        BY <3>1, <3>2, <4>1 DEF NoMarkerLeftBehind
    <3> QED
      BY <3>3, <3>4
  <2>2. CASE api_fifo' = api_fifo
    BY <1>2, <2>2 DEF NoMarkerLeftBehind
  <2>3. ASSUME NEW t \in Threads, Enqueue(t)
        PROVE  NoMarkerLeftBehind'
    BY <2>1, <2>2, <2>3, EnqueueFacts
  <2>4. ASSUME NEW t \in Threads, NEW h \in Handles, DeviceSync(t, h)
        PROVE  NoMarkerLeftBehind'
    BY <2>1, <2>2, <2>4, DeviceSyncFacts
  <2>5. CASE XpuMarker \/ XpuApi
    BY <1>2, <2>5 DEF XpuMarker, XpuApi
  <2> QED
    BY <2>2, <2>3, <2>4, <2>5, FifoMarkerSteps
<1> QED
  BY <1>1, <1>2 DEF NoMarkerLeftBehind

LEMMA FifoMarkersStep ==
  ASSUME TypeOK, CallsInv, SendersInv, InterruptsInv, ListInv, MarkersInv, [Next]_vars
  PROVE  MarkersIn(api_fifo', device_sync_cpl'["XPU"], device_sync_last'["XPU"],
                   dev_sync_done'["XPU"])
<1> USE NumberTypes
<1>0. /\ api_fifo \in Seq(Entries) /\ device_sync_cpl["XPU"] \in Nat
      /\ device_sync_last["XPU"] \in Nat /\ dev_sync_done["XPU"] \in Nat
      /\ MarkersIn(api_fifo, device_sync_cpl["XPU"], device_sync_last["XPU"],
                   dev_sync_done["XPU"])
  BY ListTypes, SyncNumbers DEF MarkersInv, MarkersOf
<1>1. CASE api_fifo' = api_fifo /\ SyncsKept("XPU")
  <2>1. dev_sync_done'["XPU"] <= device_sync_cpl["XPU"]
    <3>1. dev_sync_done'["XPU"] <= dev_sync_done["XPU"]
          /\ dev_sync_done["XPU"] <= device_sync_cpl["XPU"]
      BY <1>0, <1>1 DEF SyncsKept, MarkersIn
    <3>2. dev_sync_done'["XPU"] \in Int
      <4>1. TypeOK'
        BY TypesStep
      <4>2. dev_sync_done' \in [Channels -> MarkerNos]
        BY <4>1 DEF TypeOK
      <4>3. dev_sync_done'["XPU"] \in MarkerNos
        BY <4>2
      <4> QED
        BY <4>3, ApiAssumption DEF MarkerNos
    <3> QED
      BY <1>0, <3>1, <3>2
  <2> QED
    BY <1>0, <1>1, <2>1 DEF SyncsKept, MarkersIn
<1>2. ASSUME NEW t \in Threads, Enqueue(t)
      PROVE  MarkersIn(api_fifo', device_sync_cpl'["XPU"], device_sync_last'["XPU"],
                       dev_sync_done'["XPU"])
  <2>1. UNCHANGED syncs
    BY <1>2 DEF Enqueue
  <2>2. CASE api_fifo' = api_fifo
    BY <1>0, <2>1, <2>2 DEF syncs
  <2>3. ASSUME NEW e \in Entries, ~IsMarker(e), api_fifo' = Append(api_fifo, e)
        PROVE  MarkersIn(api_fifo', device_sync_cpl'["XPU"], device_sync_last'["XPU"],
                         dev_sync_done'["XPU"])
    BY <1>0, <2>1, <2>3, AppendedMarkers DEF syncs
  <2> QED
    BY <1>2, <2>2, <2>3, EnqueueFacts
<1>3. ASSUME NEW t \in Threads, NEW h \in Handles, DeviceSync(t, h)
      PROVE  MarkersIn(api_fifo', device_sync_cpl'["XPU"], device_sync_last'["XPU"],
                       dev_sync_done'["XPU"])
  <2>1. UNCHANGED <<device_sync_cpl, dev_sync_done>>
    BY <1>3 DEF DeviceSync
  <2>2. CASE UNCHANGED <<api_fifo, device_sync_last>>
    BY <1>0, <2>1, <2>2
  <2>3. ASSUME NEW k \in MarkerNos, NEW e \in Entries, k = device_sync_last["XPU"] + 1,
               IsMarker(e), e.seq = k, api_fifo' = Append(api_fifo, e),
               device_sync_last' = [device_sync_last EXCEPT !["XPU"] = k]
        PROVE  MarkersIn(api_fifo', device_sync_cpl'["XPU"], device_sync_last'["XPU"],
                         dev_sync_done'["XPU"])
    <3>1. device_sync_last'["XPU"] = k /\ k \in Nat
      BY <2>3 DEF TypeOK
    <3> QED
      BY <1>0, <2>1, <2>3, <3>1, AppendedMarkers
  <2> QED
    BY <1>3, <2>2, <2>3, DeviceSyncFacts
<1>4. CASE XpuMarker
  <2>1. /\ api_fifo # <<>> /\ IsMarker(Head(api_fifo)) /\ MarkerDone("XPU", Head(api_fifo))
        /\ api_fifo' = Tail(api_fifo)
    BY <1>4 DEF XpuMarker
  <2>2. /\ device_sync_last' = device_sync_last /\ IsMarker(api_fifo[1])
        /\ device_sync_cpl'["XPU"] = api_fifo[1].seq
        /\ dev_sync_done'["XPU"] = dev_sync_done["XPU"] + 1
    BY <1>0, <2>1, MarkerTaken DEF MarkersInv
  <2> QED
    BY <1>0, <2>1, <2>2, TakenMarkers
<1>5. CASE XpuApi
  <2>1. api_fifo # <<>> /\ api_fifo' = Tail(api_fifo) /\ UNCHANGED syncs
    BY <1>5 DEF XpuApi
  <2>2. PICK f : Picks(Tail(api_fifo), api_fifo, f)
    BY <1>0, <2>1, TailPicks
  <2>3. dev_sync_done["XPU"] <= device_sync_cpl["XPU"]
    BY <1>0 DEF MarkersIn
  <2> QED
    BY <1>0, <2>1, <2>2, <2>3, PickedMarkers DEF syncs
<1> QED
  BY <1>1, <1>2, <1>3, <1>4, <1>5, FifoMarkerSteps

LEMMA FlaggedFacts ==
  ASSUME TypeOK, NEW t \in Threads,
         QueryDone(t) \/ \E h \in Handles : QueryApi(t, h)
  PROVE  \E i \in 1 .. Len(api_list), f \in Flags :
           /\ api_list' = Flagged(api_list, i, f)
           /\ \E g : Picks(api_list', api_list, g)
<1>1. PICK i \in 1 .. Len(api_list), f \in Flags : api_list' = Flagged(api_list, i, f)
  <2>1. PICK i \in 1 .. Len(api_list) :
          \/ api_list' = Flagged(api_list, i, "FINISH")
          \/ api_list' = Flagged(api_list, i, "WAIT")
    BY QueryFacts
  <2>2. "FINISH" \in Flags /\ "WAIT" \in Flags
    BY DEF Flags
  <2> QED
    BY <2>1, <2>2
<1>2. \E g : Picks(api_list', api_list, g)
  BY <1>1, ListTypes, FlagPicks
<1> QED
  BY <1>1, <1>2

LEMMA ListMarkersStep ==
  ASSUME TypeOK, CallsInv, SendersInv, InterruptsInv, ListInv, MarkersInv, [Next]_vars
  PROVE  MarkersIn(api_list', device_sync_cpl'["CPU"], device_sync_last'["CPU"],
                   dev_sync_done'["CPU"])
<1> USE NumberTypes
<1>0. /\ api_list \in Seq(Entries) /\ device_sync_cpl["CPU"] \in Nat
      /\ device_sync_last["CPU"] \in Nat /\ dev_sync_done["CPU"] \in Nat
      /\ MarkersIn(api_list, device_sync_cpl["CPU"], device_sync_last["CPU"],
                   dev_sync_done["CPU"])
  BY ListTypes, SyncNumbers DEF MarkersInv, MarkersOf
<1>d. dev_sync_done["CPU"] <= device_sync_cpl["CPU"]
  BY <1>0 DEF MarkersIn
<1>1. CASE api_list' = api_list /\ SyncsKept("CPU")
  <2>1. dev_sync_done'["CPU"] <= device_sync_cpl["CPU"]
    <3>1. dev_sync_done'["CPU"] <= dev_sync_done["CPU"]
      BY <1>0, <1>1 DEF SyncsKept
    <3>2. dev_sync_done'["CPU"] \in Int
      <4>1. TypeOK'
        BY TypesStep
      <4>2. dev_sync_done' \in [Channels -> MarkerNos]
        BY <4>1 DEF TypeOK
      <4>3. dev_sync_done'["CPU"] \in MarkerNos
        BY <4>2
      <4> QED
        BY <4>3, ApiAssumption DEF MarkerNos
    <3> QED
      BY <1>0, <1>d, <3>1, <3>2
  <2> QED
    BY <1>0, <1>1, <2>1 DEF SyncsKept, MarkersIn
<1>2. ASSUME NEW t \in Threads, Enqueue(t)
      PROVE  MarkersIn(api_list', device_sync_cpl'["CPU"], device_sync_last'["CPU"],
                       dev_sync_done'["CPU"])
  <2>1. UNCHANGED syncs
    BY <1>2 DEF Enqueue
  <2>2. CASE api_list' = api_list
    BY <1>0, <2>1, <2>2 DEF syncs
  <2>3. ASSUME NEW e \in Entries, ~IsMarker(e), api_list' = Append(api_list, e)
        PROVE  MarkersIn(api_list', device_sync_cpl'["CPU"], device_sync_last'["CPU"],
                         dev_sync_done'["CPU"])
    BY <1>0, <2>1, <2>3, AppendedMarkers DEF syncs
  <2> QED
    BY <1>2, <2>2, <2>3, EnqueueFacts
<1>3. ASSUME NEW t \in Threads, DeviceSyncCpu(t)
      PROVE  MarkersIn(api_list', device_sync_cpl'["CPU"], device_sync_last'["CPU"],
                       dev_sync_done'["CPU"])
  <2>1. UNCHANGED <<device_sync_cpl, dev_sync_done>>
    BY <1>3 DEF DeviceSyncCpu
  <2>2. CASE UNCHANGED <<api_list, device_sync_last>>
    BY <1>0, <2>1, <2>2
  <2>3. ASSUME NEW k \in MarkerNos, NEW e \in Entries, k = device_sync_last["CPU"] + 1,
               IsMarker(e), e.seq = k, api_list' = Append(api_list, e),
               device_sync_last' = [device_sync_last EXCEPT !["CPU"] = k]
        PROVE  MarkersIn(api_list', device_sync_cpl'["CPU"], device_sync_last'["CPU"],
                         dev_sync_done'["CPU"])
    <3>1. device_sync_last'["CPU"] = k /\ k \in Nat
      BY <2>3 DEF TypeOK
    <3> QED
      BY <1>0, <2>1, <2>3, <3>1, AppendedMarkers
  <2> QED
    BY <1>3, <2>2, <2>3, DeviceSyncCpuFacts
<1>4. ASSUME NEW t \in Threads, QueryDone(t) \/ \E h \in Handles : QueryApi(t, h)
      PROVE  MarkersIn(api_list', device_sync_cpl'["CPU"], device_sync_last'["CPU"],
                       dev_sync_done'["CPU"])
  <2>1. UNCHANGED syncs
    BY <1>4 DEF QueryDone, QueryApi
  <2>2. PICK g : Picks(api_list', api_list, g)
    BY <1>4, FlaggedFacts
  <2> QED
    BY <1>0, <1>d, <2>1, <2>2, PickedMarkers DEF syncs
<1>5. CASE CpuMarker
  <2>1. /\ api_list # <<>> /\ IsMarker(Head(api_list)) /\ MarkerDone("CPU", Head(api_list))
        /\ api_list' = Tail(api_list)
    BY <1>5 DEF CpuMarker
  <2>2. /\ device_sync_last' = device_sync_last /\ IsMarker(api_list[1])
        /\ device_sync_cpl'["CPU"] = api_list[1].seq
        /\ dev_sync_done'["CPU"] = dev_sync_done["CPU"] + 1
    BY <1>0, <2>1, MarkerTaken DEF MarkersInv
  <2> QED
    BY <1>0, <2>1, <2>2, TakenMarkers
<1>6. CASE CpuApi
  <2>1. UNCHANGED syncs
    BY <1>6 DEF CpuApi
  <2>2. PICK f : Picks(api_list', api_list, f)
    BY <1>6, CpuApiFacts DEF CpuHit, HitMap
  <2> QED
    BY <1>0, <1>d, <2>1, <2>2, PickedMarkers DEF syncs
<1> QED
  BY <1>1, <1>2, <1>3, <1>4, <1>5, <1>6, ListMarkerSteps

LEMMA MarkersStep ==
  ASSUME TypeOK, CallsInv, SendersInv, InterruptsInv, ListInv, MarkersInv, [Next]_vars
  PROVE  MarkersInv'
BY FifoMarkersStep, ListMarkersStep DEF MarkersInv, MarkersOf
(* How a call comes to its waits.                                            *)
LEMMA WaiterSteps ==
  ASSUME TypeOK, CallsInv, [Next]_vars, NEW t \in Threads
  PROVE  /\ pc'[t] = "device_sync_cpu" =>
              \/ pc[t] = "device_sync_cpu" /\ loc'[t] = loc[t]
              \/ \E h \in Handles : DeviceSync(t, h)
         /\ pc'[t] \in Syncing =>
              \/ /\ pc[t] \in Syncing /\ loc'[t].seq = loc[t].seq
                 /\ loc'[t].owed = loc[t].owed
              \/ DeviceSyncCpu(t)
         /\ pc'[t] = "query" =>
              \/ pc[t] = "query" /\ loc'[t] = loc[t]
              \/ \E h \in Handles : QueryApi(t, h)
<1> DEFINE Same(u) == pc'[u] = pc[u] /\ loc'[u] = loc[u]
           Goal == /\ pc'[t] = "device_sync_cpu" =>
                        \/ pc[t] = "device_sync_cpu" /\ loc'[t] = loc[t]
                        \/ \E h \in Handles : DeviceSync(t, h)
                   /\ pc'[t] \in Syncing =>
                        \/ /\ pc[t] \in Syncing /\ loc'[t].seq = loc[t].seq
                           /\ loc'[t].owed = loc[t].owed
                        \/ DeviceSyncCpu(t)
                   /\ pc'[t] = "query" =>
                        \/ pc[t] = "query" /\ loc'[t] = loc[t]
                        \/ \E h \in Handles : QueryApi(t, h)
<1>s. ASSUME Same(t)
      PROVE  Goal
  BY <1>s
<1>e. ASSUME pc'[t] \notin Syncing \cup {"device_sync_cpu", "query"}
      PROVE  Goal
  BY <1>e DEF Syncing
<1> HIDE DEF Goal
<1>1. ASSUME NEW u \in Threads, NEW h \in Handles,
             \/ Open(u, h) \/ QueryApi(u, h) \/ DeviceSync(u, h)
             \/ \E c \in Channels : SendApi(u, h, c)
      PROVE  Goal
  <2>1. CASE Open(u, h)
    BY <1>s, <2>1 DEF Open
  <2>2. CASE QueryApi(u, h)
    <3>1. CASE u = t
      <4>1. pc'[t] = "query"
        BY <2>2, <3>1 DEF QueryApi, Goto, TypeOK
      <4> QED
        BY <2>2, <3>1, <4>1 DEF Goal, Syncing
    <3> QED
      BY <1>s, <2>2, <3>1, QueryFacts
  <2>3. CASE DeviceSync(u, h)
    <3>1. CASE u = t
      <4>1. pc'[t] \in {"ret_device", "device_sync_cpu"}
        BY <2>3, <3>1, DeviceSyncFacts
      <4> QED
        BY <2>3, <3>1, <4>1 DEF Goal, Syncing
    <3> QED
      BY <1>s, <2>3, <3>1, DeviceSyncFacts
  <2>4. ASSUME NEW c \in Channels, SendApi(u, h, c)
        PROVE  Goal
    <3>1. pc' = [pc EXCEPT ![u] = "record"] /\ \A v \in Threads \ {u} : loc'[v] = loc[v]
      BY <2>4 DEF SendApi, Goto, Locals, TypeOK
    <3>2. CASE u = t
      <4>1. pc'[t] = "record"
        BY <3>1, <3>2 DEF TypeOK
      <4> QED
        BY <1>e, <4>1 DEF Syncing
    <3> QED
      BY <1>s, <3>1, <3>2 DEF TypeOK
  <2> QED
    BY <1>1, <2>1, <2>2, <2>3, <2>4
<1>2. ASSUME NEW u \in Threads, Local(u)
      PROVE  Goal
  BY <1>2, <1>s DEF Local, Goal
<1>3. ASSUME NEW u \in Threads, CloseFree(u) \/ Fail(u) \/ CopyToMsgfifo(u)
      PROVE  Goal
  <2>1. Return(u)
    BY <1>3 DEF CloseFree, Fail, GiveUp, CopyToMsgfifo
  <2>2. CASE u = t
    <3>1. pc'[t] = "idle"
      BY <2>1, <2>2, ReturnFacts
    <3> QED
      BY <1>e, <3>1 DEF Syncing
  <2> QED
    BY <1>s, <2>1, <2>2, ReturnFacts
<1>4. ASSUME NEW u \in Threads, RecordSeq(u) \/ WaitMsgfifo(u) \/ Enqueue(u)
      PROVE  Goal
  <2>1. PICK p \in {"wait", "enqueue", "copy"} : Goto(u, p) /\ loc' = loc
    BY <1>4 DEF RecordSeq, WaitMsgfifo, Enqueue
  <2>2. p \in SystemCalls
    BY DEF SystemCalls
  <2>3. CASE u = t
    <3>1. pc'[t] = p
      BY <2>1, <2>2, <2>3, GotoFacts
    <3> QED
      BY <1>e, <3>1 DEF Syncing
  <2> QED
    BY <1>s, <2>1, <2>2, <2>3, GotoFacts
<1>5. ASSUME NEW u \in Threads, QueryDone(u)
      PROVE  Goal
  <2>1. CASE u = t
    <3>1. pc'[t] = "idle"
      BY <1>5, <2>1, ReturnFacts DEF QueryDone
    <3> QED
      BY <1>e, <3>1 DEF Syncing
  <2> QED
    BY <1>5, <1>s, <2>1, QueryFacts
<1>6. ASSUME NEW u \in Threads, DeviceSyncCpu(u)
      PROVE  Goal
  <2>1. CASE u = t
    <3>1. pc'[t] \in {"ret_device", "device_sync"}
      BY <1>6, <2>1, DeviceSyncCpuFacts
    <3> QED
      BY <1>6, <2>1, <3>1 DEF Goal
  <2> QED
    BY <1>6, <1>s, <2>1, DeviceSyncCpuFacts
<1>7. ASSUME NEW c \in Channels, Execute(c) \/ IrqStart(c)
      PROVE  Goal
  BY <1>7, <1>s DEF Execute, IrqStart
<1>8. ASSUME XpuMarker \/ XpuApi \/ XpuEnd \/ CpuMarker \/ CpuApi \/ CpuEnd
      PROVE  Goal
  BY <1>8, <1>s DEF XpuMarker, XpuApi, XpuEnd, CpuMarker, CpuApi, CpuEnd
<1>9. ASSUME UNCHANGED vars
      PROVE  Goal
  BY <1>9, <1>s DEF vars
<1>10. Goal
  BY <1>1, <1>2, <1>3, <1>4, <1>5, <1>6, <1>7, <1>8, <1>9, StepKinds
<1> QED
  BY <1>10 DEF Goal

(* What is sent from now on is younger than what a sync is owed.             *)
LEMMA OwedStaysOld ==
  ASSUME TypeOK, CallsInv, SendersInv, [Next]_vars,
         NEW t \in Threads, NEW c \in Channels,
         OwedOld(t, c), loc'[t].owed = loc[t].owed
  PROVE  OwedOld(t, c)'
<1> USE NumberTypes
<1>0. loc[t].owed \subseteq Nat /\ bm_send_api_seq \in Nat
  BY DEF TypeOK
<1>1. ASSUME NEW u \in Threads, NEW h \in Handles, NEW d \in Channels, SendApi(u, h, d)
      PROVE  OwedOld(t, c)'
  <2>1. /\ bm_send_api_seq' = bm_send_api_seq + 1 /\ loc'[u].seq = bm_send_api_seq + 1
        /\ \A v \in Threads \ {u} : pc'[v] = pc[v] /\ loc'[v] = loc[v]
    BY <1>1, SendApiFacts
  <2>2. \A x \in loc[t].owed : x <= bm_send_api_seq'
    BY <1>0, <2>1 DEF OwedOld
  <2>3. ASSUME NEW v \in Threads, SendsOn(v, c)', NEW x \in loc[t].owed
        PROVE  x < loc'[v].seq
    <3>1. CASE v = u
      BY <1>0, <2>1, <3>1 DEF OwedOld
    <3>2. CASE v # u
      BY <2>1, <2>3, <3>2 DEF OwedOld, SendsOn
    <3> QED
      BY <3>1, <3>2
  <2> QED
    BY <2>2, <2>3 DEF OwedOld
<1>2. CASE /\ bm_send_api_seq' = bm_send_api_seq
           /\ \A u \in Threads : pc'[u] \in Sending =>
                pc[u] \in Sending /\ loc'[u] = loc[u]
  BY <1>2 DEF OwedOld, SendsOn
<1> QED
  BY <1>1, <1>2, SenderSteps

(* A marker in api_fifo stays behind what its sync is owed.                  *)
LEMMA FifoOwedStep ==
  ASSUME TypeOK, CallsInv, SendersInv, InterruptsInv, ListInv, MarkersInv, [Next]_vars,
         NEW t \in Threads, OwedOld(t, "XPU"), OwedFirst(t, api_fifo, "XPU")
  PROVE  OwedIn(api_fifo', device_sync_cpl'["XPU"], loc[t].seq, loc[t].owed)
<1> USE NumberTypes
<1>0. /\ api_fifo \in Seq(Entries) /\ device_sync_cpl["XPU"] \in Nat /\ loc[t].seq \in Nat
      /\ MarkersIn(api_fifo, device_sync_cpl["XPU"], device_sync_last["XPU"],
                   dev_sync_done["XPU"])
      /\ OwedIn(api_fifo, device_sync_cpl["XPU"], loc[t].seq, loc[t].owed)
  BY ListTypes, SyncNumbers DEF MarkersInv, MarkersOf, OwedFirst, TypeOK
<1> DEFINE Goal == OwedIn(api_fifo', device_sync_cpl'["XPU"], loc[t].seq, loc[t].owed)
<1> HIDE DEF Goal
<1>1. ASSUME api_fifo' = api_fifo, device_sync_cpl'["XPU"] = device_sync_cpl["XPU"]
      PROVE  Goal
  BY <1>0, <1>1 DEF Goal
<1>2. ASSUME NEW e \in Entries, api_fifo' = Append(api_fifo, e),
             device_sync_cpl'["XPU"] = device_sync_cpl["XPU"],
             IsMarker(e) \/ e.seq \notin loc[t].owed
      PROVE  Goal
  BY <1>0, <1>2, AppendedOwed DEF Goal
<1>3. ASSUME NEW u \in Threads, Enqueue(u)
      PROVE  Goal
  <2>1. UNCHANGED syncs
    BY <1>3 DEF Enqueue
  <2>2. ASSUME loc[u].c = "XPU", NEW e \in Entries, e.seq = loc[u].seq,
               api_fifo' = Append(api_fifo, e)
        PROVE  Goal
    <3>1. SendsOn(u, "XPU")
      BY <1>3, <2>2 DEF Enqueue, SendsOn, Sending
    <3>2. \A x \in loc[t].owed : x < loc[u].seq /\ x \in Nat
      BY <3>1 DEF OwedOld, TypeOK
    <3>3. e.seq \notin loc[t].owed
      BY <2>2, <3>2
    <3> QED
      BY <1>2, <2>1, <2>2, <3>3 DEF syncs
  <2>3. CASE api_fifo' = api_fifo
    BY <1>1, <2>1, <2>3 DEF syncs
  <2> QED
    BY <1>3, <2>2, <2>3, EnqueueFacts
<1>4. ASSUME NEW u \in Threads, NEW h \in Handles, DeviceSync(u, h)
      PROVE  Goal
  <2>1. UNCHANGED device_sync_cpl
    BY <1>4 DEF DeviceSync
  <2> QED
    BY <1>1, <1>2, <1>4, <2>1, DeviceSyncFacts
<1>5. ASSUME XpuMarker
      PROVE  Goal
  <2>1. /\ api_fifo # <<>> /\ IsMarker(Head(api_fifo)) /\ MarkerDone("XPU", Head(api_fifo))
        /\ api_fifo' = Tail(api_fifo)
    BY <1>5 DEF XpuMarker
  <2>2. IsMarker(api_fifo[1]) /\ device_sync_cpl'["XPU"] = api_fifo[1].seq
    BY <1>0, <2>1, MarkerTaken DEF MarkersInv
  <2> QED
    BY <1>0, <2>1, <2>2, TakenOwed DEF Goal
<1>6. ASSUME XpuApi
      PROVE  Goal
  <2>1. api_fifo # <<>> /\ api_fifo' = Tail(api_fifo) /\ UNCHANGED syncs
    BY <1>6 DEF XpuApi
  <2>2. PICK f : Picks(Tail(api_fifo), api_fifo, f)
    BY <1>0, <2>1, TailPicks
  <2> QED
    BY <1>0, <2>1, <2>2, PickedOwed DEF Goal, syncs
<1>7. ASSUME api_fifo' = api_fifo, SyncsKept("XPU")
      PROVE  Goal
  BY <1>1, <1>7 DEF SyncsKept
<1>8. Goal
  BY <1>3, <1>4, <1>5, <1>6, <1>7, FifoMarkerSteps
<1> QED
  BY <1>8 DEF Goal

(* The same for api_list.                                                    *)
LEMMA ListOwedStep ==
  ASSUME TypeOK, CallsInv, SendersInv, InterruptsInv, ListInv, MarkersInv, [Next]_vars,
         NEW t \in Threads, OwedOld(t, "CPU"), OwedFirst(t, api_list, "CPU")
  PROVE  OwedIn(api_list', device_sync_cpl'["CPU"], loc[t].seq, loc[t].owed)
<1> USE NumberTypes
<1>0. /\ api_list \in Seq(Entries) /\ device_sync_cpl["CPU"] \in Nat /\ loc[t].seq \in Nat
      /\ MarkersIn(api_list, device_sync_cpl["CPU"], device_sync_last["CPU"],
                   dev_sync_done["CPU"])
      /\ OwedIn(api_list, device_sync_cpl["CPU"], loc[t].seq, loc[t].owed)
  BY ListTypes, SyncNumbers DEF MarkersInv, MarkersOf, OwedFirst, TypeOK
<1> DEFINE Goal == OwedIn(api_list', device_sync_cpl'["CPU"], loc[t].seq, loc[t].owed)
<1> HIDE DEF Goal
<1>1. ASSUME api_list' = api_list, device_sync_cpl'["CPU"] = device_sync_cpl["CPU"]
      PROVE  Goal
  BY <1>0, <1>1 DEF Goal
<1>2. ASSUME NEW e \in Entries, api_list' = Append(api_list, e),
             device_sync_cpl'["CPU"] = device_sync_cpl["CPU"],
             IsMarker(e) \/ e.seq \notin loc[t].owed
      PROVE  Goal
  BY <1>0, <1>2, AppendedOwed DEF Goal
<1>3. ASSUME NEW u \in Threads, Enqueue(u)
      PROVE  Goal
  <2>1. UNCHANGED syncs
    BY <1>3 DEF Enqueue
  <2>2. ASSUME loc[u].c = "CPU", NEW e \in Entries, e.seq = loc[u].seq,
               api_list' = Append(api_list, e)
        PROVE  Goal
    <3>1. SendsOn(u, "CPU")
      BY <1>3, <2>2 DEF Enqueue, SendsOn, Sending
    <3>2. \A x \in loc[t].owed : x < loc[u].seq /\ x \in Nat
      BY <3>1 DEF OwedOld, TypeOK
    <3>3. e.seq \notin loc[t].owed
      BY <2>2, <3>2
    <3> QED
      BY <1>2, <2>1, <2>2, <3>3 DEF syncs
  <2>3. CASE api_list' = api_list
    BY <1>1, <2>1, <2>3 DEF syncs
  <2> QED
    BY <1>3, <2>2, <2>3, EnqueueFacts
<1>4. ASSUME NEW u \in Threads, DeviceSyncCpu(u)
      PROVE  Goal
  <2>1. UNCHANGED device_sync_cpl
    BY <1>4 DEF DeviceSyncCpu
  <2> QED
    BY <1>1, <1>2, <1>4, <2>1, DeviceSyncCpuFacts
<1>5. ASSUME CpuMarker
      PROVE  Goal
  <2>1. /\ api_list # <<>> /\ IsMarker(Head(api_list)) /\ MarkerDone("CPU", Head(api_list))
        /\ api_list' = Tail(api_list)
    BY <1>5 DEF CpuMarker
  <2>2. IsMarker(api_list[1]) /\ device_sync_cpl'["CPU"] = api_list[1].seq
    BY <1>0, <2>1, MarkerTaken DEF MarkersInv
  <2> QED
    BY <1>0, <2>1, <2>2, TakenOwed DEF Goal
<1>6. ASSUME CpuApi
      PROVE  Goal
  <2>1. UNCHANGED syncs
    BY <1>6 DEF CpuApi
  <2>2. PICK f : Picks(api_list', api_list, f)
    BY <1>6, CpuApiFacts DEF CpuHit, HitMap
  <2> QED
    BY <1>0, <2>1, <2>2, PickedOwed DEF Goal, syncs
<1>7. ASSUME NEW u \in Threads, QueryDone(u) \/ \E h \in Handles : QueryApi(u, h)
      PROVE  Goal
  <2>1. UNCHANGED syncs
    BY <1>7 DEF QueryDone, QueryApi
  <2>2. PICK g : Picks(api_list', api_list, g)
    BY <1>7, FlaggedFacts
  <2> QED
    BY <1>0, <2>1, <2>2, PickedOwed DEF Goal, syncs
<1>8. ASSUME api_list' = api_list, SyncsKept("CPU")
      PROVE  Goal
  BY <1>1, <1>8 DEF SyncsKept
<1>9. Goal
  BY <1>3, <1>4, <1>5, <1>6, <1>7, <1>8, ListMarkerSteps
<1> QED
  BY <1>9 DEF Goal

(* What a device sync finds on the card was sent before.                     *)
LEMMA OutstandingOld ==
  ASSUME TypeOK, NumbersInv, NEW x \in SeqsOf(Outstanding)
  PROVE  x <= bm_send_api_seq
<1>1. PICK c \in Channels : \E i \in DOMAIN ring[c] :
           i > executed[c] /\ ring[c][i].seq = x
  BY OutstandingSeqs
<1> QED
  BY <1>1 DEF NumbersInv

LEMMA DeviceSyncStep ==
  ASSUME TypeOK, CallsInv, SendersInv, NumbersInv, InterruptsInv, ListInv, MarkersInv,
         DeviceSyncInv, [Next]_vars
  PROVE  DeviceSyncInv'
<1> USE NumberTypes
<1>1. SUFFICES ASSUME NEW t \in Threads
               PROVE  /\ pc'[t] = "device_sync_cpu" =>
                           OwedOld(t, "XPU")' /\ OwedFirst(t, api_fifo, "XPU")'
                      /\ pc'[t] \in Syncing =>
                           OwedOld(t, "CPU")' /\ OwedFirst(t, api_list, "CPU")'
  BY DEF DeviceSyncInv, Syncing
<1>2. ASSUME pc[t] = "device_sync_cpu", loc'[t] = loc[t]
      PROVE  OwedOld(t, "XPU")' /\ OwedFirst(t, api_fifo, "XPU")'
  <2>1. OwedOld(t, "XPU") /\ OwedFirst(t, api_fifo, "XPU")
    BY <1>2 DEF DeviceSyncInv
  <2>2. OwedOld(t, "XPU")'
    BY <1>2, <2>1, OwedStaysOld
  <2> QED
    BY <1>2, <2>1, <2>2, FifoOwedStep DEF OwedFirst
<1>3. ASSUME NEW h \in Handles, DeviceSync(t, h), pc'[t] = "device_sync_cpu"
      PROVE  OwedOld(t, "XPU")' /\ OwedFirst(t, api_fifo, "XPU")'
  <2>1. /\ pc[t] = "idle" /\ loc'[t].owed = SeqsOf(Outstanding)
        /\ \A u \in Threads \ {t} : pc'[u] = pc[u] /\ loc'[u] = loc[u]
        /\ bm_send_api_seq' = bm_send_api_seq /\ device_sync_cpl' = device_sync_cpl
    BY <1>3, DeviceSyncFacts DEF noApiStep
  <2>2. \A u \in Threads : ~SendsOn(u, "XPU")'
    <3>1. api_mutex["XPU"] \notin Threads
      BY <1>3, ApiAssumption DEF DeviceSync
    <3>2. \A u \in Threads : ~SendsOn(u, "XPU")
      BY <3>1 DEF SendersInv, SendsOn
    <3> QED
      BY <1>3, <2>1, <3>2 DEF SendsOn, Sending
  <2>3. OwedOld(t, "XPU")'
    BY <2>1, <2>2, OutstandingOld DEF OwedOld
  <2>4. PICK k \in MarkerNos, e \in Entries :
          /\ k = device_sync_last["XPU"] + 1 /\ loc'[t].seq = k /\ e.seq = k
          /\ api_fifo' = Append(api_fifo, e)
    BY <1>3, DeviceSyncFacts
  <2>5. OwedIn(api_fifo', device_sync_cpl'["XPU"], loc'[t].seq, loc'[t].owed)
    BY <2>1, <2>4, ListTypes, SyncNumbers, NewestOwed DEF MarkersInv, MarkersOf
  <2> QED
    BY <2>3, <2>5 DEF OwedFirst
<1>4. ASSUME pc[t] \in Syncing, loc'[t].seq = loc[t].seq, loc'[t].owed = loc[t].owed
      PROVE  OwedOld(t, "CPU")' /\ OwedFirst(t, api_list, "CPU")'
  <2>1. OwedOld(t, "CPU") /\ OwedFirst(t, api_list, "CPU")
    BY <1>4 DEF DeviceSyncInv, Syncing
  <2>2. OwedOld(t, "CPU")'
    BY <1>4, <2>1, OwedStaysOld
  <2> QED
    BY <1>4, <2>1, <2>2, ListOwedStep DEF OwedFirst
<1>5. ASSUME DeviceSyncCpu(t), pc'[t] \in Syncing
      PROVE  OwedOld(t, "CPU")' /\ OwedFirst(t, api_list, "CPU")'
  <2>1. /\ pc[t] = "device_sync_cpu" /\ loc'[t].owed = loc[t].owed
        /\ \A u \in Threads \ {t} : pc'[u] = pc[u] /\ loc'[u] = loc[u]
        /\ bm_send_api_seq' = bm_send_api_seq /\ device_sync_cpl' = device_sync_cpl
        /\ api_mutex["CPU"] = NoThread
    BY <1>5, DeviceSyncCpuFacts DEF noApiStep
  <2>2. \A u \in Threads : ~SendsOn(u, "CPU")'
    <3>1. api_mutex["CPU"] \notin Threads
      BY <2>1, ApiAssumption
    <3>2. \A u \in Threads : ~SendsOn(u, "CPU")
      BY <3>1 DEF SendersInv, SendsOn
    <3> QED
      BY <1>5, <2>1, <3>2 DEF SendsOn, Sending, Syncing
  <2>3. OwedOld(t, "CPU")'
    BY <2>1, <2>2 DEF DeviceSyncInv, OwedOld
  <2>4. PICK k \in MarkerNos, e \in Entries :
          /\ k = device_sync_last["CPU"] + 1 /\ loc'[t].seq = k /\ e.seq = k
          /\ api_list' = Append(api_list, e)
    BY <1>5, DeviceSyncCpuFacts DEF Syncing
  <2>5. OwedIn(api_list', device_sync_cpl'["CPU"], loc'[t].seq, loc'[t].owed)
    BY <2>1, <2>4, ListTypes, SyncNumbers, NewestOwed DEF MarkersInv, MarkersOf
  <2> QED
    BY <2>3, <2>5 DEF OwedFirst
<1> QED
  BY <1>2, <1>3, <1>4, <1>5, WaiterSteps

(* What becomes of the entries of api_list.                                  *)
LEMMA ListEntries ==
  ASSUME TypeOK, CallsInv, SendersInv, InterruptsInv, ListInv, [Next]_vars,
         NEW i \in DOMAIN api_list', ~IsMarker(api_list'[i])
  PROVE  \/ \E j \in DOMAIN api_list :
              /\ SameEntry(api_list'[i], api_list[j])
              /\ api_list[j].flag \subseteq api_list'[i].flag
              /\ "FINISH" \in api_list'[i].flag =>
                   "FINISH" \in api_list[j].flag \/ "DONE" \in api_list[j].flag
         \/ \E t \in Threads :
              /\ Enqueue(t) /\ loc[t].c = "CPU"
              /\ api_list'[i].seq = loc[t].seq /\ api_list'[i].flag = {}
<1> USE NumberTypes
<1> DEFINE Comes(d, e) == /\ SameEntry(d, e) /\ e.flag \subseteq d.flag
                          /\ "FINISH" \in d.flag =>
                               "FINISH" \in e.flag \/ "DONE" \in e.flag
           Goal == \/ \E j \in DOMAIN api_list : Comes(api_list'[i], api_list[j])
                   \/ \E t \in Threads :
                        /\ Enqueue(t) /\ loc[t].c = "CPU"
                        /\ api_list'[i].seq = loc[t].seq /\ api_list'[i].flag = {}
<1>1. ASSUME NEW j \in DOMAIN api_list, api_list'[i] = api_list[j]
      PROVE  Goal
  <2>1. Comes(api_list'[i], api_list[j])
    BY <1>1 DEF SameEntry
  <2> QED
    BY <2>1
<1>2. ASSUME api_list' = api_list
      PROVE  Goal
  BY <1>1, <1>2
<1>3. ASSUME NEW e \in Entries, api_list' = Append(api_list, e),
             \/ IsMarker(e)
             \/ \E t \in Threads : /\ Enqueue(t) /\ loc[t].c = "CPU"
                                   /\ e.seq = loc[t].seq /\ e.flag = {}
      PROVE  Goal
  <2>1. i \in 1 .. Len(api_list) + 1 /\ Len(api_list) \in Nat
    BY <1>3, ListTypes, AppendFacts
  <2>2. CASE i = Len(api_list) + 1
    BY <1>3, <2>2, ListTypes, AppendFacts
  <2>3. CASE i \in 1 .. Len(api_list)
    BY <1>1, <1>3, <2>3, ListTypes, AppendFacts
  <2> QED
    BY <2>1, <2>2, <2>3
<1> HIDE DEF Goal
<1>4. ASSUME NEW t \in Threads, Enqueue(t)
      PROVE  Goal
  <2>1. loc[t].c \in {"XPU", "CPU"} /\ (loc[t].c = "XPU" => api_list' = api_list)
    BY <1>4, EnqueueFacts
  <2>2. ASSUME loc[t].c = "CPU"
        PROVE  \E e \in Entries : /\ api_list' = Append(api_list, e)
                                  /\ e.seq = loc[t].seq /\ e.flag = {}
    BY <1>4, <2>2, EnqueueFacts
  <2> QED
    BY <1>2, <1>3, <1>4, <2>1, <2>2
<1>5. ASSUME NEW t \in Threads, DeviceSyncCpu(t)
      PROVE  Goal
  BY <1>2, <1>3, <1>5, DeviceSyncCpuFacts
<1>6. ASSUME NEW t \in Threads, QueryDone(t) \/ \E h \in Handles : QueryApi(t, h)
      PROVE  Goal
  <2>1. PICK k \in 1 .. Len(api_list), f \in {"WAIT", "FINISH"} :
          /\ api_list' = Flagged(api_list, k, f)
          /\ f = "FINISH" => "DONE" \in api_list[k].flag
    BY <1>6, QueryFacts
  <2>2. f \in Flags
    BY DEF Flags
  <2>3. /\ Len(api_list') = Len(api_list) /\ api_list' \in Seq(Entries)
        /\ SameEntry(api_list'[k], api_list[k])
        /\ api_list'[k].flag = api_list[k].flag \cup {f}
        /\ \A j \in 1 .. Len(api_list) : j # k => api_list'[j] = api_list[j]
    BY <2>1, <2>2, ListTypes, FlagPicks
  <2>4. i \in 1 .. Len(api_list) /\ i \in DOMAIN api_list
    BY <2>3, ListTypes, LenProperties
  <2>5. CASE i = k
    <3>1. Comes(api_list'[i], api_list[i])
      BY <2>1, <2>3, <2>5
    <3> QED
      BY <2>4, <3>1 DEF Goal
  <2> QED
    BY <1>1, <2>3, <2>4, <2>5
<1>7. ASSUME CpuMarker
      PROVE  Goal
  <2>1. api_list # <<>> /\ api_list' = Tail(api_list)
    BY <1>7 DEF CpuMarker
  <2>2. /\ Len(api_list') = Len(api_list) - 1 /\ api_list' \in Seq(Entries)
        /\ \A j \in 1 .. Len(api_list) - 1 : api_list'[j] = api_list[j + 1]
    BY <2>1, ListTypes, TailPicks
  <2>3. i \in 1 .. Len(api_list) - 1
    BY <2>2, LenProperties
  <2>4. i + 1 \in DOMAIN api_list
    BY <2>3, ListTypes
  <2> QED
    BY <1>1, <2>2, <2>3, <2>4
<1>8. ASSUME CpuApi
      PROVE  Goal
  <2>1. PICK k, hit, f : CpuHit(k, hit, f)
    BY <1>8, CpuApiFacts
  <2>2. Picks(api_list', api_list, f) /\ HitMap(api_list', api_list, k, hit, f)
    BY <2>1 DEF CpuHit, HitMap
  <2>3. i \in 1 .. Len(api_list') /\ f[i] \in DOMAIN api_list
    BY <2>2, ListTypes, LenProperties DEF Picks
  <2>4. CASE api_list'[i] = api_list[f[i]]
    BY <1>1, <2>3, <2>4
  <2>5. CASE f[i] = k /\ api_list'[i] = hit
    <3>1. Comes(api_list'[i], api_list[k])
      BY <2>1, <2>5 DEF CpuHit
    <3> QED
      BY <2>3, <2>5, <3>1 DEF Goal
  <2> QED
    BY <2>2, <2>3, <2>4, <2>5 DEF HitMap
<1>9. Goal
  BY <1>2, <1>4, <1>5, <1>6, <1>7, <1>8, ListMarkerSteps
<1> QED
  BY <1>9 DEF Goal

LEMMA ListAscends ==
  ASSUME TypeOK, CallsInv, SendersInv, InterruptsInv, ListInv, [Next]_vars
  PROVE  ApisAscending(api_list')
<1> USE NumberTypes
<1>0. api_list \in Seq(Entries) /\ ApisAscending(api_list)
  BY ListTypes DEF ListInv
<1>1. ASSUME NEW t \in Threads, Enqueue(t), loc[t].c = "CPU", NEW e \in Entries,
             e.seq = loc[t].seq, api_list' = Append(api_list, e)
      PROVE  ApisAscending(api_list')
  <2>1. SendsOn(t, "CPU") /\ pc[t] # "copy"
    BY <1>1 DEF Enqueue, SendsOn, Sending
  <2>2. \A m \in ApisIn(api_list) : m.seq < e.seq
    BY <1>1, <2>1 DEF ListInv, ApisIn, Message
  <2> QED
    BY <1>0, <1>1, <2>2, AppendAscends
<1>2. ASSUME NEW t \in Threads, Enqueue(t)
      PROVE  ApisAscending(api_list')
  BY <1>0, <1>1, <1>2, EnqueueFacts
<1>3. ASSUME NEW t \in Threads, DeviceSyncCpu(t)
      PROVE  ApisAscending(api_list')
  <2>1. ASSUME NEW e \in Entries, IsMarker(e), api_list' = Append(api_list, e)
        PROVE  ApisAscending(api_list')
    BY <1>0, <2>1, AppendAscends
  <2>2. \/ api_list' = api_list
        \/ \E e \in Entries : IsMarker(e) /\ api_list' = Append(api_list, e)
    BY <1>3, DeviceSyncCpuFacts
  <2> QED
    BY <1>0, <2>1, <2>2
<1>4. ASSUME NEW t \in Threads, QueryDone(t) \/ \E h \in Handles : QueryApi(t, h)
      PROVE  ApisAscending(api_list')
  BY <1>0, <1>4, FlaggedFacts, PickedInOrder
<1>5. CASE CpuMarker
  BY <1>0, <1>5, TailAscends DEF CpuMarker
<1>6. CASE CpuApi
  <2>1. PICK f : Picks(api_list', api_list, f)
    BY <1>6, CpuApiFacts DEF CpuHit, HitMap
  <2> QED
    BY <1>0, <2>1, PickedInOrder
<1> QED
  BY <1>0, <1>2, <1>3, <1>4, <1>5, <1>6, ListMarkerSteps

(* A sender on the CPU channel that is past its copy was past it before, or  *)
(* has just put its entry into the list.                                     *)
LEMMA ListSenders ==
  ASSUME TypeOK, CallsInv, SendersInv, [Next]_vars, NEW u \in Threads,
         SendsOn(u, "CPU")'
  PROVE  \/ \E h \in Handles, c \in Channels : SendApi(u, h, c)
         \/ /\ SendsOn(u, "CPU") /\ loc'[u] = loc[u]
            /\ pc'[u] # "copy" => pc[u] # "copy"
<1>1. ASSUME NEW t \in Threads, NEW h \in Handles, NEW c \in Channels, SendApi(t, h, c),
             t # u
      PROVE  SendsOn(u, "CPU") /\ loc'[u] = loc[u] /\ pc'[u] = pc[u]
  BY <1>1, SendApiFacts DEF SendsOn
<1>2. CASE \A v \in Threads : pc'[v] \in Sending => pc[v] \in Sending /\ loc'[v] = loc[v]
  <2>1. SendsOn(u, "CPU") /\ loc'[u] = loc[u]
    BY <1>2 DEF SendsOn
  <2>2. ASSUME NEW t \in Threads, CopyToMsgfifo(t)
        PROVE  pc'[u] # "copy" => pc[u] # "copy"
    <3>1. pc'[t] = "idle" /\ \A v \in Threads \ {t} : pc'[v] = pc[v]
      BY <2>2, ReturnFacts DEF CopyToMsgfifo
    <3>2. u # t
      BY <3>1 DEF SendsOn, Sending
    <3> QED
      BY <3>1, <3>2
  <2>3. ASSUME NEW t \in Threads, Enqueue(t)
        PROVE  pc'[u] # "copy" => pc[u] # "copy"
    <3>1. pc' = [pc EXCEPT ![t] = "copy"] /\ pc \in [Threads -> SystemCalls]
      BY <2>3, EnqueueFacts DEF TypeOK
    <3> QED
      BY ONLY <3>1, u \in Threads, t \in Threads
  <2> QED
    BY <2>1, <2>2, <2>3, CopierSteps DEF CopiersKept
<1> QED
  BY <1>1, <1>2, SenderSteps

(* Old entries stay below the numbers of the senders.                        *)
Below(s) ==
  /\ s <= bm_send_api_seq
  /\ \A t \in Threads : SendsOn(t, "CPU") =>
       s <= loc[t].seq /\ (pc[t] # "copy" => s < loc[t].seq)

LEMMA StaysBelow ==
  ASSUME TypeOK, CallsInv, SendersInv, [Next]_vars, NEW s \in Nat, Below(s)
  PROVE  Below(s)'
<1> USE NumberTypes
<1>0. bm_send_api_seq \in Nat
  BY DEF TypeOK
<1>1. s <= bm_send_api_seq'
  <2>1. \/ bm_send_api_seq' = bm_send_api_seq
        \/ bm_send_api_seq' = bm_send_api_seq + 1
    BY SenderSteps DEF SendApi
  <2> QED
    BY <1>0, <2>1 DEF Below
<1>2. ASSUME NEW u \in Threads, SendsOn(u, "CPU")'
      PROVE  s <= loc'[u].seq /\ (pc'[u] # "copy" => s < loc'[u].seq)
  <2>1. ASSUME NEW h \in Handles, NEW c \in Channels, SendApi(u, h, c)
        PROVE  s <= loc'[u].seq /\ (pc'[u] # "copy" => s < loc'[u].seq)
    <3>1. loc'[u].seq = bm_send_api_seq + 1
      BY <2>1, SendApiFacts
    <3> QED
      BY <1>0, <3>1 DEF Below
  <2>2. CASE /\ SendsOn(u, "CPU") /\ loc'[u] = loc[u]
             /\ pc'[u] # "copy" => pc[u] # "copy"
    BY <2>2 DEF Below
  <2> QED
    BY <1>2, <2>1, <2>2, ListSenders
<1> QED
  BY <1>1, <1>2 DEF Below

LEMMA ListSeqsStep ==
  ASSUME TypeOK, CallsInv, SendersInv, InterruptsInv, ListInv, [Next]_vars,
         NEW i \in DOMAIN api_list', ~IsMarker(api_list'[i]),
         NEW s \in Nat, s = api_list'[i].seq
  PROVE  /\ Below(s)'
         /\ "FINISH" \in api_list'[i].flag => "DONE" \in api_list'[i].flag
<1> USE NumberTypes
<1>1. ASSUME NEW j \in DOMAIN api_list, SameEntry(api_list'[i], api_list[j]),
             api_list[j].flag \subseteq api_list'[i].flag,
             "FINISH" \in api_list'[i].flag =>
               "FINISH" \in api_list[j].flag \/ "DONE" \in api_list[j].flag
      PROVE  /\ Below(s)'
             /\ "FINISH" \in api_list'[i].flag => "DONE" \in api_list'[i].flag
  <2>1. ~IsMarker(api_list[j]) /\ s = api_list[j].seq
    BY <1>1 DEF SameEntry, IsMarker
  <2>2. Below(s) /\ ("FINISH" \in api_list[j].flag => "DONE" \in api_list[j].flag)
    BY <2>1 DEF ListInv, Below
  <2>3. Below(s)'
    BY <2>2, StaysBelow
  <2> QED
    BY <1>1, <2>2, <2>3
<1>2. ASSUME NEW t \in Threads, Enqueue(t), loc[t].c = "CPU",
             api_list'[i].seq = loc[t].seq, api_list'[i].flag = {}
      PROVE  /\ Below(s)'
             /\ "FINISH" \in api_list'[i].flag => "DONE" \in api_list'[i].flag
  <2>1. /\ bm_send_api_seq' = bm_send_api_seq /\ loc' = loc
        /\ pc' = [pc EXCEPT ![t] = "copy"] /\ pc[t] = "enqueue"
    BY <1>2, EnqueueFacts DEF Enqueue
  <2>2. SendsOn(t, "CPU")
    BY <1>2, <2>1 DEF SendsOn, Sending
  <2>3. loc[t].seq \in 1 .. bm_send_api_seq
    BY <2>2 DEF SendsOn, SendersInv
  <2>4. s <= bm_send_api_seq'
    BY <1>2, <2>1, <2>3 DEF TypeOK
  <2>5. ASSUME NEW u \in Threads, SendsOn(u, "CPU")'
        PROVE  u = t /\ pc'[u] = "copy"
    <3>1. SendsOn(u, "CPU")
      BY <2>1, <2>2, <2>5 DEF SendsOn, TypeOK
    <3> QED
      BY <2>1, <2>2, <3>1, OneSender DEF TypeOK
  <2>6. Below(s)'
    BY <1>2, <2>1, <2>4, <2>5 DEF Below
  <2> QED
    BY <1>2, <2>6
<1> QED
  BY <1>1, <1>2, ListEntries

(* The entry of a message on the CPU channel.                                *)
HasEntry(l, s) == \E i \in DOMAIN l : /\ ~IsMarker(l[i]) /\ l[i].seq = s
                                      /\ "DONE" \notin l[i].flag

LEMMA EntryKept ==
  ASSUME TypeOK, CallsInv, SendersInv, InterruptsInv, ListInv, [Next]_vars,
         NEW s, HasEntry(api_list, s)
  PROVE  \/ HasEntry(api_list', s)
         \/ CpuApi /\ s = Head(ring["CPU"]).seq
<1> USE NumberTypes
<1>0. PICK j \in 1 .. Len(api_list) : /\ ~IsMarker(api_list[j]) /\ api_list[j].seq = s
                                      /\ "DONE" \notin api_list[j].flag
  BY ListTypes DEF HasEntry
<1>1. ASSUME NEW e \in Entries, api_list' = Append(api_list, e)
      PROVE  HasEntry(api_list', s)
  <2>1. j \in DOMAIN api_list' /\ api_list'[j] = api_list[j]
    BY <1>1, ListTypes, AppendFacts
  <2> QED
    BY <1>0, <2>1 DEF HasEntry
<1>2. ASSUME NEW t \in Threads, Enqueue(t)
      PROVE  HasEntry(api_list', s)
  <2>1. \/ api_list' = api_list
        \/ \E e \in Entries : api_list' = Append(api_list, e)
    BY <1>2, EnqueueFacts
  <2> QED
    BY <1>1, <2>1
<1>3. ASSUME NEW t \in Threads, DeviceSyncCpu(t)
      PROVE  HasEntry(api_list', s)
  <2>1. \/ api_list' = api_list
        \/ \E e \in Entries : api_list' = Append(api_list, e)
    BY <1>3, DeviceSyncCpuFacts
  <2> QED
    BY <1>1, <2>1
<1>4. ASSUME NEW t \in Threads, QueryDone(t) \/ \E h \in Handles : QueryApi(t, h)
      PROVE  HasEntry(api_list', s)
  <2>1. PICK k \in 1 .. Len(api_list), f \in {"WAIT", "FINISH"} :
          api_list' = Flagged(api_list, k, f)
    BY <1>4, QueryFacts
  <2>2. f \in Flags
    BY DEF Flags
  <2>3. /\ Len(api_list') = Len(api_list) /\ api_list' \in Seq(Entries)
        /\ SameEntry(api_list'[k], api_list[k])
        /\ api_list'[k].flag = api_list[k].flag \cup {f}
        /\ \A i \in 1 .. Len(api_list) : i # k => api_list'[i] = api_list[i]
    BY <2>1, <2>2, ListTypes, FlagPicks
  <2>4. /\ j \in DOMAIN api_list' /\ SameEntry(api_list'[j], api_list[j])
        /\ "DONE" \notin api_list'[j].flag
    <3>1. j \in DOMAIN api_list'
      BY <2>3, LenProperties
    <3>2. CASE j = k
      BY <1>0, <2>3, <3>1, <3>2
    <3>3. CASE j # k
      BY <1>0, <2>3, <3>1, <3>3 DEF SameEntry
    <3> QED
      BY <3>2, <3>3
  <2> QED
    BY <1>0, <2>4 DEF HasEntry, SameEntry, IsMarker
<1>5. ASSUME CpuMarker
      PROVE  HasEntry(api_list', s)
  <2>1. api_list # <<>> /\ api_list' = Tail(api_list) /\ IsMarker(Head(api_list))
    BY <1>5 DEF CpuMarker
  <2>2. /\ Head(api_list) = api_list[1] /\ api_list' \in Seq(Entries)
        /\ \A i \in 2 .. Len(api_list) :
             \E k \in 1 .. Len(api_list') : api_list'[k] = api_list[i]
    BY <2>1, ListTypes, TailPicks
  <2>3. j \in 2 .. Len(api_list)
    BY <1>0, <2>1, <2>2, ListTypes
  <2>4. PICK k \in 1 .. Len(api_list') : api_list'[k] = api_list[j]
    BY <2>2, <2>3
  <2>5. k \in DOMAIN api_list'
    BY <2>2, LenProperties
  <2> QED
    BY <1>0, <2>4, <2>5 DEF HasEntry
<1>6. ASSUME CpuApi
      PROVE  HasEntry(api_list', s) \/ s = Head(ring["CPU"]).seq
  <2>1. PICK i, hit, f : CpuHit(i, hit, f)
    BY <1>6, CpuApiFacts
  <2>2. CASE i = j
    BY <1>0, <2>1, <2>2 DEF CpuHit, CpuMatch
  <2>3. CASE i # j
    <3>1. ~Freed(api_list[j]) /\ ~MayFree(api_list[j])
      BY <1>0, ListTypes DEF ListInv, Freed, MayFree
    <3>2. PICK k \in 1 .. Len(api_list') : api_list'[k] = api_list[j]
      BY <2>1, <2>3, <3>1 DEF CpuHit, HitMap
    <3>3. k \in DOMAIN api_list'
      BY <2>1, LenProperties DEF CpuHit, HitMap, Picks
    <3> QED
      BY <1>0, <3>2, <3>3 DEF HasEntry
  <2> QED
    BY <2>2, <2>3
<1> QED
  BY <1>2, <1>3, <1>4, <1>5, <1>6, ListMarkerSteps

LEMMA EntryFoundStep ==
  ASSUME TypeOK, CallsInv, SendersInv, NumbersInv, InterruptsInv, ListInv, [Next]_vars
  PROVE  CpuEntryFound'
<1> USE NumberTypes
<1>1. SUFFICES ASSUME NEW k \in DOMAIN ring'["CPU"]
               PROVE  HasEntry(api_list', ring'["CPU"][k].seq)
  BY DEF CpuEntryFound, HasEntry
<1>2. /\ \A i \in DOMAIN ring["CPU"] : HasEntry(api_list, ring["CPU"][i].seq)
      /\ \A t \in BeingCopied("CPU") : HasEntry(api_list, loc[t].seq)
  BY DEF ListInv, CpuEntryFound, HasEntry
<1>3. CASE CpuApi
  <2>1. Released("CPU")
    BY <1>3, ReleasingCpuFacts
  <2>2. k \in 1 .. Len(ring["CPU"]) - 1 /\ ring'["CPU"][k] = ring["CPU"][k + 1]
    BY <1>1, <2>1 DEF Released
  <2>3. /\ 1 \in DOMAIN ring["CPU"] /\ k + 1 \in DOMAIN ring["CPU"] /\ 1 < k + 1
        /\ Head(ring["CPU"]) = ring["CPU"][1] /\ ring["CPU"][1].seq \in Nat
    <3>1. /\ ring["CPU"] \in Seq(Messages) /\ Len(ring["CPU"]) \in Nat
          /\ DOMAIN ring["CPU"] = 1 .. Len(ring["CPU"])
          /\ \A i \in DOMAIN ring["CPU"] : ring["CPU"][i].seq \in Nat
      BY RingFacts
    <3>2. /\ 1 \in DOMAIN ring["CPU"] /\ k + 1 \in DOMAIN ring["CPU"] /\ 1 < k + 1
          /\ ring["CPU"] # <<>>
      BY <2>2, <3>1
    <3> QED
      BY <3>1, <3>2
  <2>4. ring["CPU"][1].seq < ring["CPU"][k + 1].seq
    BY <2>3 DEF NumbersInv, Ascending
  <2> QED
    BY <1>2, <2>2, <2>3, <2>4, EntryKept
<1>4. CASE ~CpuApi
  <2>1. ASSUME NEW i \in DOMAIN ring["CPU"], ring'["CPU"][k] = ring["CPU"][i]
        PROVE  HasEntry(api_list', ring'["CPU"][k].seq)
    BY <1>2, <1>4, <2>1, EntryKept
  <2>2. CASE ring'["CPU"] = ring["CPU"]
    BY <1>1, <2>1, <2>2
  <2>3. ASSUME NEW t \in Threads, CopyToMsgfifo(t)
        PROVE  HasEntry(api_list', ring'["CPU"][k].seq)
    <3>1. loc[t].c \in Channels /\ Written(t, loc[t].c)
      BY <2>3, CopyFacts
    <3>2. CASE loc[t].c = "XPU"
      BY <2>2, <3>1, <3>2 DEF Written
    <3>3. CASE loc[t].c = "CPU"
      <4>1. HasEntry(api_list, loc[t].seq)
        BY <1>2, <2>3, <3>3 DEF BeingCopied, CopyToMsgfifo
      <4>2. k \in 1 .. Len(ring["CPU"]) + 1 /\ Len(ring["CPU"]) \in Nat
        BY <1>1, <3>1, <3>3, RingFacts DEF Written
      <4>3. CASE k = Len(ring["CPU"]) + 1
        <5>1. ring'["CPU"][k].seq = loc[t].seq
          BY <3>1, <3>3, <4>3 DEF Written, Message
        <5> QED
          BY <1>4, <4>1, <5>1, EntryKept
      <4>4. CASE k \in 1 .. Len(ring["CPU"])
        <5>1. k \in DOMAIN ring["CPU"] /\ ring'["CPU"][k] = ring["CPU"][k]
          BY <3>1, <3>3, <4>4, RingFacts DEF Written
        <5> QED
          BY <2>1, <5>1
      <4> QED
        BY <4>2, <4>3, <4>4
    <3> QED
      BY <3>1, <3>2, <3>3 DEF Channels
  <2>4. ASSUME XpuApi
        PROVE  ring'["CPU"] = ring["CPU"]
    BY <2>4, ReleasingFacts DEF Released
  <2> QED
    BY <1>4, <2>2, <2>3, <2>4, RingSteps
<1> QED
  BY <1>3, <1>4

LEMMA CopiedEntryStep ==
  ASSUME TypeOK, CallsInv, SendersInv, NumbersInv, InterruptsInv, ListInv, [Next]_vars,
         NEW u \in Threads, pc'[u] = "copy", loc'[u].c = "CPU"
  PROVE  HasEntry(api_list', loc'[u].seq)
<1> USE NumberTypes
<1>1. ASSUME pc[u] = "copy", loc'[u] = loc[u]
      PROVE  HasEntry(api_list', loc'[u].seq)
  <2>1. HasEntry(api_list, loc[u].seq)
    BY <1>1 DEF ListInv, BeingCopied, HasEntry
  <2>2. ASSUME CpuApi
        PROVE  loc[u].seq # Head(ring["CPU"]).seq
    <3>1. /\ 1 \in DOMAIN ring["CPU"] /\ Head(ring["CPU"]) = ring["CPU"][1]
          /\ ring["CPU"][1].seq \in Nat
      BY <2>2, ReleasingCpuFacts, RingFacts DEF Released
    <3>2. SendsOn(u, "CPU")
      BY <1>1 DEF SendsOn, Sending
    <3>3. ring["CPU"][1].seq < loc[u].seq
      BY <3>1, <3>2 DEF NumbersInv
    <3> QED
      BY <3>1, <3>3
  <2> QED
    BY <1>1, <2>1, <2>2, EntryKept
<1>2. ASSUME NEW t \in Threads, Enqueue(t)
      PROVE  HasEntry(api_list', loc'[u].seq)
  <2>1. pc' = [pc EXCEPT ![t] = "copy"] /\ loc' = loc
    BY <1>2, EnqueueFacts
  <2>2. CASE u = t
    <3>1. PICK e \in Entries : /\ ~IsMarker(e) /\ e.seq = loc[t].seq /\ e.flag = {}
                               /\ api_list' = Append(api_list, e)
      BY <1>2, <2>1, <2>2, EnqueueFacts
    <3>2. Len(api_list) + 1 \in DOMAIN api_list' /\ api_list'[Len(api_list) + 1] = e
      BY <3>1, ListTypes, AppendFacts
    <3> QED
      BY <2>1, <2>2, <3>1, <3>2 DEF HasEntry
  <2>3. CASE u # t
    BY <1>1, <2>1, <2>3 DEF TypeOK
  <2> QED
    BY <2>2, <2>3
<1>3. ASSUME NEW t \in Threads, CopyToMsgfifo(t)
      PROVE  HasEntry(api_list', loc'[u].seq)
  <2>1. pc'[t] = "idle" /\ \A v \in Threads \ {t} : pc'[v] = pc[v] /\ loc'[v] = loc[v]
    BY <1>3, ReturnFacts DEF CopyToMsgfifo
  <2> QED
    BY <1>1, <2>1
<1>4. CASE CopiersKept
  BY <1>1, <1>4 DEF CopiersKept
<1> QED
  BY <1>2, <1>3, <1>4, CopierSteps

LEMMA ListStep ==
  ASSUME TypeOK, CallsInv, SendersInv, NumbersInv, InterruptsInv, MarkersInv, ListInv,
         [Next]_vars
  PROVE  ListInv'
<1>1. ASSUME NEW i \in DOMAIN api_list', ~IsMarker(api_list'[i])
      PROVE  /\ api_list'[i].seq <= bm_send_api_seq'
             /\ "FINISH" \in api_list'[i].flag => "DONE" \in api_list'[i].flag
             /\ \A t \in Threads : SendsOn(t, "CPU")' =>
                  /\ api_list'[i].seq <= loc'[t].seq
                  /\ pc'[t] # "copy" => api_list'[i].seq < loc'[t].seq
  <2>1. TypeOK'
    BY TypesStep
  <2>2. api_list' \in Seq(Entries)
    BY <2>1 DEF TypeOK, Entries
  <2>3. api_list'[i] \in Entries
    BY <2>2, ElementOfSeq, LenProperties
  <2>4. PICK s \in Nat : s = api_list'[i].seq
    BY <2>3, EntryFacts
  <2> QED
    BY <1>1, <2>4, ListSeqsStep DEF Below
<1>2. \A t \in BeingCopied("CPU")' : HasEntry(api_list', loc'[t].seq)
  BY CopiedEntryStep DEF BeingCopied
<1>3. ApisAscending(api_list') /\ CpuEntryFound'
  BY ListAscends, EntryFoundStep
<1> QED
  BY <1>1, <1>2, <1>3 DEF ListInv, HasEntry

(* The entry of a query.                                                     *)
Queries(t, e) == /\ ~IsMarker(e) /\ e.t = t /\ "WAIT" \in e.flag
                 /\ "FINISH" \notin e.flag

LEMMA QueryStep ==
  ASSUME TypeOK, CallsInv, SendersInv, InterruptsInv, ListInv, QueryInv, [Next]_vars
  PROVE  QueryInv'
<1> USE NumberTypes
<1> DEFINE Goal(t) == \E i \in DOMAIN api_list' :
                        Queries(t, api_list'[i]) /\ api_list'[i].seq = loc'[t].seq
<1>1. SUFFICES ASSUME NEW t \in Threads, pc'[t] = "query"
               PROVE  Goal(t)
  BY DEF QueryInv, Queries, QueriedBy
<1>2. ASSUME NEW h \in Handles, QueryApi(t, h)
      PROVE  Goal(t)
  <2>1. PICK i \in 1 .. Len(api_list) :
          /\ ~IsMarker(api_list[i]) /\ loc'[t].seq = api_list[i].seq
          /\ api_list[i].t = t /\ "FINISH" \notin api_list[i].flag
          /\ api_list' = Flagged(api_list, i, "WAIT")
    BY <1>1, <1>2, QueryFacts
  <2>2. "WAIT" \in Flags
    BY DEF Flags
  <2>3. /\ SameEntry(api_list'[i], api_list[i]) /\ api_list' \in Seq(Entries)
        /\ api_list'[i].flag = api_list[i].flag \cup {"WAIT"}
        /\ Len(api_list') = Len(api_list)
    BY <2>1, <2>2, ListTypes, FlagPicks
  <2>4. i \in DOMAIN api_list'
    BY <2>3, LenProperties
  <2> QED
    BY <2>1, <2>3, <2>4 DEF Queries, SameEntry, IsMarker
<1>3. ASSUME pc[t] = "query", loc'[t] = loc[t]
      PROVE  Goal(t)
  <2>1. PICK j \in 1 .. Len(api_list) :
          Queries(t, api_list[j]) /\ api_list[j].seq = loc[t].seq
    BY <1>3, ListTypes DEF QueryInv, Queries, QueriedBy
  <2>2. ASSUME NEW i \in DOMAIN api_list', api_list'[i] = api_list[j]
        PROVE  Goal(t)
    BY <1>3, <2>1, <2>2
  <2>3. ASSUME NEW e \in Entries, api_list' = Append(api_list, e)
        PROVE  Goal(t)
    <3>1. j \in DOMAIN api_list' /\ api_list'[j] = api_list[j]
      BY <2>3, ListTypes, AppendFacts
    <3> QED
      BY <2>2, <3>1
  <2>4. CASE api_list' = api_list
    BY <2>2, <2>4, ListTypes
  <2>5. ASSUME NEW u \in Threads, Enqueue(u)
        PROVE  Goal(t)
    <3>1. \/ api_list' = api_list
          \/ \E e \in Entries : api_list' = Append(api_list, e)
      BY <2>5, EnqueueFacts
    <3> QED
      BY <2>3, <2>4, <3>1
  <2>6. ASSUME NEW u \in Threads, DeviceSyncCpu(u)
        PROVE  Goal(t)
    <3>1. \/ api_list' = api_list
          \/ \E e \in Entries : api_list' = Append(api_list, e)
      BY <2>6, DeviceSyncCpuFacts
    <3> QED
      BY <2>3, <2>4, <3>1
  <2>7. ASSUME NEW u \in Threads, QueryDone(u) \/ \E h \in Handles : QueryApi(u, h)
        PROVE  Goal(t)
    <3>1. PICK i \in 1 .. Len(api_list), f \in {"WAIT", "FINISH"} :
            /\ ~IsMarker(api_list[i]) /\ api_list' = Flagged(api_list, i, f)
            /\ \/ pc[u] = "query" /\ pc'[u] = "idle" /\ QueriedBy(u, api_list[i])
               \/ pc[u] = "idle" /\ api_list[i].t = u
      BY <2>7, QueryFacts
    <3>2. u # t
      <4>1. CASE pc[u] = "idle"
        BY <1>3, <4>1
      <4>2. CASE pc'[u] = "idle"
        BY <1>1, <4>2
      <4> QED
        BY <3>1, <4>1, <4>2
    <3>3. api_list[i].t = u
      <4>1. CASE pc[u] = "query" /\ QueriedBy(u, api_list[i])
        <5>1. PICK k \in 1 .. Len(api_list) :
                QueriedBy(u, api_list[k]) /\ api_list[k].t = u
          BY <4>1, ListTypes DEF QueryInv
        <5>2. api_list[k].seq = api_list[i].seq /\ api_list[k].seq \in Nat
              /\ ~IsMarker(api_list[k])
          BY <4>1, <5>1, ListTypes, EntryFacts DEF QueriedBy
        <5>3. ApisAscending(api_list) /\ DOMAIN api_list = 1 .. Len(api_list)
              /\ ~IsMarker(api_list[i])
          BY <3>1, ListTypes DEF ListInv
        <5>4. ~(k < i) /\ ~(i < k)
          BY ONLY <5>1, <5>2, <5>3, i \in 1 .. Len(api_list) DEF ApisAscending
        <5>5. k = i
          BY <5>4, ListTypes
        <5> QED
          BY <5>1, <5>5
      <4> QED
        BY <3>1, <4>1
    <3>4. i # j
      BY <2>1, <3>2, <3>3 DEF Queries
    <3>5. f \in Flags
      BY DEF Flags
    <3>6. /\ api_list' \in Seq(Entries) /\ Len(api_list') = Len(api_list)
          /\ \A k \in 1 .. Len(api_list) : k # i => api_list'[k] = api_list[k]
      <4>1. LET m == Flagged(api_list, i, f)
            IN  /\ m \in Seq(Entries) /\ Len(m) = Len(api_list)
                /\ \A k \in 1 .. Len(api_list) : k # i => m[k] = api_list[k]
        BY <3>5, ListTypes, FlagPicks
      <4> QED
        BY <3>1, <4>1
    <3>7. j \in DOMAIN api_list' /\ api_list'[j] = api_list[j]
      BY <3>4, <3>6, LenProperties
    <3> QED
      BY <2>2, <3>7
  <2>8. ASSUME CpuMarker
        PROVE  Goal(t)
    <3>1. api_list # <<>> /\ api_list' = Tail(api_list) /\ IsMarker(Head(api_list))
      BY <2>8 DEF CpuMarker
    <3>2. /\ Head(api_list) = api_list[1] /\ api_list' \in Seq(Entries)
          /\ \A i \in 2 .. Len(api_list) :
               \E k \in 1 .. Len(api_list') : api_list'[k] = api_list[i]
      BY <3>1, ListTypes, TailPicks
    <3>3. j \in 2 .. Len(api_list)
      BY <2>1, <3>1, <3>2, ListTypes DEF Queries
    <3>4. PICK k \in 1 .. Len(api_list') : api_list'[k] = api_list[j]
      BY <3>2, <3>3
    <3>5. k \in DOMAIN api_list'
      BY <3>2, LenProperties
    <3> QED
      BY <2>2, <3>4, <3>5
  <2>9. ASSUME CpuApi
        PROVE  Goal(t)
    <3>1. PICK i, hit, f : CpuHit(i, hit, f)
      BY <2>9, CpuApiFacts
    <3>2. api_list' \in Seq(Entries)
      BY <3>1 DEF CpuHit, HitMap, Picks
    <3>3. CASE i = j
      <4>1. PICK k \in 1 .. Len(api_list') : api_list'[k] = hit
        BY <3>1 DEF CpuHit, HitMap
      <4>2. Queries(t, hit) /\ hit.seq = loc[t].seq
        BY <2>1, <3>1, <3>3 DEF CpuHit, SameEntry, Queries
      <4>3. k \in DOMAIN api_list'
        BY <3>2, LenProperties
      <4> QED
        BY <1>3, <4>1, <4>2, <4>3
    <3>4. CASE i # j
      <4>1. ~Freed(api_list[j]) /\ ~MayFree(api_list[j])
        BY <2>1 DEF Queries, Freed, MayFree
      <4>2. PICK k \in 1 .. Len(api_list') : api_list'[k] = api_list[j]
        BY <3>1, <3>4, <4>1 DEF CpuHit, HitMap
      <4>3. k \in DOMAIN api_list'
        BY <3>2, LenProperties
      <4> QED
        BY <2>2, <4>2, <4>3
    <3> QED
      BY <3>3, <3>4
  <2> HIDE DEF Goal
  <2> QED
    BY <2>4, <2>5, <2>6, <2>7, <2>8, <2>9, ListMarkerSteps
<1> QED
  BY <1>1, <1>2, <1>3, WaiterSteps

-----------------------------------------------------------------------------
(* The invariant holds in every state.                                       *)

LEMMA CoreInit ==
  ASSUME Init
  PROVE  Core
<1> USE NumberTypes, ApiAssumption
<1>1. /\ 0 \in SeqNos /\ 0 \in MarkerNos /\ 0 \in 0 .. RingMsgs
      /\ "idle" \in SystemCalls /\ Idle \in Locs
  BY DEF SeqNos, MarkerNos, SystemCalls, Idle, Locs, Channels
<1>2. /\ \A c \in Channels : /\ ring[c] = <<>> /\ executed[c] = 0 /\ irq[c] = 0
                             /\ device_sync_last[c] = 0 /\ device_sync_cpl[c] = 0
                             /\ dev_sync_done[c] = 0
      /\ api_fifo = <<>> /\ api_list = <<>> /\ DOMAIN api_fifo = {} /\ DOMAIN api_list = {}
      /\ \A t \in Threads : pc[t] = "idle" /\ loc[t] = Idle
      /\ handler.on = "none" /\ handler.pending = 0
  BY DEF Init
<1>3. \A c \in Channels : Len(ring[c]) = 0 /\ DOMAIN ring[c] = {}
  BY <1>2
<1>4. TypeOK
  <2>1. HandleTypes
    BY <1>1 DEF Init, HandleTypes
  <2>2. /\ ring \in [Channels -> Seq(Messages)] /\ executed \in [Channels -> 0 .. RingMsgs]
        /\ irq \in [Channels -> 0 .. RingMsgs]
    BY <1>1 DEF Init
  <2>3. \A c \in Channels : executed[c] <= Len(ring[c]) /\ Len(ring[c]) <= RingMsgs
    BY <1>2, <1>3
  <2>4. ListsTyped
    BY <1>1, <1>2 DEF Init, ListsTyped, Entries
  <2>5. CallTypes
    BY <1>1 DEF Init, CallTypes
  <2>6. handler \in [on : Channels \cup {"none"}, pending : 0 .. RingMsgs]
    BY <1>1 DEF Init
  <2> QED
    BY <2>1, <2>2, <2>3, <2>4, <2>5, <2>6
    DEF TypeOK, HandleTypes, ListsTyped, CallTypes, Entries, Locs
<1>5. CallsInv /\ SendersInv /\ DeviceSyncInv /\ QueryInv
  BY <1>2 DEF CallsInv, SendersInv, Sending, DeviceSyncInv, QueryInv
<1>6. NumbersInv
  BY <1>3 DEF NumbersInv, Ascending
<1>7. \A c \in Channels : BeingCopied(c) = {}
  BY <1>2 DEF BeingCopied
<1>8. EntriesMatchMessages
  <2>1. ApisIn(api_fifo) = {} /\ ApisAscending(api_fifo)
    BY <1>2 DEF ApisIn, ApisAscending
  <2> QED
    BY <1>3, <1>7, <2>1 DEF EntriesMatchMessages, Ascending
<1>9. InterruptsInv
  BY <1>2 DEF InterruptsInv, InterruptPerMessage
<1>10. NoMarkerLeftBehind
  BY <1>2 DEF NoMarkerLeftBehind
<1>11. MarkersInv
  BY <1>2 DEF MarkersInv, MarkersOf, MarkersIn
<1>12. ListInv
  BY <1>2, <1>3, <1>7 DEF ListInv, ApisAscending, CpuEntryFound
<1> QED
  BY <1>4, <1>5, <1>6, <1>8, <1>9, <1>10, <1>11, <1>12 DEF Core

LEMMA CoreStep ==
  ASSUME Core, [Next]_vars
  PROVE  Core'
<1> USE DEF Core
<1>1. TypeOK' /\ CallsInv' /\ SendersInv' /\ NumbersInv'
  BY TypesStep, CallsStep, SendersStep, NumbersStep
<1>2. EntriesMatchMessages' /\ InterruptsInv' /\ NoMarkerLeftBehind'
  BY <1>1, EntriesStep, InterruptsStep, NoMarkerStep
<1>3. MarkersInv' /\ DeviceSyncInv'
  BY MarkersStep, DeviceSyncStep
<1>4. ListInv' /\ QueryInv'
  BY ListStep, QueryStep
<1> QED
  BY <1>1, <1>2, <1>3, <1>4

(* The numbers, the lists, the interrupts and the calls agree in every       *)
(* state that the driver and the card can reach.                             *)
THEOREM CoreInvariant == Spec => []Core
<1>1. Init => Core
  BY CoreInit
<1>2. Core /\ [Next]_vars => Core'
  BY CoreStep
<1> QED
  BY <1>1, <1>2, PTL DEF Spec

(* The state has its types; no ring and no kfifo holds more than it has room *)
(* for.                                                                      *)
THEOREM TypeCorrect == Spec => []TypeOK
<1>1. Core => TypeOK
  BY DEF Core
<1> QED
  BY <1>1, CoreInvariant, PTL

(* A step leaves a channel alone or is one step of MsgChannel.               *)
LEMMA ChannelStep ==
  ASSUME Core, [Next]_vars, NEW c \in Channels
  PROVE  [Channel(c)!Next]_<<ring[c], executed[c]>>
<1>0. /\ ring \in [Channels -> Seq(Messages)] /\ DOMAIN executed = Channels
      /\ TypeOK /\ CallsInv /\ SendersInv /\ InterruptsInv
  BY DEF Core, TypeOK
<1>1. ASSUME NEW t \in Threads, CopyToMsgfifo(t)
      PROVE  [Channel(c)!Next]_<<ring[c], executed[c]>>
  <2> DEFINE m == Message(loc[t].seq, loc[t].h, t)
  <2>1. executed'[c] = executed[c] /\ pc[t] = "copy"
        /\ ring' = [ring EXCEPT ![loc[t].c] = Append(ring[loc[t].c], m)]
    BY <1>1 DEF CopyToMsgfifo, card
  <2>2. CASE loc[t].c = c
    <3>1. m \in Messages
      <4>1. loc[t].h \in Handles /\ loc[t].seq \in SeqNos
        BY <1>0, <2>1, SenderNumber DEF TypeOK, CallsInv, Sending
      <4> QED
        BY <4>1 DEF Message, Messages
    <3>2. Len(ring[c]) < RingMsgs
      BY <1>0, <2>1, <2>2 DEF SendersInv
    <3>3. ring'[c] = Append(ring[c], m)
      BY <1>0, <2>1, <2>2
    <3>4. Channel(c)!Send(m)
      BY <2>1, <3>2, <3>3 DEF Channel!Send
    <3> HIDE DEF m
    <3> QED
      BY <3>1, <3>4 DEF Channel!Next
  <2>3. CASE loc[t].c # c
    BY <1>0, <2>1, <2>3
  <2> QED
    BY <2>2, <2>3
<1>2. ASSUME NEW d \in Channels, Release(d), executed[d] > 0
      PROVE  [Channel(c)!Next]_<<ring[c], executed[c]>>
  <2>1. ring'[c] = IF c = d THEN Tail(ring[c]) ELSE ring[c]
    BY <1>0, <1>2 DEF Release
  <2>2. executed'[c] = IF c = d THEN executed[c] - 1 ELSE executed[c]
    BY <1>0, <1>2 DEF Release
  <2>3. CASE c = d
    <3>1. Channel(c)!GiveBack
      BY <1>2, <2>1, <2>2, <2>3 DEF Channel!GiveBack
    <3> QED
      BY <3>1 DEF Channel!Next
  <2>4. CASE c # d
    BY <2>1, <2>2, <2>4
  <2> QED
    BY <2>3, <2>4
<1>3. CASE XpuApi
  <2>1. Release("XPU") /\ executed["XPU"] > 0
    BY <1>0, <1>3, ReleasingFacts DEF XpuApi, ApiDone, Released
  <2> QED
    BY <1>2, <2>1, NumberTypes
<1>4. CASE CpuApi
  <2>1. Release("CPU") /\ executed["CPU"] > 0
    BY <1>0, <1>4, ReleasingCpuFacts DEF CpuApi, ApiDone, Released
  <2> QED
    BY <1>2, <2>1, NumberTypes
<1>5. ASSUME NEW d \in Channels, Execute(d)
      PROVE  [Channel(c)!Next]_<<ring[c], executed[c]>>
  <2>1. /\ ring' = ring /\ executed[d] < Len(ring[d])
        /\ executed' = [executed EXCEPT ![d] = executed[d] + 1]
    BY <1>5 DEF Execute
  <2>2. CASE d = c
    <3>1. Channel(c)!Execute
      BY <1>0, <2>1, <2>2 DEF Channel!Execute
    <3> QED
      BY <3>1 DEF Channel!Next
  <2>3. CASE d # c
    BY <1>0, <2>1, <2>3
  <2> QED
    BY <2>2, <2>3
<1>6. CASE ring' = ring /\ executed' = executed
  BY <1>6
<1> QED
  BY <1>0, <1>1, <1>3, <1>4, <1>5, <1>6, ExecutedSteps

(* For the programs above it, each ring of the driver is a channel with room *)
(* for RingMsgs messages: they are executed and released in the order in     *)
(* which they were sent, none is released that was not executed, and none is *)
(* sent that has no room.                                                    *)
THEOREM ChannelsImplemented == Spec => ChannelsKept
<1>1. ASSUME NEW c \in Channels
      PROVE  Spec => Channel(c)!Spec
  <2>1. Init => Channel(c)!Init
    BY DEF Init, Channel!Init
  <2>2. Core /\ [Next]_vars => [Channel(c)!Next]_<<ring[c], executed[c]>>
    BY ChannelStep
  <2> QED
    BY <2>1, <2>2, CoreInvariant, PTL DEF Spec, Channel!Spec
<1> QED
  BY <1>1 DEF ChannelsKept

(* The entries of api_fifo are the messages of the ring, so that the handler *)
(* completes the API that was executed.                                      *)
THEOREM EntriesAreMessages == Spec => []EntriesMatchMessages
<1>1. Core => EntriesMatchMessages
  BY DEF Core
<1> QED
  BY <1>1, CoreInvariant, PTL

(* Every executed message of the XPU channel has its interrupt.              *)
THEOREM InterruptsCounted == Spec => []InterruptPerMessage
<1>1. Core => InterruptPerMessage
  BY DEF Core, InterruptsInv
<1> QED
  BY <1>1, CoreInvariant, PTL

(* No marker waits at the head of api_fifo for an interrupt.                 *)
THEOREM MarkersTaken == Spec => []NoMarkerLeftBehind
<1>1. Core => NoMarkerLeftBehind
  BY DEF Core
<1> QED
  BY <1>1, CoreInvariant, PTL

(* A marker of api_fifo completes after the APIs that its device sync found  *)
(* on the XPU channel.                                                       *)
THEOREM XpuMarkersSound == Spec => []MarkerFollowsApis
<1>1. ASSUME Core
      PROVE  MarkerFollowsApis
  <2>1. SUFFICES ASSUME NEW t \in Threads, pc[t] = "device_sync_cpu",
                        device_sync_cpl["XPU"] >= loc[t].seq,
                        NEW i \in DOMAIN ring["XPU"]
                 PROVE  ring["XPU"][i].seq \notin loc[t].owed
    BY DEF MarkerFollowsApis
  <2>2. device_sync_cpl["XPU"] \in Nat /\ loc[t].seq \in Nat
    BY <1>1, NumberTypes DEF Core, TypeOK
  <2>3. OwedIn(api_fifo, device_sync_cpl["XPU"], loc[t].seq, loc[t].owed)
    BY <1>1, <2>1 DEF Core, DeviceSyncInv, OwedFirst
  <2>4. \A j \in DOMAIN api_fifo : IsMarker(api_fifo[j]) \/ api_fifo[j].seq \notin loc[t].owed
    BY <2>1, <2>2, <2>3 DEF OwedIn
  <2>5. ring["XPU"][i] \in ApisIn(api_fifo)
    BY <1>1, <2>1 DEF Core, EntriesMatchMessages
  <2>6. PICK j \in DOMAIN api_fifo :
          ~IsMarker(api_fifo[j]) /\ ring["XPU"][i] = MessageOf(api_fifo[j])
    BY <2>5 DEF ApisIn, MessageOf
  <2> QED
    BY <2>4, <2>6, MessageOfFacts
<1> QED
  BY <1>1, CoreInvariant, PTL

(* The same for the CPU channel.                                             *)
THEOREM CpuMarkersSound == Spec => []CpuMarkerFollowsApis
<1>1. ASSUME Core
      PROVE  CpuMarkerFollowsApis
  <2>1. SUFFICES ASSUME NEW t \in Threads, pc[t] \in Syncing,
                        device_sync_cpl["CPU"] >= loc[t].seq,
                        NEW i \in DOMAIN ring["CPU"]
                 PROVE  ring["CPU"][i].seq \notin loc[t].owed
    BY DEF CpuMarkerFollowsApis, Syncing
  <2>2. device_sync_cpl["CPU"] \in Nat /\ loc[t].seq \in Nat
    BY <1>1, NumberTypes DEF Core, TypeOK
  <2>3. OwedIn(api_list, device_sync_cpl["CPU"], loc[t].seq, loc[t].owed)
    BY <1>1, <2>1 DEF Core, DeviceSyncInv, OwedFirst, Syncing
  <2>4. \A j \in DOMAIN api_list : IsMarker(api_list[j]) \/ api_list[j].seq \notin loc[t].owed
    BY <2>1, <2>2, <2>3 DEF OwedIn
  <2>5. PICK j \in DOMAIN api_list :
          ~IsMarker(api_list[j]) /\ api_list[j].seq = ring["CPU"][i].seq
    BY <1>1, <2>1 DEF Core, ListInv, CpuEntryFound
  <2> QED
    BY <2>4, <2>5
<1> QED
  BY <1>1, CoreInvariant, PTL

(* The handler finds the entry of every message of the CPU channel.          *)
THEOREM CpuEntriesFound == Spec => []CpuEntryFound
<1>1. Core => CpuEntryFound
  BY DEF Core, ListInv
<1> QED
  BY <1>1, CoreInvariant, PTL

(* A query keeps its entry, whatever the handler scans meanwhile.            *)
THEOREM QueriesKeepEntries == Spec => []QueryHasItsEntry
<1>1. ASSUME Core
      PROVE  QueryHasItsEntry
  BY <1>1 DEF Core, QueryInv, QueryHasItsEntry
<1> QED
  BY <1>1, CoreInvariant, PTL

-----------------------------------------------------------------------------
(* Without the CPU channel, numbers complete in the order in which they were *)
(* drawn: what is in api_fifo is above all that is completed, and at most    *)
(* what was sent last.                                                       *)
NoCpu == \A t \in Threads : "CPU" \notin Calls[t]
CpuUnused ==
  /\ ring["CPU"] = <<>> /\ irq["CPU"] = 0 /\ handler.on # "CPU"
  /\ \A t \in Threads : pc[t] \in Sending => loc[t].c = "XPU"
Between(s, h, t) ==
  /\ h_cpl_api_seq[h] < s /\ s <= h_send_api_seq[h]
  /\ cpl_api_seq[<<h, t>>] < s /\ s <= last_api_seq[<<h, t>>]
CompletedInv ==
  /\ \A t \in Threads : pc[t] \in {"wait", "enqueue", "copy"} =>
       h_send_api_seq[loc[t].h] = loc[t].seq
  /\ \A i \in DOMAIN api_fifo :
       ~IsMarker(api_fifo[i]) /\ api_fifo[i].h \in handle_list =>
         /\ <<api_fifo[i].h, api_fifo[i].t>> \in threads
         /\ Between(api_fifo[i].seq, api_fifo[i].h, api_fifo[i].t)
  /\ \A h \in Handles :
       /\ h_cpl_api_seq[h] <= bm_send_api_seq
       /\ \A t \in Threads : cpl_api_seq[<<h, t>>] <= bm_send_api_seq
       /\ \A u \in Threads : SendsOn(u, "XPU") =>
            /\ h_cpl_api_seq[h] < loc[u].seq
            /\ \A t \in Threads : cpl_api_seq[<<h, t>>] < loc[u].seq

(* What a thread sync or handle sync is owed.                                *)
SyncInv ==
  \A t \in Threads :
    /\ pc[t] \in {"thread_sync", "handle_sync", "ret_thread", "ret_handle"} =>
         OwedOld(t, "XPU")
    /\ \A i \in DOMAIN ring["XPU"] : ring["XPU"][i].seq \in loc[t].owed =>
         /\ pc[t] \notin {"ret_thread", "ret_handle"}
         /\ pc[t] = "thread_sync" =>
              ring["XPU"][i].h = loc[t].h /\ ring["XPU"][i].t = t
         /\ pc[t] = "handle_sync" =>
              ring["XPU"][i].h = loc[t].h /\ ring["XPU"][i].seq <= loc[t].seq

OrderInv == CpuUnused /\ CompletedInv /\ SyncInv

-----------------------------------------------------------------------------
(* Without the CPU channel.                                                  *)

LEMMA CpuUnusedStep ==
  ASSUME NoCpu, TypeOK, CallsInv, SendersInv, InterruptsInv, CpuUnused, [Next]_vars
  PROVE  CpuUnused'
<1> USE NumberTypes
<1>0. /\ Len(ring["CPU"]) = 0 /\ ring["CPU"] = <<>> /\ irq["CPU"] = 0
      /\ handler.on # "CPU" /\ \A t \in Threads : pc[t] \in Sending => loc[t].c = "XPU"
  BY DEF CpuUnused
<1>1. \A t \in Threads : pc'[t] \in Sending => loc'[t].c = "XPU"
  <2>1. ASSUME NEW t \in Threads, NEW h \in Handles, NEW c \in Channels, SendApi(t, h, c)
        PROVE  \A u \in Threads : pc'[u] \in Sending => loc'[u].c = "XPU"
    <3>1. c = "XPU"
      BY <2>1 DEF SendApi, NoCpu, Channels
    <3> QED
      BY <1>0, <2>1, <3>1, SendApiFacts
  <2> QED
    BY <1>0, <2>1, SenderSteps
<1>2. ring'["CPU"] = <<>>
  <2>1. ASSUME NEW t \in Threads, CopyToMsgfifo(t)
        PROVE  ring'["CPU"] = ring["CPU"]
    <3>1. loc[t].c = "XPU"
      BY <1>0, <2>1 DEF CopyToMsgfifo, Sending
    <3> QED
      BY <2>1, <3>1, CopyFacts DEF Written
  <2>2. ASSUME XpuApi
        PROVE  ring'["CPU"] = ring["CPU"]
    BY <2>2, ReleasingFacts DEF Released
  <2> QED
    BY <1>0, <2>1, <2>2, RingSteps DEF CpuApi, CpuScan
<1>3. irq'["CPU"] = 0 /\ handler'.on # "CPU"
  <2>1. ASSUME NEW c \in Channels, Execute(c)
        PROVE  irq'["CPU"] = 0 /\ handler' = handler
    <3>1. c # "CPU"
      BY <1>0, <2>1, RingFacts DEF Execute
    <3> QED
      BY <1>0, <2>1, <3>1 DEF Execute, TypeOK
  <2>2. ASSUME NEW c \in Channels, IrqStart(c)
        PROVE  irq'["CPU"] = 0 /\ handler'.on # "CPU"
    <3>1. c # "CPU"
      BY <1>0, <2>2 DEF IrqStart
    <3> QED
      BY <1>0, <2>2, <3>1 DEF IrqStart, TypeOK
  <2>3. CASE XpuMarker \/ XpuApi \/ XpuEnd \/ CpuMarker \/ CpuApi \/ CpuEnd
    <3>1. irq' = irq
      BY <2>3 DEF XpuMarker, XpuApi, XpuEnd, CpuMarker, CpuApi, CpuEnd, card
    <3>2. ASSUME CpuMarker \/ CpuApi \/ CpuEnd
          PROVE  FALSE
      BY <1>0, <3>2 DEF CpuMarker, CpuApi, CpuScan, CpuEnd
    <3>3. handler \in [on : Channels \cup {"none"}, pending : 0 .. RingMsgs]
      BY DEF TypeOK
    <3>4. ASSUME XpuMarker \/ XpuApi
          PROVE  handler'.on # "CPU"
      <4>1. handler' = handler \/ handler' = [handler EXCEPT !.pending = @ - 1]
        BY <3>4 DEF XpuMarker, XpuApi
      <4> QED
        BY ONLY <4>1, <3>3, <1>0
    <3>5. ASSUME XpuEnd
          PROVE  handler'.on # "CPU"
      <4>1. handler' = [on |-> "none", pending |-> 0]
        BY <3>5 DEF XpuEnd, HandlerEnd
      <4> QED
        BY ONLY <4>1
    <3>6. handler'.on # "CPU"
      BY <2>3, <3>2, <3>4, <3>5
    <3> QED
      BY <1>0, <3>1, <3>6
  <2>4. CASE UNCHANGED <<card, handler>>
    BY <1>0, <2>4 DEF card
  <2>5. ASSUME NEW t \in Threads, NEW h \in Handles,
               \/ Open(t, h) \/ QueryApi(t, h) \/ DeviceSync(t, h)
               \/ \E c \in Channels : SendApi(t, h, c)
        PROVE  UNCHANGED <<card, handler>>
    BY <2>5 DEF Open, QueryApi, DeviceSync, SendApi, noApiStep
  <2>6. ASSUME NEW t \in Threads,
               \/ Local(t) \/ CloseFree(t) \/ RecordSeq(t) \/ WaitMsgfifo(t)
               \/ Enqueue(t) \/ Fail(t) \/ CopyToMsgfifo(t) \/ QueryDone(t)
               \/ DeviceSyncCpu(t)
        PROVE  UNCHANGED <<card, handler>>
    BY <2>6 DEF Local, CloseFree, RecordSeq, WaitMsgfifo, Enqueue, Fail, GiveUp,
                CopyToMsgfifo, QueryDone, DeviceSyncCpu, noApiStep
  <2>7. CASE UNCHANGED vars
    BY <2>4, <2>7 DEF vars
  <2> QED
    BY <2>1, <2>2, <2>3, <2>4, <2>5, <2>6, <2>7, <1>0, StepKinds
<1> QED
  BY <1>1, <1>2, <1>3 DEF CpuUnused

(* Which steps change numbers of handles and threads.                        *)
LEMMA HandleSteps ==
  ASSUME TypeOK, CallsInv, CpuUnused, [Next]_vars
  PROVE  \/ \E t \in Threads, h \in Handles :
              Open(t, h) \/ \E c \in Channels : SendApi(t, h, c)
         \/ \E t \in Threads : CloseFree(t) \/ RecordSeq(t) \/ Fail(t)
         \/ XpuApi
         \/ UNCHANGED <<handles, thds>>
<1>1. ASSUME NEW t \in Threads, NEW h \in Handles, QueryApi(t, h) \/ DeviceSync(t, h)
      PROVE  UNCHANGED <<handles, thds>>
  BY <1>1 DEF QueryApi, DeviceSync, noApiStep
<1>2. ASSUME NEW t \in Threads,
             \/ Local(t) \/ WaitMsgfifo(t) \/ Enqueue(t) \/ CopyToMsgfifo(t)
             \/ QueryDone(t) \/ DeviceSyncCpu(t)
      PROVE  UNCHANGED <<handles, thds>>
  BY <1>2 DEF Local, WaitMsgfifo, Enqueue, CopyToMsgfifo, QueryDone, DeviceSyncCpu,
              noApiStep
<1>3. ASSUME NEW c \in Channels, Execute(c) \/ IrqStart(c)
      PROVE  UNCHANGED <<handles, thds>>
  BY <1>3 DEF Execute, IrqStart
<1>4. ASSUME XpuMarker \/ XpuEnd \/ CpuMarker \/ CpuEnd
      PROVE  UNCHANGED <<handles, thds>>
  BY <1>4 DEF XpuMarker, XpuEnd, CpuMarker, CpuEnd
<1>5. ~CpuApi
  BY DEF CpuApi, CpuScan, CpuUnused
<1>6. ASSUME UNCHANGED vars
      PROVE  UNCHANGED <<handles, thds>>
  BY <1>6 DEF vars
<1> QED
  BY <1>1, <1>2, <1>3, <1>4, <1>5, <1>6, StepKinds

(* What becomes of the entries of api_fifo.                                  *)
LEMMA FifoEntriesKept ==
  ASSUME TypeOK, CallsInv, SendersInv, InterruptsInv, ListInv, [Next]_vars,
         NEW i \in DOMAIN api_fifo', ~IsMarker(api_fifo'[i])
  PROVE  \/ \E j \in 1 .. Len(api_fifo) :
              api_fifo'[i] = api_fifo[j] /\ (XpuApi => 1 < j)
         \/ \E t \in Threads :
              /\ Enqueue(t) /\ loc[t].c = "XPU" /\ api_fifo'[i].seq = loc[t].seq
              /\ api_fifo'[i].h = loc[t].h /\ api_fifo'[i].t = t
<1> USE NumberTypes
<1> DEFINE Goal == \/ \E j \in 1 .. Len(api_fifo) :
                        api_fifo'[i] = api_fifo[j] /\ (XpuApi => 1 < j)
                   \/ \E t \in Threads :
                        /\ Enqueue(t) /\ loc[t].c = "XPU"
                        /\ api_fifo'[i].seq = loc[t].seq
                        /\ api_fifo'[i].h = loc[t].h /\ api_fifo'[i].t = t
<1>1. ASSUME NEW j \in 1 .. Len(api_fifo), api_fifo'[i] = api_fifo[j], ~XpuApi
      PROVE  Goal
  BY <1>1
<1>2. ASSUME api_fifo' = api_fifo, ~XpuApi
      PROVE  Goal
  BY <1>1, <1>2, ListTypes
<1>3. ASSUME XpuMarker \/ XpuApi
      PROVE  Goal
  <2>1. api_fifo # <<>> /\ api_fifo' = Tail(api_fifo)
    BY <1>3 DEF XpuMarker, XpuApi
  <2>2. /\ Len(api_fifo') = Len(api_fifo) - 1 /\ api_fifo' \in Seq(Entries)
        /\ \A j \in 1 .. Len(api_fifo) - 1 : api_fifo'[j] = api_fifo[j + 1]
    BY <2>1, ListTypes, TailPicks
  <2>3. i \in 1 .. Len(api_fifo) - 1 /\ Len(api_fifo) \in Nat
    BY <2>2, LenProperties, ListTypes
  <2>4. i + 1 \in 1 .. Len(api_fifo) /\ api_fifo'[i] = api_fifo[i + 1] /\ 1 < i + 1
    BY <2>2, <2>3
  <2> QED
    BY <2>4
<1>4. ASSUME NEW e \in Entries, api_fifo' = Append(api_fifo, e), ~XpuApi,
             \/ IsMarker(e)
             \/ \E t \in Threads : /\ Enqueue(t) /\ loc[t].c = "XPU"
                                   /\ e.seq = loc[t].seq /\ e.h = loc[t].h /\ e.t = t
      PROVE  Goal
  <2>1. i \in 1 .. Len(api_fifo) + 1 /\ Len(api_fifo) \in Nat
    BY <1>4, ListTypes, AppendFacts
  <2>2. CASE i = Len(api_fifo) + 1
    BY <1>4, <2>2, ListTypes, AppendFacts
  <2>3. CASE i \in 1 .. Len(api_fifo)
    BY <1>1, <1>4, <2>3, ListTypes, AppendFacts
  <2> QED
    BY <2>1, <2>2, <2>3
<1> HIDE DEF Goal
<1>5. ASSUME NEW t \in Threads, Enqueue(t), ~XpuApi
      PROVE  Goal
  <2>1. \/ api_fifo' = api_fifo
        \/ \E e \in Entries : /\ api_fifo' = Append(api_fifo, e) /\ loc[t].c = "XPU"
                              /\ e.seq = loc[t].seq /\ e.h = loc[t].h /\ e.t = t
    BY <1>5, EnqueueFacts
  <2> QED
    BY <1>2, <1>4, <1>5, <2>1
<1>6. ASSUME NEW t \in Threads, NEW h \in Handles, DeviceSync(t, h), ~XpuApi
      PROVE  Goal
  BY <1>2, <1>4, <1>6, DeviceSyncFacts
<1>7. ASSUME NEW t \in Threads, CopyToMsgfifo(t), ~XpuApi
      PROVE  Goal
  BY <1>2, <1>7 DEF CopyToMsgfifo
<1>8. Goal
  BY <1>2, <1>3, <1>5, <1>6, <1>7, FifoSteps
<1> QED
  BY <1>8 DEF Goal

(* A sender is past recording its number only if it has done so.             *)
LEMMA RecordSteps ==
  ASSUME TypeOK, CallsInv, [Next]_vars, NEW t \in Threads,
         pc'[t] \in {"wait", "enqueue", "copy"}
  PROVE  /\ pc[t] \in Sending /\ loc'[t] = loc[t]
         /\ RecordSeq(t) \/ pc[t] \in {"wait", "enqueue", "copy"}
<1>0. pc \in [Threads -> SystemCalls] /\ loc \in [Threads -> Locs]
  BY DEF TypeOK, Locs
<1>1. ASSUME NEW u \in Threads, NEW h \in Handles, NEW c \in Channels, SendApi(u, h, c)
      PROVE  u # t /\ pc'[t] = pc[t] /\ loc'[t] = loc[t]
  <2>1. pc'[u] = "record" /\ \A v \in Threads \ {u} : pc'[v] = pc[v] /\ loc'[v] = loc[v]
    BY <1>0, <1>1 DEF SendApi, Goto, Locals
  <2> QED
    BY <2>1
<1>2. pc[t] \in Sending /\ loc'[t] = loc[t]
  <2>1. pc'[t] \in Sending
    BY DEF Sending
  <2> QED
    BY <1>1, <2>1, SenderSteps
<1>3. ASSUME pc[t] = "record", ~RecordSeq(t)
      PROVE  FALSE
  <2> DEFINE Same == pc'[t] = pc[t]
  <2>1. ~Same
    BY <1>3
  <2>2. ASSUME NEW u \in Threads,
               \/ RecordSeq(u) \/ WaitMsgfifo(u) \/ Enqueue(u) \/ CloseFree(u)
               \/ Fail(u) \/ CopyToMsgfifo(u) \/ QueryDone(u) \/ DeviceSyncCpu(u)
               \/ \E h \in Handles : QueryApi(u, h) \/ DeviceSync(u, h)
        PROVE  Same
    <3>1. u # t
      BY <1>3, <2>2 DEF RecordSeq, WaitMsgfifo, Enqueue, CloseFree, Fail, CopyToMsgfifo,
                       QueryDone, DeviceSyncCpu, QueryApi, DeviceSync, MayCall
    <3>2. \A v \in Threads \ {u} : pc'[v] = pc[v]
      BY <1>0, <2>2 DEF RecordSeq, WaitMsgfifo, Enqueue, CloseFree, Fail, GiveUp,
                       CopyToMsgfifo, QueryDone, DeviceSyncCpu, QueryApi, DeviceSync,
                       Goto, Return
    <3> QED
      BY <3>1, <3>2
  <2>3. ASSUME NEW u \in Threads, Local(u)
        PROVE  Same
    <3>1. u # t
      BY <1>2, <2>3 DEF Local
    <3> QED
      BY <2>3, <3>1 DEF Local
  <2>4. ASSUME \/ UNCHANGED vars \/ XpuMarker \/ CpuMarker \/ XpuEnd \/ CpuEnd
               \/ XpuApi \/ CpuApi
               \/ \E c \in Channels : Execute(c) \/ IrqStart(c)
               \/ \E u \in Threads, h \in Handles : Open(u, h)
        PROVE  Same
    BY <2>4 DEF vars, XpuMarker, CpuMarker, XpuEnd, CpuEnd, XpuApi, CpuApi, Execute,
                IrqStart, Open
  <2>5. ASSUME NEW u \in Threads, NEW h \in Handles, NEW c \in Channels, SendApi(u, h, c)
        PROVE  Same
    BY <1>1, <2>5
  <2> HIDE DEF Same
  <2>6. CASE Next
    BY <2>1, <2>2, <2>3, <2>4, <2>5, <2>6, StepKinds
  <2> QED
    BY <2>1, <2>4, <2>6
<1> QED
  BY <1>2, <1>3 DEF Sending

LEMMA RecordedStep ==
  ASSUME TypeOK, CallsInv, SendersInv, CpuUnused, CompletedInv, [Next]_vars,
         NEW t \in Threads, pc'[t] \in {"wait", "enqueue", "copy"}
  PROVE  h_send_api_seq'[loc'[t].h] = loc'[t].seq
<1> USE NumberTypes
<1>0. /\ pc[t] \in Sending /\ loc'[t] = loc[t]
      /\ RecordSeq(t) \/ pc[t] \in {"wait", "enqueue", "copy"}
  BY RecordSteps
<1>1. CASE RecordSeq(t)
  <2>1. loc[t].h \in Handles
    BY <1>0 DEF CallsInv, TypeOK, Sending
  <2> QED
    BY <1>0, <1>1, <2>1 DEF RecordSeq, TypeOK
<1>2. CASE ~RecordSeq(t)
  <2>1. h_send_api_seq[loc[t].h] = loc[t].seq /\ loc[t].h \in handle_list
    BY <1>0, <1>2 DEF CompletedInv, CallsInv, Sending
  <2>2. SUFFICES h_send_api_seq'[loc[t].h] = h_send_api_seq[loc[t].h]
    BY <1>0, <2>1
  <2>3. ASSUME NEW u \in Threads, NEW h \in Handles, Open(u, h)
        PROVE  h_send_api_seq'[loc[t].h] = h_send_api_seq[loc[t].h]
    BY <2>1, <2>3 DEF Open, TypeOK
  <2>4. ASSUME NEW u \in Threads, CloseFree(u)
        PROVE  h_send_api_seq'[loc[t].h] = h_send_api_seq[loc[t].h]
    <3>1. pc'[u] = "idle" /\ pc[u] = "close"
      BY <2>4, ReturnFacts DEF CloseFree
    <3>2. loc[t].h # loc[u].h
      BY <3>1 DEF CallsInv
    <3> QED
      BY <2>1, <2>4, <3>2 DEF CloseFree, TypeOK
  <2>5. ASSUME NEW u \in Threads, RecordSeq(u)
        PROVE  FALSE
    <3>1. SendsOn(u, "XPU") /\ SendsOn(t, "XPU")
      BY <1>0, <2>5 DEF SendsOn, RecordSeq, Sending, CpuUnused
    <3> QED
      BY <1>2, <2>5, <3>1, OneSender
  <2>6. ASSUME \/ XpuApi \/ UNCHANGED <<handles, thds>>
               \/ \E u \in Threads : Fail(u)
               \/ \E u \in Threads, h \in Handles, c \in Channels : SendApi(u, h, c)
        PROVE  h_send_api_seq' = h_send_api_seq
    BY <2>6 DEF XpuApi, ApiDone, Fail, GiveUp, SendApi, handles
  <2> QED
    BY <2>3, <2>4, <2>5, <2>6, HandleSteps
<1> QED
  BY <1>1, <1>2

(* What is in api_fifo is older than the number of a sender that has not put *)
(* its own entry there.                                                      *)
LEMMA FifoBelow ==
  ASSUME TypeOK, SendersInv, NumbersInv, EntriesMatchMessages,
         NEW t \in Threads, SendsOn(t, "XPU"), pc[t] # "copy",
         NEW j \in 1 .. Len(api_fifo), ~IsMarker(api_fifo[j])
  PROVE  api_fifo[j].seq < loc[t].seq
<1> USE NumberTypes
<1>1. MessageOf(api_fifo[j]) \in ApisIn(api_fifo)
  BY ListTypes DEF ApisIn, MessageOf
<1>2. CASE MessageOf(api_fifo[j]) \in {ring["XPU"][i] : i \in DOMAIN ring["XPU"]}
  BY <1>2, MessageOfFacts DEF NumbersInv
<1>3. ASSUME NEW u \in BeingCopied("XPU")
      PROVE  FALSE
  <2>1. u \in Threads /\ SendsOn(u, "XPU") /\ pc[u] = "copy"
    BY <1>3 DEF BeingCopied, SendsOn, Sending
  <2> QED
    BY <2>1, OneSender
<1> QED
  BY <1>1, <1>2, <1>3 DEF EntriesMatchMessages

(* What an entry of api_fifo relies on.                                      *)
KnownEntry(s, h, t) == <<h, t>> \in threads /\ Between(s, h, t)

LEMMA EntryNumbersKept ==
  ASSUME TypeOK, CallsInv, SendersInv, NumbersInv, InterruptsInv, EntriesMatchMessages,
         CpuUnused, CompletedInv, [Next]_vars,
         NEW j \in 1 .. Len(api_fifo), ~IsMarker(api_fifo[j]), XpuApi => 1 < j,
         NEW s, s = api_fifo[j].seq, NEW h, h = api_fifo[j].h, NEW t, t = api_fifo[j].t,
         h \in handle_list'
  PROVE  KnownEntry(s, h, t)'
<1> USE NumberTypes
<1>0. h \in Handles /\ t \in Threads /\ s \in Nat
  BY ListTypes, EntryFacts
<1>1. ASSUME h \in handle_list
      PROVE  KnownEntry(s, h, t)
  BY <1>1, ListTypes DEF CompletedInv, KnownEntry
<1>t. /\ h_send_api_seq[h] \in Nat /\ h_cpl_api_seq[h] \in Nat
      /\ last_api_seq[<<h, t>>] \in Nat /\ cpl_api_seq[<<h, t>>] \in Nat
  BY <1>0 DEF TypeOK
<1>2. ASSUME NEW u \in Threads, NEW g \in Handles, Open(u, g)
      PROVE  KnownEntry(s, h, t)'
  <2>1. h # g
    BY <1>2, ListTypes DEF Open, Named
  <2>2. KnownEntry(s, h, t)
    BY <1>1, <1>2, <2>1 DEF Open
  <2> QED
    BY <1>0, <1>2, <2>1, <2>2 DEF Open, CreateThreadInfo, KnownEntry, Between, TypeOK
<1>3. ASSUME NEW u \in Threads, CloseFree(u)
      PROVE  KnownEntry(s, h, t)'
  <2>1. h \in handle_list /\ h # loc[u].h
    BY <1>3 DEF CloseFree
  <2>2. KnownEntry(s, h, t)
    BY <1>1, <2>1
  <2>3. /\ h_send_api_seq'[h] = h_send_api_seq[h] /\ h_cpl_api_seq'[h] = h_cpl_api_seq[h]
        /\ <<h, t>> \in threads'
    BY <1>0, <1>3, <2>1, <2>2 DEF CloseFree, KnownEntry, TypeOK
  <2>4. /\ last_api_seq'[<<h, t>>] = last_api_seq[<<h, t>>]
        /\ cpl_api_seq'[<<h, t>>] = cpl_api_seq[<<h, t>>]
    BY <1>0, <1>3, <2>1 DEF CloseFree, TypeOK
  <2> QED
    BY <2>2, <2>3, <2>4 DEF KnownEntry, Between
<1>4. ASSUME NEW u \in Threads, NEW g \in Handles, NEW c \in Channels, SendApi(u, g, c)
      PROVE  KnownEntry(s, h, t)'
  <2>1. handle_list' = handle_list /\ h_send_api_seq' = h_send_api_seq
        /\ h_cpl_api_seq' = h_cpl_api_seq
    BY <1>4 DEF SendApi, handles
  <2>2. KnownEntry(s, h, t)
    BY <1>1, <2>1
  <2>3. /\ <<h, t>> \in threads' /\ last_api_seq'[<<h, t>>] = last_api_seq[<<h, t>>]
        /\ cpl_api_seq'[<<h, t>>] = cpl_api_seq[<<h, t>>]
    <3>1. CASE UNCHANGED thds
      BY <2>2, <3>1 DEF thds, KnownEntry
    <3>2. CASE <<g, u>> \notin threads /\ CreateThreadInfo(<<g, u>>)
      BY <1>0, <2>2, <3>2 DEF CreateThreadInfo, KnownEntry, TypeOK
    <3> QED
      BY <1>4, <3>1, <3>2 DEF SendApi
  <2> QED
    BY <2>1, <2>2, <2>3 DEF KnownEntry, Between
<1>5. ASSUME NEW u \in Threads, RecordSeq(u)
      PROVE  KnownEntry(s, h, t)'
  <2>1. handle_list' = handle_list /\ threads' = threads
        /\ h_cpl_api_seq' = h_cpl_api_seq /\ cpl_api_seq' = cpl_api_seq
    BY <1>5 DEF RecordSeq
  <2>2. KnownEntry(s, h, t)
    BY <1>1, <2>1
  <2>3. SendsOn(u, "XPU") /\ pc[u] # "copy" /\ loc[u].seq \in Nat
    BY <1>5 DEF RecordSeq, SendsOn, Sending, CpuUnused, TypeOK
  <2>4. s < loc[u].seq
    BY <2>3, FifoBelow
  <2>5. \/ h_send_api_seq'[h] = h_send_api_seq[h]
        \/ h_send_api_seq'[h] = loc[u].seq
    BY <1>0, <1>5 DEF RecordSeq, TypeOK
  <2>6. \/ last_api_seq'[<<h, t>>] = last_api_seq[<<h, t>>]
        \/ last_api_seq'[<<h, t>>] = loc[u].seq
    BY <1>0, <1>5 DEF RecordSeq, TypeOK
  <2>7. s <= h_send_api_seq'[h] /\ s <= last_api_seq'[<<h, t>>]
    BY <1>0, <2>2, <2>3, <2>4, <2>5, <2>6 DEF KnownEntry, Between
  <2> QED
    BY <2>1, <2>2, <2>7 DEF KnownEntry, Between
<1>6. ASSUME NEW u \in Threads, Fail(u)
      PROVE  KnownEntry(s, h, t)'
  <2>1. /\ UNCHANGED <<handles, threads, cpl_api_seq>>
        /\ last_api_seq' = [last_api_seq EXCEPT ![<<loc[u].h, u>>] = @ - 1]
        /\ pc[u] \in {"wait", "enqueue"}
    BY <1>6 DEF Fail, GiveUp
  <2>2. KnownEntry(s, h, t)
    BY <1>1, <2>1 DEF handles
  <2>3. SendsOn(u, "XPU") /\ pc[u] # "copy" /\ loc[u].seq \in Nat
        /\ last_api_seq[<<loc[u].h, u>>] = loc[u].seq
    BY <2>1 DEF SendsOn, Sending, CpuUnused, SendersInv, TypeOK
  <2>4. s < loc[u].seq
    BY <2>3, FifoBelow
  <2>5. \/ last_api_seq'[<<h, t>>] = last_api_seq[<<h, t>>]
        \/ last_api_seq'[<<h, t>>] = loc[u].seq - 1
    BY <1>0, <2>1, <2>3 DEF TypeOK
  <2>6. s <= last_api_seq'[<<h, t>>]
    BY <1>0, <2>2, <2>3, <2>4, <2>5 DEF KnownEntry, Between
  <2> QED
    BY <2>1, <2>2, <2>6 DEF KnownEntry, Between, handles
<1>7. ASSUME XpuApi
      PROVE  KnownEntry(s, h, t)'
  <2>1. /\ api_fifo # <<>> /\ Head(api_fifo) = api_fifo[1] /\ ~IsMarker(api_fifo[1])
        /\ api_fifo[1] \in Entries
    BY <1>7, HeadMatches
  <2>2. /\ UNCHANGED <<handle_list, h_send_api_seq, threads, last_api_seq>>
        /\ \/ UNCHANGED <<cpl_api_seq, h_cpl_api_seq>>
           \/ /\ cpl_api_seq' = [cpl_api_seq EXCEPT
                                   ![<<api_fifo[1].h, api_fifo[1].t>>] = api_fifo[1].seq]
              /\ h_cpl_api_seq' = [h_cpl_api_seq EXCEPT
                                     ![api_fifo[1].h] = api_fifo[1].seq]
    BY <1>7, <2>1 DEF XpuApi, ApiDone
  <2>3. KnownEntry(s, h, t)
    BY <1>1, <2>2
  <2>4. api_fifo[1].seq < s
    <3>1. 1 \in DOMAIN api_fifo /\ j \in DOMAIN api_fifo /\ 1 < j
      BY <1>7, ListTypes
    <3> QED
      BY <2>1, <3>1 DEF EntriesMatchMessages, ApisAscending
  <2>5. h_cpl_api_seq'[h] < s /\ cpl_api_seq'[<<h, t>>] < s
    BY <1>0, <2>2, <2>3, <2>4 DEF KnownEntry, Between, TypeOK
  <2> QED
    BY <2>2, <2>3, <2>5 DEF KnownEntry, Between
<1>8. ASSUME UNCHANGED <<handles, thds>>
      PROVE  KnownEntry(s, h, t)'
  <2>1. KnownEntry(s, h, t)
    BY <1>1, <1>8 DEF handles
  <2> QED
    BY <1>8, <2>1 DEF handles, thds, KnownEntry, Between
<1> QED
  BY <1>2, <1>3, <1>4, <1>5, <1>6, <1>7, <1>8, HandleSteps

(* What is completed is older than what is being sent.                       *)
CompletedBelow(s) ==
  \A h \in Handles : /\ h_cpl_api_seq[h] <= s
                     /\ \A t \in Threads : cpl_api_seq[<<h, t>>] <= s

LEMMA CompletedKept ==
  ASSUME TypeOK, CallsInv, InterruptsInv, EntriesMatchMessages, CpuUnused, [Next]_vars,
         NEW s \in Nat, CompletedBelow(s), XpuApi => ring["XPU"][1].seq <= s
  PROVE  CompletedBelow(s)'
<1> USE NumberTypes
<1>1. ASSUME NEW x \in Handles \X Threads, CreateThreadInfo(x)
      PROVE  \A y \in Handles \X Threads : cpl_api_seq'[y] \in {0, cpl_api_seq[y]}
  BY <1>1 DEF CreateThreadInfo, TypeOK
<1>2. ASSUME \A h \in Handles : h_cpl_api_seq'[h] \in {0, h_cpl_api_seq[h]},
             \A y \in Handles \X Threads : cpl_api_seq'[y] \in {0, cpl_api_seq[y]}
      PROVE  CompletedBelow(s)'
  BY <1>2 DEF CompletedBelow
<1>3. ASSUME NEW u \in Threads, NEW g \in Handles, Open(u, g)
      PROVE  CompletedBelow(s)'
  <2>1. \A h \in Handles : h_cpl_api_seq'[h] \in {0, h_cpl_api_seq[h]}
    BY <1>3 DEF Open, TypeOK
  <2> QED
    BY <1>1, <1>2, <1>3, <2>1 DEF Open
<1>4. ASSUME NEW u \in Threads, NEW g \in Handles, NEW c \in Channels, SendApi(u, g, c)
      PROVE  CompletedBelow(s)'
  <2>1. h_cpl_api_seq' = h_cpl_api_seq
    BY <1>4 DEF SendApi, handles
  <2>2. CASE UNCHANGED thds
    BY <2>1, <2>2 DEF thds, CompletedBelow
  <2>3. CASE CreateThreadInfo(<<g, u>>)
    BY <1>1, <1>2, <2>1, <2>3
  <2> QED
    BY <1>4, <2>2, <2>3 DEF SendApi
<1>5. ASSUME NEW u \in Threads, CloseFree(u)
      PROVE  CompletedBelow(s)'
  <2>1. \A h \in Handles : h_cpl_api_seq'[h] \in {0, h_cpl_api_seq[h]}
    BY <1>5 DEF CloseFree, TypeOK
  <2>2. \A y \in Handles \X Threads : cpl_api_seq'[y] \in {0, cpl_api_seq[y]}
    BY <1>5 DEF CloseFree, TypeOK
  <2> QED
    BY <1>2, <2>1, <2>2
<1>6. ASSUME NEW u \in Threads, RecordSeq(u) \/ Fail(u)
      PROVE  CompletedBelow(s)'
  BY <1>6 DEF RecordSeq, Fail, GiveUp, handles, CompletedBelow
<1>7. ASSUME XpuApi
      PROVE  CompletedBelow(s)'
  <2>1. /\ Head(api_fifo) = api_fifo[1] /\ api_fifo[1].seq <= s
    BY <1>7, HeadMatches, MessageOfFacts
  <2>2. \/ UNCHANGED <<cpl_api_seq, h_cpl_api_seq>>
        \/ /\ cpl_api_seq' = [cpl_api_seq EXCEPT
                                ![<<api_fifo[1].h, api_fifo[1].t>>] = api_fifo[1].seq]
           /\ h_cpl_api_seq' = [h_cpl_api_seq EXCEPT
                                  ![api_fifo[1].h] = api_fifo[1].seq]
    BY <1>7, <2>1 DEF XpuApi, ApiDone
  <2> QED
    BY <2>1, <2>2 DEF CompletedBelow, TypeOK
<1>8. ASSUME UNCHANGED <<handles, thds>>
      PROVE  CompletedBelow(s)'
  BY <1>8 DEF handles, thds, CompletedBelow
<1> QED
  BY <1>3, <1>4, <1>5, <1>6, <1>7, <1>8, HandleSteps

LEMMA CompletedStep ==
  ASSUME TypeOK, CallsInv, SendersInv, NumbersInv, InterruptsInv, EntriesMatchMessages,
         ListInv, CpuUnused, CompletedInv, SendersInv', CpuUnused', TypeOK', [Next]_vars
  PROVE  CompletedInv'
<1> USE NumberTypes
<1>0. bm_send_api_seq \in Nat /\ \A t \in Threads : loc[t].seq \in Nat
  BY DEF TypeOK
<1>h. XpuApi => ring["XPU"][1].seq \in 1 .. bm_send_api_seq
  BY HeadMatches DEF NumbersInv
<1>s. \A u \in Threads : SendsOn(u, "XPU") =>
        \A h \in Handles : /\ h_cpl_api_seq[h] < loc[u].seq
                            /\ \A t \in Threads : cpl_api_seq[<<h, t>>] < loc[u].seq
  BY DEF CompletedInv
<1>1. \A t \in Threads : pc'[t] \in {"wait", "enqueue", "copy"} =>
        h_send_api_seq'[loc'[t].h] = loc'[t].seq
  BY RecordedStep
<1>2. ASSUME NEW i \in DOMAIN api_fifo', ~IsMarker(api_fifo'[i]),
             api_fifo'[i].h \in handle_list',
             NEW s, s = api_fifo'[i].seq, NEW h, h = api_fifo'[i].h,
             NEW t, t = api_fifo'[i].t
      PROVE  KnownEntry(s, h, t)'
  <2>1. ASSUME NEW j \in 1 .. Len(api_fifo), api_fifo'[i] = api_fifo[j], XpuApi => 1 < j
        PROVE  KnownEntry(s, h, t)'
    BY <1>2, <2>1, EntryNumbersKept
  <2>2. ASSUME NEW u \in Threads, Enqueue(u), loc[u].c = "XPU", s = loc[u].seq,
               h = loc[u].h, t = u
        PROVE  KnownEntry(s, h, t)'
    <3>1. UNCHANGED <<handles, thds>> /\ pc[u] = "enqueue"
      BY <2>2 DEF Enqueue
    <3>2. SendsOn(u, "XPU") /\ h \in handle_list /\ <<h, t>> \in threads
          /\ last_api_seq[<<h, t>>] = s
      BY <2>2, <3>1 DEF SendsOn, Sending, CallsInv, SendersInv
    <3>3. h_send_api_seq[h] = s
      BY <2>2, <3>1 DEF CompletedInv
    <3>4. h_cpl_api_seq[h] < s /\ cpl_api_seq[<<h, t>>] < s
      <4>1. h \in Handles /\ t \in Threads
        BY <2>2, <3>2 DEF TypeOK
      <4> QED
        BY <1>s, <2>2, <3>2, <4>1
    <3> QED
      BY <1>0, <2>2, <3>1, <3>2, <3>3, <3>4 DEF KnownEntry, Between, handles, thds
  <2> QED
    BY <1>2, <2>1, <2>2, FifoEntriesKept
<1>3. CompletedBelow(bm_send_api_seq)
  BY DEF CompletedInv, CompletedBelow
<1>4. CompletedBelow(bm_send_api_seq)'
  <2>1. \/ bm_send_api_seq' = bm_send_api_seq
        \/ bm_send_api_seq' = bm_send_api_seq + 1
    BY SenderSteps DEF SendApi
  <2>2. \A s \in Nat : s = bm_send_api_seq => CompletedBelow(s)'
    BY <1>3, <1>h, CompletedKept DEF CompletedBelow
  <2>3. \A s \in Nat : s = bm_send_api_seq =>
          \A h \in Handles :
            /\ h_cpl_api_seq'[h] <= s /\ h_cpl_api_seq'[h] \in Nat
            /\ \A t \in Threads : /\ cpl_api_seq'[<<h, t>>] <= s
                                  /\ cpl_api_seq'[<<h, t>>] \in Nat
    BY <2>2 DEF CompletedBelow, TypeOK
  <2> QED
    BY <1>0, <2>1, <2>3 DEF CompletedBelow
<1>5. ASSUME NEW u \in Threads, SendsOn(u, "XPU")'
      PROVE  \A h \in Handles : /\ h_cpl_api_seq'[h] < loc'[u].seq
                                /\ \A t \in Threads : cpl_api_seq'[<<h, t>>] < loc'[u].seq
  <2>1. ASSUME NEW s \in Nat, CompletedBelow(s), XpuApi => ring["XPU"][1].seq <= s,
               loc'[u].seq = s + 1
        PROVE  \A h \in Handles :
                 /\ h_cpl_api_seq'[h] < loc'[u].seq
                 /\ \A t \in Threads : cpl_api_seq'[<<h, t>>] < loc'[u].seq
    <3>1. CompletedBelow(s)'
      BY <2>1, CompletedKept
    <3>2. \A h \in Handles : /\ h_cpl_api_seq'[h] \in Nat
                             /\ \A t \in Threads : cpl_api_seq'[<<h, t>>] \in Nat
      BY DEF TypeOK
    <3> QED
      BY <2>1, <3>1, <3>2 DEF CompletedBelow
  <2>2. ASSUME NEW t \in Threads, NEW g \in Handles, NEW c \in Channels, SendApi(t, g, c)
        PROVE  \A h \in Handles :
                 /\ h_cpl_api_seq'[h] < loc'[u].seq
                 /\ \A v \in Threads : cpl_api_seq'[<<h, v>>] < loc'[u].seq
    <3>1. c = "XPU" /\ u = t /\ loc'[u].seq = bm_send_api_seq + 1
      <4>1. /\ pc'[t] = "record" /\ loc'[t].c = c /\ loc'[t].seq = bm_send_api_seq + 1
            /\ \A v \in Threads \ {t} : pc'[v] = pc[v] /\ loc'[v] = loc[v]
            /\ \A v \in Threads : ~SendsOn(v, c)
        BY <2>2, SendApiFacts
      <4>2. c = "XPU"
        BY <4>1 DEF CpuUnused, Sending
      <4> QED
        BY <1>5, <4>1, <4>2 DEF SendsOn
    <3>2. PICK s \in Nat : s = bm_send_api_seq
      BY <1>0
    <3>3. CompletedBelow(s) /\ (XpuApi => ring["XPU"][1].seq <= s)
      BY <1>3, <1>h, <3>2 DEF CompletedBelow
    <3> QED
      BY <2>1, <3>1, <3>2, <3>3
  <2>3. CASE pc[u] \in Sending /\ loc'[u] = loc[u]
    <3>1. SendsOn(u, "XPU")
      BY <1>5, <2>3 DEF SendsOn
    <3>2. loc[u].seq \in 1 .. bm_send_api_seq
      BY <2>3 DEF SendersInv
    <3>3. PICK s \in Nat : loc[u].seq = s + 1
      BY <1>0, <3>2
    <3>4. CompletedBelow(s)
      <4>1. \A h \in Handles :
              /\ h_cpl_api_seq[h] < s + 1
              /\ \A t \in Threads : cpl_api_seq[<<h, t>>] < s + 1
        BY <1>s, <3>1, <3>3
      <4>2. \A h \in Handles : /\ h_cpl_api_seq[h] \in Nat
                               /\ \A t \in Threads : cpl_api_seq[<<h, t>>] \in Nat
        BY DEF TypeOK
      <4> QED
        BY <4>1, <4>2 DEF CompletedBelow
    <3>5. XpuApi => ring["XPU"][1].seq <= s
      BY <1>h, <1>0, <3>1, <3>3, HeadMatches DEF NumbersInv
    <3> QED
      BY <2>1, <2>3, <3>3, <3>4, <3>5
  <2> QED
    BY <1>5, <2>2, <2>3, SenderSteps DEF SendsOn
<1>6. \A i \in DOMAIN api_fifo' :
        ~IsMarker(api_fifo'[i]) /\ api_fifo'[i].h \in handle_list' =>
          /\ <<api_fifo'[i].h, api_fifo'[i].t>> \in threads'
          /\ /\ h_cpl_api_seq'[api_fifo'[i].h] < api_fifo'[i].seq
             /\ api_fifo'[i].seq <= h_send_api_seq'[api_fifo'[i].h]
          /\ /\ cpl_api_seq'[<<api_fifo'[i].h, api_fifo'[i].t>>] < api_fifo'[i].seq
             /\ api_fifo'[i].seq <= last_api_seq'[<<api_fifo'[i].h, api_fifo'[i].t>>]
  BY <1>2 DEF KnownEntry, Between
<1> QED
  BY <1>1, <1>4, <1>5, <1>6 DEF CompletedInv, CompletedBelow, Between

(* How a thread or handle sync begins and goes on.                           *)
SyncCalls == {"thread_sync", "handle_sync", "ret_thread", "ret_handle"}

LEMMA SyncSteps ==
  ASSUME TypeOK, CallsInv, [Next]_vars, NEW t \in Threads, pc'[t] \in SyncCalls
  PROVE  \/ /\ pc[t] \in SyncCalls /\ loc'[t] = loc[t] /\ ring' = ring
            /\ \/ pc'[t] = pc[t]
               \/ ThreadSyncDone(t) /\ pc'[t] = "ret_thread"
               \/ HandleSyncDone(t) /\ pc'[t] = "ret_handle"
         \/ pc'[t] = pc[t] /\ loc'[t] = loc[t]
         \/ \E h \in Handles : ThreadSync(t, h) \/ HandleSync(t, h)
<1>0. pc \in [Threads -> SystemCalls] /\ loc \in [Threads -> Locs]
  BY DEF TypeOK, Locs
<1> DEFINE Same(u) == pc'[u] = pc[u] /\ loc'[u] = loc[u]
           Goal == \/ /\ pc[t] \in SyncCalls /\ loc'[t] = loc[t] /\ ring' = ring
                      /\ \/ pc'[t] = pc[t]
                         \/ ThreadSyncDone(t) /\ pc'[t] = "ret_thread"
                         \/ HandleSyncDone(t) /\ pc'[t] = "ret_handle"
                   \/ Same(t)
                   \/ \E h \in Handles : ThreadSync(t, h) \/ HandleSync(t, h)
<1>s. ASSUME Same(t)
      PROVE  Goal
  BY <1>s
<1>d. ASSUME ThreadSyncDone(t) \/ HandleSyncDone(t)
      PROVE  Goal
  <2>1. CASE ThreadSyncDone(t)
    BY <1>0, <2>1 DEF ThreadSyncDone, Goto, noApiStep, SyncCalls
  <2>2. CASE HandleSyncDone(t)
    BY <1>0, <2>2 DEF HandleSyncDone, Goto, noApiStep, SyncCalls
  <2> QED
    BY <1>d, <2>1, <2>2
<1>c. ASSUME NEW h \in Handles, ThreadSync(t, h) \/ HandleSync(t, h)
      PROVE  Goal
  BY <1>c
<1> HIDE DEF Goal
<1>r. ASSUME NEW u \in Threads, Return(u)
      PROVE  Goal
  <2>1. pc'[u] = "idle" /\ \A v \in Threads \ {u} : Same(v)
    BY <1>r, ReturnFacts
  <2>2. u # t
    BY <2>1 DEF SyncCalls
  <2> QED
    BY <1>s, <2>1, <2>2
<1>g. ASSUME NEW u \in Threads, NEW p, p \notin SyncCalls, Goto(u, p),
             \A v \in Threads \ {u} : loc'[v] = loc[v]
      PROVE  Goal
  <2>1. pc'[u] = p /\ \A v \in Threads \ {u} : pc'[v] = pc[v]
    BY <1>0, <1>g DEF Goto
  <2> QED
    BY <1>g, <1>s, <2>1
<1>1. ASSUME NEW u \in Threads, NEW h \in Handles,
             \/ Open(u, h) \/ Close(u, h) \/ QueryApi(u, h) \/ DeviceSync(u, h)
             \/ ThreadSync(u, h) \/ HandleSync(u, h)
             \/ \E c \in Channels : SendApi(u, h, c)
      PROVE  Goal
  <2>1. CASE Open(u, h)
    BY <1>s, <2>1 DEF Open
  <2>2. CASE Close(u, h)
    BY <1>g, <1>0, <2>2 DEF Close, Locals, SyncCalls
  <2>3. CASE QueryApi(u, h)
    BY <1>g, <1>0, <2>3 DEF QueryApi, Locals, SyncCalls
  <2>4. CASE DeviceSync(u, h)
    BY <1>g, <1>0, <2>4 DEF DeviceSync, Locals, SyncCalls
  <2>5. CASE ThreadSync(u, h) \/ HandleSync(u, h)
    <3>1. \A v \in Threads \ {u} : Same(v)
      BY <1>0, <2>5 DEF ThreadSync, HandleSync, Locals, Goto
    <3> QED
      BY <1>c, <1>s, <2>5, <3>1
  <2>6. ASSUME NEW c \in Channels, SendApi(u, h, c)
        PROVE  Goal
    BY <1>g, <1>0, <2>6 DEF SendApi, Locals, SyncCalls
  <2> QED
    BY <1>1, <2>1, <2>2, <2>3, <2>4, <2>5, <2>6
<1>2. ASSUME NEW u \in Threads,
             \/ CloseFree(u) \/ EnqueueFull(u) \/ CopyToMsgfifo(u) \/ QueryDone(u)
             \/ WaitTimeout(u) \/ QueryTimeout(u) \/ SyncTimeout(u) \/ SyncReturns(u)
      PROVE  Goal
  <2>1. Return(u)
    BY <1>2 DEF CloseFree, EnqueueFull, GiveUp, CopyToMsgfifo, QueryDone, WaitTimeout,
                QueryTimeout, SyncTimeout, SyncReturns
  <2> QED
    BY <1>r, <2>1
<1>3. ASSUME NEW u \in Threads, RecordSeq(u) \/ WaitMsgfifo(u) \/ Enqueue(u)
      PROVE  Goal
  BY <1>3, <1>g DEF RecordSeq, WaitMsgfifo, Enqueue, SyncCalls
<1>4. ASSUME NEW u \in Threads, ThreadSyncDone(u) \/ HandleSyncDone(u)
      PROVE  Goal
  <2>1. \A v \in Threads \ {u} : Same(v)
    BY <1>0, <1>4 DEF ThreadSyncDone, HandleSyncDone, Goto
  <2> QED
    BY <1>4, <1>d, <1>s, <2>1
<1>5. ASSUME NEW u \in Threads,
             DeviceSyncCpu(u) \/ DeviceSyncCompare(u) \/ DeviceSyncWake(u)
      PROVE  Goal
  <2>1. pc[u] \in {"device_sync_cpu", "device_sync", "device_sleep"}
    BY <1>5 DEF DeviceSyncCpu, DeviceSyncCompare, DeviceSyncWake
  <2>2. pc'[u] \in {"device_sync", "device_sleep", "ret_device"}
    BY <1>0, <1>5 DEF DeviceSyncCpu, DeviceSyncCompare, DeviceSyncWake, Goto
  <2>3. \A v \in Threads \ {u} : Same(v)
    BY <1>0, <1>5 DEF DeviceSyncCpu, DeviceSyncCompare, DeviceSyncWake, Goto, Locals
  <2> QED
    BY <1>s, <2>2, <2>3 DEF SyncCalls
<1>6. ASSUME \/ UNCHANGED vars \/ Handle
             \/ \E c \in Channels : Execute(c) \/ IrqStart(c)
      PROVE  Goal
  <2>1. UNCHANGED <<pc, loc>>
    BY <1>6 DEF vars, Handle, XpuMarker, CpuMarker, XpuEnd, CpuEnd, XpuApi, CpuApi,
                Execute, IrqStart
  <2> QED
    BY <1>s, <2>1
<1>7. Goal
  <2>1. CASE UNCHANGED vars
    BY <1>6, <2>1
  <2>2. CASE Next
    BY <1>1, <1>2, <1>3, <1>4, <1>5, <1>6, <2>2 DEF Next, Proceed
  <2> QED
    BY <2>1, <2>2
<1> QED
  BY <1>7 DEF Goal

(* Without the CPU channel, what is outstanding is in the ring of the XPU.   *)
LEMMA OutstandingInRing ==
  ASSUME TypeOK, CpuUnused, NEW m \in Outstanding
  PROVE  \E i \in DOMAIN ring["XPU"] : i > executed["XPU"] /\ ring["XPU"][i] = m
<1> USE NumberTypes
<1>1. PICK c \in Channels : m \in {ring[c][i] : i \in executed[c] + 1 .. Len(ring[c])}
  BY DEF Outstanding
<1>2. c = "XPU"
  <2>1. ASSUME c = "CPU"
        PROVE  FALSE
    <3>1. Len(ring["CPU"]) = 0 /\ executed["CPU"] \in Nat
      BY RingFacts DEF CpuUnused
    <3> QED
      BY <1>1, <2>1, <3>1
  <2> QED
    BY <2>1 DEF Channels
<1>3. PICK i \in executed["XPU"] + 1 .. Len(ring["XPU"]) : ring["XPU"][i] = m
  BY <1>1, <1>2
<1>4. i \in DOMAIN ring["XPU"] /\ i > executed["XPU"]
  BY <1>3, RingFacts
<1> QED
  BY <1>3, <1>4

(* A message of the ring whose handle is open is known to its thread.        *)
LEMMA MessageKnown ==
  ASSUME TypeOK, EntriesMatchMessages, CompletedInv,
         NEW i \in DOMAIN ring["XPU"], NEW m, m = ring["XPU"][i], m.h \in handle_list
  PROVE  KnownEntry(m.seq, m.h, m.t)
<1>1. ring["XPU"][i] \in ApisIn(api_fifo)
  BY DEF EntriesMatchMessages
<1>2. PICK j \in DOMAIN api_fifo :
        ~IsMarker(api_fifo[j]) /\ ring["XPU"][i] = MessageOf(api_fifo[j])
  BY <1>1 DEF ApisIn, MessageOf
<1>3. m.seq = api_fifo[j].seq /\ m.h = api_fifo[j].h /\ m.t = api_fifo[j].t
  BY <1>2, MessageOfFacts
<1> QED
  BY <1>2, <1>3 DEF CompletedInv, KnownEntry

(* What a sync that waits or has waited may still find in the ring.          *)
RingOwed(t, m) ==
  m.seq \in loc[t].owed =>
    /\ pc[t] \notin {"ret_thread", "ret_handle"}
    /\ pc[t] = "thread_sync" => m.h = loc[t].h /\ m.t = t
    /\ pc[t] = "handle_sync" => m.h = loc[t].h /\ m.seq <= loc[t].seq

LEMMA SyncBegins ==
  ASSUME TypeOK, CallsInv, SendersInv, NumbersInv, EntriesMatchMessages, CpuUnused,
         CompletedInv, NEW t \in Threads, NEW h \in Handles,
         ThreadSync(t, h) \/ HandleSync(t, h)
  PROVE  /\ OwedOld(t, "XPU")'
         /\ ring' = ring
         /\ \A i \in DOMAIN ring["XPU"] : \A m : m = ring["XPU"][i] => RingOwed(t, m)'
<1> USE NumberTypes
<1>0. pc \in [Threads -> SystemCalls] /\ loc \in [Threads -> Locs]
  BY DEF TypeOK, Locs
<1>1. /\ MayCall(t, h) /\ h \in handle_list /\ pc[t] = "idle"
      /\ ring' = ring /\ bm_send_api_seq' = bm_send_api_seq
      /\ \A u \in Threads \ {t} : pc'[u] = pc[u] /\ loc'[u] = loc[u]
  BY <1>0 DEF ThreadSync, HandleSync, MayCall, noApiStep, Goto, Locals
<1>2. /\ loc'[t].h = h
      /\ \/ /\ pc'[t] = IF <<h, t>> \in threads THEN "thread_sync" ELSE "ret_thread"
            /\ loc'[t].owed = SeqsOf({m \in Outstanding : m.h = h /\ m.t = t})
         \/ /\ pc'[t] = "handle_sync" /\ loc'[t].seq = h_send_api_seq[h]
            /\ loc'[t].owed = SeqsOf({m \in Outstanding : m.h = h})
  BY <1>0 DEF ThreadSync, HandleSync, Goto, Locals
<1>3. \A x \in loc'[t].owed : \E i \in DOMAIN ring["XPU"] :
        /\ ring["XPU"][i].seq = x /\ ring["XPU"][i].h = h
        /\ pc'[t] # "handle_sync" => ring["XPU"][i].t = t
  <2> SUFFICES ASSUME NEW x \in loc'[t].owed
               PROVE  \E i \in DOMAIN ring["XPU"] :
                        /\ ring["XPU"][i].seq = x /\ ring["XPU"][i].h = h
                        /\ pc'[t] # "handle_sync" => ring["XPU"][i].t = t
    OBVIOUS
  <2>1. PICK m \in Outstanding : /\ m.seq = x /\ m.h = h
                                 /\ pc'[t] # "handle_sync" => m.t = t
    BY <1>2 DEF SeqsOf
  <2> QED
    BY <2>1, OutstandingInRing
<1>4. OwedOld(t, "XPU")'
  <2>1. \A x \in loc'[t].owed : x <= bm_send_api_seq'
    BY <1>1, <1>3 DEF NumbersInv
  <2>2. ASSUME NEW u \in Threads, SendsOn(u, "XPU")', NEW x \in loc'[t].owed
        PROVE  x < loc'[u].seq
    <3>1. u # t
      BY <1>2, <2>2 DEF SendsOn, Sending
    <3>2. SendsOn(u, "XPU") /\ loc'[u] = loc[u]
      BY <1>1, <2>2, <3>1 DEF SendsOn
    <3> QED
      BY <1>3, <3>2 DEF NumbersInv
  <2> QED
    BY <2>1, <2>2 DEF OwedOld
<1>5. ASSUME NEW i \in DOMAIN ring["XPU"], NEW m, m = ring["XPU"][i], m.seq \in loc'[t].owed
      PROVE  /\ pc'[t] \notin {"ret_thread", "ret_handle"}
             /\ pc'[t] = "thread_sync" => m.h = loc'[t].h /\ m.t = t
             /\ pc'[t] = "handle_sync" => m.h = loc'[t].h /\ m.seq <= loc'[t].seq
  <2>1. PICK k \in DOMAIN ring["XPU"] :
          /\ ring["XPU"][k].seq = m.seq /\ ring["XPU"][k].h = h
          /\ pc'[t] # "handle_sync" => ring["XPU"][k].t = t
    BY <1>3, <1>5
  <2>2. i = k
    BY <1>5, <2>1, RingFacts DEF NumbersInv, Ascending
  <2>3. m.h = h /\ (pc'[t] # "handle_sync" => m.t = t)
    BY <1>5, <2>1, <2>2
  <2>4. KnownEntry(m.seq, m.h, m.t)
    BY <1>1, <1>5, <2>3, MessageKnown
  <2> QED
    BY <1>2, <2>3, <2>4 DEF KnownEntry, Between
<1> QED
  BY <1>1, <1>4, <1>5 DEF RingOwed

(* A sync that ends has seen its last number completed.                      *)
LEMMA SyncEnds ==
  ASSUME TypeOK, CallsInv, EntriesMatchMessages, CompletedInv, SyncInv,
         NEW t \in Threads, ThreadSyncDone(t) \/ HandleSyncDone(t),
         NEW i \in DOMAIN ring["XPU"]
  PROVE  ring["XPU"][i].seq \notin loc[t].owed
<1> USE NumberTypes
<1>1. SUFFICES ASSUME ring["XPU"][i].seq \in loc[t].owed
               PROVE  FALSE
  OBVIOUS
<1> DEFINE m == ring["XPU"][i]
<1>2. /\ pc[t] = "thread_sync" => m.h = loc[t].h /\ m.t = t
      /\ pc[t] = "handle_sync" => m.h = loc[t].h /\ m.seq <= loc[t].seq
  BY <1>1 DEF SyncInv
<1>3. pc[t] \in {"thread_sync", "handle_sync"} /\ loc[t].h \in handle_list
  BY DEF ThreadSyncDone, HandleSyncDone, CallsInv
<1>4. m.h = loc[t].h /\ m.h \in Handles /\ m.t \in Threads /\ m.seq \in Nat
  BY <1>2, <1>3, RingFacts
<1>5. KnownEntry(m.seq, m.h, m.t)
  BY <1>3, <1>4, MessageKnown
<1>6. /\ h_cpl_api_seq[m.h] \in Nat /\ loc[t].seq \in Nat
      /\ cpl_api_seq[<<m.h, m.t>>] \in Nat /\ last_api_seq[<<m.h, m.t>>] \in Nat
  BY <1>4 DEF TypeOK
<1>7. CASE ThreadSyncDone(t)
  BY <1>2, <1>4, <1>5, <1>6, <1>7 DEF ThreadSyncDone, ThreadSynced, KnownEntry, Between
<1>8. CASE HandleSyncDone(t)
  BY <1>2, <1>4, <1>5, <1>6, <1>8 DEF HandleSyncDone, HandleSynced, KnownEntry, Between
<1> QED
  BY <1>7, <1>8

LEMMA RingOwedStep ==
  ASSUME TypeOK, CallsInv, SendersInv, InterruptsInv, CpuUnused, SyncInv, [Next]_vars,
         NEW t \in Threads, pc[t] \in SyncCalls, pc'[t] = pc[t], loc'[t] = loc[t],
         NEW k \in DOMAIN ring'["XPU"], NEW m, m = ring'["XPU"][k]
  PROVE  RingOwed(t, m)'
<1> USE NumberTypes
<1>0. \A i \in DOMAIN ring["XPU"] : RingOwed(t, ring["XPU"][i])
  BY DEF SyncInv, RingOwed
<1>1. ASSUME NEW i \in DOMAIN ring["XPU"], m = ring["XPU"][i]
      PROVE  RingOwed(t, m)'
  BY <1>0, <1>1 DEF RingOwed
<1>2. ASSUME ring'["XPU"] = ring["XPU"]
      PROVE  RingOwed(t, m)'
  BY <1>1, <1>2
<1>3. ASSUME NEW u \in Threads, CopyToMsgfifo(u)
      PROVE  RingOwed(t, m)'
  <2>1. loc[u].c = "XPU" /\ Written(u, "XPU") /\ SendsOn(u, "XPU")
    BY <1>3, CopyFacts DEF CpuUnused, CopyToMsgfifo, SendsOn, Sending
  <2>2. k \in 1 .. Len(ring["XPU"]) + 1 /\ Len(ring["XPU"]) \in Nat
    BY <2>1, RingFacts DEF Written
  <2>3. CASE k = Len(ring["XPU"]) + 1
    <3>1. m.seq = loc[u].seq
      BY <2>1, <2>3 DEF Written, Message
    <3>2. \A x \in loc[t].owed : x < loc[u].seq /\ x \in Nat
      BY <2>1 DEF SyncInv, SyncCalls, OwedOld, TypeOK
    <3>3. loc[u].seq \in Nat
      BY DEF TypeOK
    <3> QED
      BY <3>1, <3>2, <3>3 DEF RingOwed
  <2>4. CASE k \in 1 .. Len(ring["XPU"])
    <3>1. k \in DOMAIN ring["XPU"] /\ m = ring["XPU"][k]
      BY <2>1, <2>4, RingFacts DEF Written
    <3> QED
      BY <1>1, <3>1
  <2> QED
    BY <2>2, <2>3, <2>4
<1>4. ASSUME XpuApi
      PROVE  RingOwed(t, m)'
  <2>1. Released("XPU")
    BY <1>4, ReleasingFacts
  <2>2. k \in 1 .. Len(ring["XPU"]) - 1 /\ m = ring["XPU"][k + 1]
    BY <2>1 DEF Released
  <2>3. k + 1 \in DOMAIN ring["XPU"]
    BY <2>2, RingFacts
  <2> QED
    BY <1>1, <2>2, <2>3
<1>5. ~CpuApi
  BY DEF CpuApi, CpuScan, CpuUnused
<1> QED
  BY <1>2, <1>3, <1>4, <1>5, RingSteps

LEMMA SyncStep ==
  ASSUME TypeOK, CallsInv, SendersInv, NumbersInv, InterruptsInv, EntriesMatchMessages,
         CpuUnused, CompletedInv, SyncInv, [Next]_vars
  PROVE  SyncInv'
<1> USE NumberTypes
<1>1. ASSUME NEW t \in Threads, pc'[t] \in SyncCalls
      PROVE  /\ OwedOld(t, "XPU")'
             /\ \A i \in DOMAIN ring'["XPU"] : \A m : m = ring'["XPU"][i] => RingOwed(t, m)'
  <2>1. ASSUME NEW h \in Handles, ThreadSync(t, h) \/ HandleSync(t, h)
        PROVE  /\ OwedOld(t, "XPU")'
               /\ \A i \in DOMAIN ring'["XPU"] : \A m : m = ring'["XPU"][i] => RingOwed(t, m)'
    BY <2>1, SyncBegins
  <2>2. ASSUME pc[t] \in SyncCalls, loc'[t] = loc[t]
        PROVE  OwedOld(t, "XPU")'
    <3>1. OwedOld(t, "XPU")
      BY <2>2 DEF SyncInv, SyncCalls
    <3> QED
      BY <2>2, <3>1, OwedStaysOld
  <2>3. ASSUME pc[t] \in SyncCalls, loc'[t] = loc[t], pc'[t] = pc[t],
               NEW i \in DOMAIN ring'["XPU"], NEW m, m = ring'["XPU"][i]
        PROVE  RingOwed(t, m)'
    BY <2>3, RingOwedStep
  <2>4. ASSUME ThreadSyncDone(t) \/ HandleSyncDone(t), loc'[t] = loc[t], ring' = ring,
               NEW i \in DOMAIN ring'["XPU"], NEW m, m = ring'["XPU"][i]
        PROVE  RingOwed(t, m)'
    BY <2>4, SyncEnds DEF RingOwed
  <2> QED
    BY <1>1, <2>1, <2>2, <2>3, <2>4, SyncSteps
<1>2. ASSUME NEW t \in Threads, NEW i \in DOMAIN ring'["XPU"]
      PROVE  ring'["XPU"][i].seq \in loc'[t].owed =>
               /\ pc'[t] \notin {"ret_thread", "ret_handle"}
               /\ pc'[t] = "thread_sync" =>
                    ring'["XPU"][i].h = loc'[t].h /\ ring'["XPU"][i].t = t
               /\ pc'[t] = "handle_sync" =>
                    /\ ring'["XPU"][i].h = loc'[t].h
                    /\ ring'["XPU"][i].seq <= loc'[t].seq
  BY <1>1 DEF SyncCalls, RingOwed
<1> QED
  BY <1>1, <1>2 DEF SyncInv, SyncCalls

-----------------------------------------------------------------------------
LEMMA OrderInit ==
  ASSUME Init
  PROVE  OrderInv
<1> USE NumberTypes
<1>1. /\ \A c \in Channels : ring[c] = <<>> /\ irq[c] = 0
      /\ api_fifo = <<>> /\ DOMAIN api_fifo = {} /\ bm_send_api_seq = 0
      /\ \A t \in Threads : pc[t] = "idle"
      /\ handler.on = "none"
      /\ \A h \in Handles : /\ h_cpl_api_seq[h] = 0
                            /\ \A t \in Threads : cpl_api_seq[<<h, t>>] = 0
  BY DEF Init
<1>2. DOMAIN ring["XPU"] = {}
  BY <1>1
<1>3. CpuUnused
  BY <1>1 DEF CpuUnused, Sending
<1>4. CompletedInv
  BY <1>1 DEF CompletedInv, SendsOn, Sending
<1>5. SyncInv
  BY <1>1, <1>2 DEF SyncInv
<1> QED
  BY <1>3, <1>4, <1>5 DEF OrderInv

LEMMA OrderStep ==
  ASSUME NoCpu, Core, OrderInv, [Next]_vars
  PROVE  OrderInv'
<1>1. Core'
  BY CoreStep
<1>2. CpuUnused'
  BY CpuUnusedStep DEF Core, OrderInv
<1>3. CompletedInv'
  BY <1>1, <1>2, CompletedStep DEF Core, OrderInv
<1>4. SyncInv'
  BY SyncStep DEF Core, OrderInv
<1> QED
  BY <1>2, <1>3, <1>4 DEF OrderInv

(* When no thread sends on the CPU channel, numbers complete in the order in *)
(* which they were drawn.                                                    *)
THEOREM OrderInvariant ==
  ASSUME NoCpu
  PROVE  Spec => [](Core /\ OrderInv)
<1>1. Init => Core /\ OrderInv
  BY CoreInit, OrderInit
<1>2. (Core /\ OrderInv) /\ [Next]_vars => (Core /\ OrderInv)'
  <2> SUFFICES ASSUME Core, OrderInv, [Next]_vars
               PROVE  Core' /\ OrderInv'
    OBVIOUS
  <2> QED
    BY CoreStep, OrderStep
<1> QED
  BY <1>1, <1>2, PTL DEF Spec

(* A sync that is about to return 0 is owed nothing any more.                *)
LEMMA NothingOwed ==
  ASSUME Core, OrderInv, NEW t \in Threads, pc[t] \in {"ret_thread", "ret_handle"}
  PROVE  Kept(t)
<1>1. SUFFICES ASSUME NEW x \in loc[t].owed, NEW m \in Outstanding, m.seq = x
               PROVE  FALSE
  BY DEF Kept, SeqsOf
<1>2. PICK i \in DOMAIN ring["XPU"] : ring["XPU"][i] = m
  BY OutstandingInRing DEF Core, OrderInv
<1> QED
  BY <1>1, <1>2 DEF OrderInv, SyncInv

(* bm_thread_sync returns 0 only when what the thread had sent on the handle *)
(* before it called has been executed.                                       *)
THEOREM ThreadSyncsSound ==
  ASSUME NoCpu
  PROVE  Spec => []ThreadSyncSound
<1>1. Core /\ OrderInv => ThreadSyncSound
  BY NothingOwed DEF ThreadSyncSound
<1> QED
  BY <1>1, OrderInvariant, PTL

(* The same for bm_handle_sync and all that had been sent on the handle;     *)
(* with the CPU channel in use it is violated.                               *)
THEOREM HandleSyncsSound ==
  ASSUME NoCpu
  PROVE  Spec => []HandleSyncSound
<1>1. Core /\ OrderInv => HandleSyncSound
  BY NothingOwed DEF HandleSyncSound
<1> QED
  BY <1>1, OrderInvariant, PTL

(* No step takes the completion numbers of an open handle back.              *)
LEMMA NeverBack ==
  ASSUME Core, OrderInv, [Next]_vars, NEW h \in handle_list \cap handle_list'
  PROVE  /\ h_cpl_api_seq'[h] >= h_cpl_api_seq[h]
         /\ \A t \in Threads : <<h, t>> \in threads =>
              cpl_api_seq'[<<h, t>>] >= cpl_api_seq[<<h, t>>]
<1> USE NumberTypes
<1> DEFINE Goal == /\ h_cpl_api_seq'[h] >= h_cpl_api_seq[h]
                   /\ \A t \in Threads : <<h, t>> \in threads =>
                        cpl_api_seq'[<<h, t>>] >= cpl_api_seq[<<h, t>>]
<1>0. TypeOK /\ CallsInv /\ h \in Handles
  BY DEF Core, TypeOK
<1>t. /\ h_cpl_api_seq[h] \in Nat
      /\ \A t \in Threads : cpl_api_seq[<<h, t>>] \in Nat
  BY <1>0 DEF TypeOK
<1>1. ASSUME h_cpl_api_seq'[h] = h_cpl_api_seq[h],
             \A t \in Threads : <<h, t>> \in threads =>
               cpl_api_seq'[<<h, t>>] = cpl_api_seq[<<h, t>>]
      PROVE  Goal
  BY <1>1, <1>t
<1> HIDE DEF Goal
<1>2. ASSUME NEW u \in Threads, NEW g \in Handles, Open(u, g)
      PROVE  Goal
  <2>1. h # g
    BY <1>2 DEF Open
  <2> QED
    BY <1>0, <1>1, <1>2, <2>1 DEF Open, CreateThreadInfo, TypeOK
<1>3. ASSUME NEW u \in Threads, NEW g \in Handles, NEW c \in Channels, SendApi(u, g, c)
      PROVE  Goal
  <2>1. h_cpl_api_seq' = h_cpl_api_seq
    BY <1>3 DEF SendApi, handles
  <2>2. CASE UNCHANGED thds
    BY <1>1, <2>1, <2>2 DEF thds
  <2>3. CASE <<g, u>> \notin threads /\ CreateThreadInfo(<<g, u>>)
    BY <1>0, <1>1, <2>1, <2>3 DEF CreateThreadInfo, TypeOK
  <2> QED
    BY <1>3, <2>2, <2>3 DEF SendApi
<1>4. ASSUME NEW u \in Threads, CloseFree(u)
      PROVE  Goal
  <2>1. h # loc[u].h
    BY <1>4 DEF CloseFree
  <2>2. h_cpl_api_seq'[h] = h_cpl_api_seq[h]
    BY <1>0, <1>4, <2>1 DEF CloseFree, TypeOK
  <2>3. \A t \in Threads : cpl_api_seq'[<<h, t>>] = cpl_api_seq[<<h, t>>]
    BY <1>0, <1>4, <2>1 DEF CloseFree, TypeOK
  <2> QED
    BY <1>1, <2>2, <2>3
<1>5. ASSUME NEW u \in Threads, RecordSeq(u) \/ Fail(u)
      PROVE  Goal
  BY <1>1, <1>5 DEF RecordSeq, Fail, GiveUp, handles
<1>6. ASSUME UNCHANGED <<handles, thds>>
      PROVE  Goal
  BY <1>1, <1>6 DEF handles, thds
<1>7. ASSUME XpuApi
      PROVE  Goal
  <2>1. /\ Head(api_fifo) = api_fifo[1] /\ ~IsMarker(api_fifo[1])
        /\ api_fifo[1] \in Entries /\ 1 \in DOMAIN api_fifo
    <3>1. TypeOK /\ EntriesMatchMessages /\ InterruptsInv
      BY DEF Core
    <3> QED
      BY <1>7, <3>1, HeadMatches, ListTypes, TailPicks
  <2>2. \/ UNCHANGED <<cpl_api_seq, h_cpl_api_seq>>
        \/ /\ api_fifo[1].h \in handle_list
           /\ cpl_api_seq' = [cpl_api_seq EXCEPT
                                ![<<api_fifo[1].h, api_fifo[1].t>>] = api_fifo[1].seq]
           /\ h_cpl_api_seq' = [h_cpl_api_seq EXCEPT
                                  ![api_fifo[1].h] = api_fifo[1].seq]
    BY <1>7, <2>1 DEF XpuApi, ApiDone
  <2>3. CASE UNCHANGED <<cpl_api_seq, h_cpl_api_seq>>
    BY <1>1, <2>3
  <2>4. ASSUME api_fifo[1].h \in handle_list,
               cpl_api_seq' = [cpl_api_seq EXCEPT
                                 ![<<api_fifo[1].h, api_fifo[1].t>>] = api_fifo[1].seq],
               h_cpl_api_seq' = [h_cpl_api_seq EXCEPT
                                   ![api_fifo[1].h] = api_fifo[1].seq]
        PROVE  Goal
    <3> DEFINE e == api_fifo[1]
    <3>1. e.h \in Handles /\ e.t \in Threads /\ e.seq \in Nat
      BY <2>1, EntryFacts
    <3>2. h_cpl_api_seq[e.h] < e.seq /\ cpl_api_seq[<<e.h, e.t>>] < e.seq
      BY <2>1, <2>4 DEF OrderInv, CompletedInv, Between
    <3>3. h_cpl_api_seq'[h] >= h_cpl_api_seq[h]
      <4>1. h_cpl_api_seq'[h] = IF h = e.h THEN e.seq ELSE h_cpl_api_seq[h]
        BY <1>0, <2>4, <3>1 DEF TypeOK
      <4> QED
        BY <1>t, <3>1, <3>2, <4>1
    <3>4. ASSUME NEW t \in Threads
          PROVE  cpl_api_seq'[<<h, t>>] >= cpl_api_seq[<<h, t>>]
      <4>1. cpl_api_seq'[<<h, t>>] =
              IF <<h, t>> = <<e.h, e.t>> THEN e.seq ELSE cpl_api_seq[<<h, t>>]
        BY <1>0, <2>4, <3>1 DEF TypeOK
      <4>2. CASE <<h, t>> = <<e.h, e.t>>
        BY <1>t, <3>1, <3>2, <4>1, <4>2
      <4> QED
        BY <1>t, <4>1, <4>2
    <3> QED
      BY <3>3, <3>4 DEF Goal
  <2> QED
    BY <2>2, <2>3, <2>4
<1>8. Goal
  BY <1>0, <1>2, <1>3, <1>4, <1>5, <1>6, <1>7, HandleSteps DEF OrderInv
<1> QED
  BY <1>8 DEF Goal

(* The numbers that syncs compare, h_cpl_api_seq of a handle and cpl_api_seq *)
(* of its threads, never go back while the handle is open.                   *)
THEOREM CompletionsInOrder ==
  ASSUME NoCpu
  PROVE  Spec => CompletionInOrder
<1>1. Core /\ OrderInv /\ [Next]_vars =>
        [\A h \in handle_list \cap handle_list' :
           /\ h_cpl_api_seq'[h] >= h_cpl_api_seq[h]
           /\ \A t \in Threads : <<h, t>> \in threads =>
                cpl_api_seq'[<<h, t>>] >= cpl_api_seq[<<h, t>>]]_vars
  BY NeverBack
<1> QED
  BY <1>1, OrderInvariant, PTL DEF Spec, CompletionInOrder
=============================================================================
