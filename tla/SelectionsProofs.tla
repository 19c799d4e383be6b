-------------------------- MODULE SelectionsProofs --------------------------
(***************************************************************************)
(* What holds of asking for and sending a selection, for any number of     *)
(* programs, selections and types, and data of any length, as long as no   *)
(* program asks while somebody still answers a request on which it gave up *)
(* (~ Overlaps).                                                           *)
(***************************************************************************)
EXTENDS Selections, CursorLemmas, WellFoundedInduction

Free(s, E)      == \A i \in DOMAIN s : s[i] \notin E
Single(s, E)    == \A i, j \in DOMAIN s : s[i] \in E /\ s[j] \in E => i = j
Behind(s, E, F) == \A i, j \in DOMAIN s : i < j => ~ (s[i] \in E /\ s[j] \in F)

\* t is what is left of s, in order, and perhaps an event of E after it.
From(t, s, E) ==
    \E f \in [DOMAIN t -> Nat] :
        /\ \A i, j \in DOMAIN t : i < j => f[i] < f[j]
        /\ \A i \in DOMAIN t : \/ f[i] \in DOMAIN s /\ t[i] = s[f[i]]
                               \/ i = Len(t) /\ t[i] \in E

\* A sequence has a length, indices up to it, and elements of its set.
LEMMA SeqFacts ==
    ASSUME NEW S, NEW s \in Seq(S)
    PROVE  Len(s) \in Nat /\ DOMAIN s = 1 .. Len(s) /\ \A i \in DOMAIN s : s[i] \in S
BY LenProperties, ElementOfSeq

\* What may be added to s is not of F: t is free of F if s is.
LEMMA FreeKept ==
    ASSUME NEW S, NEW s \in Seq(S), NEW t \in Seq(S), NEW E, NEW F,
           From(t, s, E), E \cap F = {}, Free(s, F)
    PROVE  Free(t, F)
BY DEF From, Free

\* What is in t and not new was in s.
LEMMA FoundBefore ==
    ASSUME NEW S, NEW s \in Seq(S), NEW t \in Seq(S), NEW E,
           From(t, s, E), NEW i \in DOMAIN t, t[i] \notin E
    PROVE  \E j \in DOMAIN s : s[j] = t[i]
BY DEF From

\* There is still at most one of F if s had at most one and none is added, or had none.
LEMMA SingleKept ==
    ASSUME NEW S, NEW s \in Seq(S), NEW t \in Seq(S), NEW E, NEW F,
           From(t, s, E), E \cap F = {} \/ Free(s, F), Single(s, F)
    PROVE  Single(t, F)
<1>1. PICK f \in [DOMAIN t -> Nat] :
        /\ \A i, j \in DOMAIN t : i < j => f[i] < f[j]
        /\ \A i \in DOMAIN t : \/ f[i] \in DOMAIN s /\ t[i] = s[f[i]]
                               \/ i = Len(t) /\ t[i] \in E
  BY DEF From
<1>2. DOMAIN t = 1 .. Len(t) /\ Len(t) \in Nat
  BY SeqFacts
<1>3. SUFFICES ASSUME NEW i \in DOMAIN t, NEW j \in DOMAIN t, t[i] \in F, t[j] \in F, i < j
               PROVE  FALSE
  <2>1. \A i, j \in DOMAIN t : i < j \/ j < i \/ i = j
    BY <1>2
  <2> QED
    BY <1>3, <2>1 DEF Single
<1>4. f[i] \in DOMAIN s /\ t[i] = s[f[i]]
  BY <1>1, <1>2, <1>3
<1>5. CASE f[j] \in DOMAIN s /\ t[j] = s[f[j]]
  <2>1. f[i] < f[j] /\ f[i] \in Nat /\ f[j] \in Nat
    BY <1>1, <1>3
  <2>2. f[i] = f[j]
    BY <1>3, <1>4, <1>5 DEF Single
  <2> QED
    BY <2>1, <2>2
<1>6. CASE t[j] \in E
  BY <1>3, <1>4, <1>6 DEF Free
<1> QED
  BY <1>1, <1>5, <1>6

\* Nothing of G comes behind something of F if it did not in s and none is added, or s had none of F.
LEMMA BehindKept ==
    ASSUME NEW S, NEW s \in Seq(S), NEW t \in Seq(S), NEW E, NEW F, NEW G,
           From(t, s, E), E \cap G = {} \/ Free(s, F), Behind(s, F, G)
    PROVE  Behind(t, F, G)
<1>1. PICK f \in [DOMAIN t -> Nat] :
        /\ \A i, j \in DOMAIN t : i < j => f[i] < f[j]
        /\ \A i \in DOMAIN t : \/ f[i] \in DOMAIN s /\ t[i] = s[f[i]]
                               \/ i = Len(t) /\ t[i] \in E
  BY DEF From
<1>2. DOMAIN t = 1 .. Len(t) /\ Len(t) \in Nat
  BY SeqFacts
<1>3. SUFFICES ASSUME NEW i \in DOMAIN t, NEW j \in DOMAIN t, t[i] \in F, t[j] \in G, i < j
               PROVE  FALSE
  BY DEF Behind
<1>4. f[i] \in DOMAIN s /\ t[i] = s[f[i]]
  BY <1>1, <1>2, <1>3
<1>5. CASE f[j] \in DOMAIN s /\ t[j] = s[f[j]]
  BY <1>1, <1>3, <1>4, <1>5 DEF Behind
<1>6. CASE t[j] \in E
  BY <1>3, <1>4, <1>6 DEF Free
<1> QED
  BY <1>1, <1>5, <1>6

\* Nothing happened to s.
LEMMA FromSame ==
    ASSUME NEW S, NEW s \in Seq(S), NEW E
    PROVE  From(s, s, E)
<1> DEFINE f == [i \in DOMAIN s |-> i]
<1>1. f \in [DOMAIN s -> Nat]
  BY SeqFacts
<1> QED
  BY <1>1 DEF From

\* All of s was taken out.
LEMMA FromEmpty ==
    ASSUME NEW S, NEW s \in Seq(S), NEW E
    PROVE  From(<<>>, s, E)
<1> DEFINE f == [i \in DOMAIN <<>> |-> 0]
<1>1. f \in [DOMAIN <<>> -> Nat]
  OBVIOUS
<1>2. DOMAIN <<>> = {}
  OBVIOUS
<1> QED
  BY <1>1, <1>2 DEF From

\* Something was added to s.
LEMMA FromAppend ==
    ASSUME NEW S, NEW s \in Seq(S), NEW E, NEW e \in S, e \in E
    PROVE  Append(s, e) \in Seq(S) /\ From(Append(s, e), s, E)
<1> DEFINE t == Append(s, e)
           f == [i \in DOMAIN t |-> i]
<1>1. /\ t \in Seq(S) /\ Len(t) = Len(s) + 1
      /\ t[Len(s) + 1] = e /\ \A i \in 1 .. Len(s) : t[i] = s[i]
  BY AppendProperties
<1>2. /\ DOMAIN t = 1 .. Len(s) + 1 /\ DOMAIN s = 1 .. Len(s) /\ Len(s) \in Nat
  BY <1>1, SeqFacts
<1> HIDE DEF t
<1>3. f \in [DOMAIN t -> Nat]
  BY <1>2
<1>4. \A i \in DOMAIN t : f[i] = i
  OBVIOUS
<1>5. \A i \in DOMAIN t : \/ f[i] \in DOMAIN s /\ t[i] = s[f[i]]
                          \/ i = Len(t) /\ t[i] \in E
  BY <1>1, <1>2, <1>4
<1> HIDE DEF f
<1>6. From(t, s, E)
  BY <1>3, <1>4, <1>5 DEF From
<1> QED
  BY <1>1, <1>6 DEF t

\* Something was taken out of s.
LEMMA FromRemove ==
    ASSUME NEW S, NEW s \in Seq(S), NEW E, NEW k \in DOMAIN s
    PROVE  RemoveAt(s, k) \in Seq(S) /\ From(RemoveAt(s, k), s, E)
<1> DEFINE t == RemoveAt(s, k)
           f == [i \in DOMAIN t |-> IF i < k THEN i ELSE i + 1]
<1>1. DOMAIN s = 1 .. Len(s) /\ Len(s) \in Nat
  BY SeqFacts
<1>2. /\ t \in Seq(S) /\ Len(t) = Len(s) - 1
      /\ \A j \in 1 .. Len(s) - 1 : t[j] = IF j < k THEN s[j] ELSE s[j + 1]
  BY <1>1, RemoveAtProperties
<1>3. DOMAIN t = 1 .. Len(s) - 1
  BY <1>2, SeqFacts
<1> HIDE DEF t
<1>4. f \in [DOMAIN t -> Nat]
  BY <1>1, <1>3
<1>5. \A i \in DOMAIN t : f[i] = IF i < k THEN i ELSE i + 1
  OBVIOUS
<1>6. \A i \in DOMAIN t : f[i] \in DOMAIN s /\ t[i] = s[f[i]]
  BY <1>1, <1>2, <1>3, <1>5
<1>7. \A i, j \in DOMAIN t : i < j => f[i] < f[j]
  BY <1>1, <1>3, <1>5
<1> HIDE DEF f
<1>8. From(t, s, E)
  BY <1>4, <1>6, <1>7 DEF From
<1> QED
  BY <1>2, <1>8 DEF t

\* Of a kind of which there is one, the one taken out was it.
LEMMA RemoveTheOne ==
    ASSUME NEW S, NEW s \in Seq(S), NEW F, NEW k \in DOMAIN s, s[k] \in F, Single(s, F)
    PROVE  Free(RemoveAt(s, k), F)
<1> DEFINE t == RemoveAt(s, k)
<1>1. DOMAIN s = 1 .. Len(s) /\ Len(s) \in Nat
  BY SeqFacts
<1>2. /\ t \in Seq(S) /\ Len(t) = Len(s) - 1
      /\ \A j \in 1 .. Len(s) - 1 : t[j] = IF j < k THEN s[j] ELSE s[j + 1]
  BY <1>1, RemoveAtProperties
<1>3. DOMAIN t = 1 .. Len(s) - 1
  BY <1>2, SeqFacts
<1> HIDE DEF t
<1>4. \A j \in DOMAIN t : \E i \in DOMAIN s : i # k /\ t[j] = s[i]
  <2> SUFFICES ASSUME NEW j \in DOMAIN t
               PROVE  \E i \in DOMAIN s : i # k /\ t[j] = s[i]
    OBVIOUS
  <2>1. CASE j < k
    BY <2>1, <1>1, <1>2, <1>3
  <2>2. CASE ~ (j < k)
    <3>1. j + 1 \in DOMAIN s /\ j + 1 # k /\ t[j] = s[j + 1]
      BY <2>2, <1>1, <1>2, <1>3
    <3> QED
      BY <3>1
  <2> QED
    BY <2>1, <2>2
<1>5. Free(t, F)
  BY <1>4 DEF Free, Single
<1> QED
  BY <1>5 DEF t

\* To take the first element is to take out that at index 1.
LEMMA TailRemoves ==
    ASSUME NEW S, NEW s \in Seq(S), s # <<>>
    PROVE  /\ 1 \in DOMAIN s /\ Head(s) = s[1] /\ Head(s) \in S
           /\ Tail(s) \in Seq(S)
           /\ Tail(s) = RemoveAt(s, 1)
<1>1. DOMAIN s = 1 .. Len(s) /\ Len(s) \in Nat /\ Len(s) >= 1
  BY SeqFacts, EmptySeq
<1>2. /\ Head(s) = s[1] /\ Head(s) \in S /\ Tail(s) \in Seq(S) /\ Len(Tail(s)) = Len(s) - 1
      /\ \A i \in 1 .. Len(Tail(s)) : Tail(s)[i] = s[i + 1]
  BY HeadTailProperties
<1>3. /\ RemoveAt(s, 1) \in Seq(S) /\ Len(RemoveAt(s, 1)) = Len(s) - 1
      /\ \A j \in 1 .. Len(s) - 1 : RemoveAt(s, 1)[j] = IF j < 1 THEN s[j] ELSE s[j + 1]
  <2>1. 1 \in 1 .. Len(s)
    BY <1>1
  <2> QED
    BY <2>1, RemoveAtProperties
<1>4. Tail(s) = RemoveAt(s, 1)
  <2> DEFINE t == Tail(s)
             u == RemoveAt(s, 1)
  <2>1. t \in Seq(S) /\ u \in Seq(S) /\ Len(t) = Len(u)
    BY <1>2, <1>3
  <2>2. \A i \in 1 .. Len(t) : t[i] = u[i]
    BY <1>1, <1>2, <1>3
  <2> HIDE DEF t, u
  <2>3. t = u
    BY <2>1, <2>2, SeqEqual
  <2> QED
    BY <2>3 DEF t, u
<1> QED
  BY <1>1, <1>2, <1>4

\* The least element of a set of numbers is one of it.
LEMMA MinOf ==
    ASSUME NEW I \in SUBSET Nat, I # {}
    PROVE  Min(I) \in I
<1>1. PICK x \in I : \A y \in I : ~ (<<y, x>> \in OpToRel(<, Nat))
  BY NatLessThanWellFounded, WFMin
<1>2. \A y \in I : ~ (y < x)
  BY <1>1 DEF OpToRel
<1>3. \A y \in I : x <= y
  BY <1>2
<1> QED
  BY <1>3 DEF Min


-----------------------------------------------------------------------------
(* The invariant.                                                          *)

Taking   == {"discard", "fetch", "sender", "select", "receive", "read"}
InChunks == {"sender", "select", "receive", "read"}
Watching == {"select", "receive", "read", "unselect"}
Early    == {"whole", "notify", "announce", "invite"}
Late     == {"invited", "sent", "send"}
Heard    == {"invite", "invited", "sent", "send", "finish"}
Ending   == {"unselect", "return"}

Kinds   == DOMAIN Length
Sels     == Selections \cup {None}

Requests(p)  == {SelectionRequest(p, s, t) : s \in Sels, t \in Kinds}
Notices      == {SelectionNotify(s, t, ok) : s \in Sels, t \in Kinds, ok \in BOOLEAN}
Deletions    == {Deleted(w) : w \in Programs}
Destructions == {Destroyed(w) : w \in Programs}
Events       == {SelectionRequest(p, s, t) : p \in Programs, s \in Sels, t \in Kinds}
                   \cup Notices \cup {NewValue} \cup Deletions \cup Destructions

Unit       == Programs \X Kinds \X Nat
Properties == [kind : {"none", "INCR", "data"}, units : Seq(Unit)]

Activities ==
    [pc : {"idle", "finish"} \cup Asking \cup Sending \cup Ending,
     peer : Programs \cup {None}, sel : Sels, type : Kinds, data : Seq(Unit),
     left : Nat, chunk : 0 .. MaxChunk, ok : BOOLEAN, failed : BOOLEAN]

Types ==
    /\ owner \in [Selections -> Programs \cup {None}]
    /\ prop \in [Programs -> Properties]
    /\ selected \in [Programs -> [Programs -> SUBSET {"property", "structure"}]]
    /\ queue \in [Programs -> Seq(Events)]
    /\ act \in [Programs -> Activities]
    /\ maxChunk \in [Programs -> 1 .. MaxChunk]
    /\ alive \in [Programs -> BOOLEAN]
    /\ asked \in [Programs -> Programs \cup {None}]
    /\ excused \in [Programs -> BOOLEAN]
    /\ faults \in [deaths : Nat, allocErrors : Nat]

\* The server and the programs that have died.
Graves ==
    /\ \A s \in Selections : owner[s] # None => alive[owner[s]]
    /\ \A p, w \in Programs : alive[w] => Free(queue[p], {Destroyed(w)})
    /\ \A p \in Programs : ~ alive[p] =>
          /\ act[p] = Idle /\ queue[p] = <<>> /\ prop[p] = NoProperty
          /\ \A q \in Programs : selected[q][p] = {}

Peers ==
    \A p \in Programs :
        /\ act[p].pc \in Sending \cup {"finish"} \cup Watching => act[p].peer \in Programs \ {p}
        /\ act[p].pc \in Asking => act[p].sel \in Selections /\ owner[act[p].sel] # p

Sender(q, p) == act[q].pc \in Sending /\ act[q].peer = p

\* A request is in one place: on its way, in the hands of one sender, or answered.
Lone(p) ==
    /\ \A q \in Programs : Single(queue[q], Requests(p))
    /\ \A q, r \in Programs : Free(queue[q], Requests(p)) \/ Free(queue[r], Requests(p)) \/ q = r
    /\ \A q \in Programs : ~ Free(queue[q], Requests(p)) =>
          q # p /\ Free(queue[p], Notices) /\ \A r \in Programs : ~ Sender(r, p)
    /\ \A q, r \in Programs : Sender(q, p) /\ Sender(r, p) => q = r
    /\ \A q \in Programs : Sender(q, p) /\ act[q].pc \in Early => Free(queue[p], Notices)
    /\ Single(queue[p], Notices)
    /\ act[p].pc \in Taking =>
          /\ Free(queue[p], Notices)
          /\ \A q \in Programs : Free(queue[q], Requests(p))
          /\ \A q \in Programs : Sender(q, p) => act[q].pc \in Late

Listens(p) ==
    \A q \in Programs :
        /\ "property" \in selected[q][p] => act[q].peer = p /\ act[q].pc \in Heard
        /\ Behind(queue[q], Requests(p), {Deleted(p)})
        /\ Sender(q, p) => Single(queue[q], {Deleted(p)})

Undeleted(q, p) == Free(queue[q], {Deleted(p)})

\* What a sender has done, and whether p has taken it.
Phase(q, p) ==
    LET f == act[q]
        all == Length[f.type]
    IN  /\ f.left <= all /\ f.chunk >= 1
        /\ f.pc \in Early => Undeleted(q, p) /\ f.left = all
        /\ f.pc = "notify" /\ alive[p] => prop[p] = Data(Contents(q, f.type))
        /\ f.pc = "invite" /\ alive[p] => prop[p] = Incr(q, f.type)
        /\ f.pc = "invited" =>
             /\ f.left = all
             /\ prop[p] = NoProperty \/ (prop[p] = Incr(q, f.type) /\ Undeleted(q, p))
        /\ f.pc = "send" => Undeleted(q, p) /\ prop[p] = NoProperty
        /\ f.pc = "sent" /\ f.failed => Undeleted(q, p) /\ prop[p] = NoProperty
        /\ f.pc = "sent" /\ ~ f.failed =>
             /\ f.chunk <= f.left
             /\ \/ prop[p] = NoProperty
                \/ /\ prop[p] = Data(Units(q, f.type, all - f.left, f.chunk))
                   /\ Undeleted(q, p)
        /\ f.pc # "sent" => ~ f.failed

Phases(p) == \A q \in Programs : Sender(q, p) => Phase(q, p)

Offered(p) ==
    \/ /\ prop[p] = Data(Contents(asked[p], act[p].type))
       /\ \A q \in Programs : ~ Sender(q, p)
    \/ prop[p] = Incr(asked[p], act[p].type)

\* What is on its way to p is what it asked for last.
Mine(p) ==
    act[p].pc \in Asking =>
        /\ ~ act[p].ok
        /\ \A q \in Programs : \A k \in DOMAIN queue[q] : queue[q][k] \in Requests(p) =>
              queue[q][k] = SelectionRequest(p, act[p].sel, act[p].type) /\ q = asked[p]
        /\ \A q \in Programs : Sender(q, p) =>
              q = asked[p] /\ act[q].sel = act[p].sel /\ act[q].type = act[p].type
        /\ \A k \in DOMAIN queue[p] : queue[p][k] \in Notices =>
              /\ queue[p][k].sel = act[p].sel /\ queue[p][k].type = act[p].type
              /\ queue[p][k].ok => Offered(p)
        /\ act[p].pc \in {"discard", "fetch"} => Offered(p)
        /\ act[p].pc \in {"asked", "discard", "fetch", "sender"} => act[p].data = <<>>

Got(p) == Len(act[p].data)

\* What p has received, the chunk it has not read, and what the sender has yet to send.
Partly(p) ==
    LET t == act[p].type
        all == Length[t]
    IN  act[p].pc \in InChunks =>
        /\ act[p].data = Units(asked[p], t, 0, Got(p)) /\ Got(p) <= all
        /\ \/ prop[p] = NoProperty
           \/ prop[p] = Data(<<>>) /\ Got(p) = all
           \/ \E m \in 1 .. all : Got(p) + m <= all /\ prop[p] = Data(Units(asked[p], t, Got(p), m))
        /\ \A q \in Programs : Sender(q, p) =>
             /\ act[q].pc = "invited" => prop[p] = NoProperty /\ Got(p) = 0
             /\ act[q].pc = "send" => Got(p) = all - act[q].left
             /\ act[q].pc = "sent" =>
                  Got(p) = all - act[q].left +
                      (IF prop[p] = NoProperty /\ ~ act[q].failed THEN act[q].chunk ELSE 0)

Answers(p) ==
    act[p].pc \in Ending /\ act[p].ok => act[p].data = Contents(asked[p], act[p].type)

\* An event tells of each new chunk, and only of one that is there.
News(p) ==
    /\ act[p].pc \in {"discard"} \cup InChunks => act[p].type # TypeList
    /\ act[p].pc = "fetch" /\ act[p].type # TypeList => Free(queue[p], {NewValue})
    /\ act[p].pc \in InChunks =>
         /\ Single(queue[p], {NewValue})
         /\ prop[p] = NoProperty => Free(queue[p], {NewValue})
    /\ act[p].pc = "read" => Free(queue[p], {NewValue}) /\ prop[p] # NoProperty

Large(t) == t # TypeList /\ Length[t] >= 1

\* Only what does not fit into one chunk is sent in chunks to p, ...
Fits(p) ==
    \A q \in Programs : Sender(q, p) /\ act[q].pc \notin {"whole", "notify"} => Large(act[q].type)

\* ... p has not been refused, ...
Granted(p) ==
    \A k \in DOMAIN queue[p] : queue[p][k] \in Notices =>
        queue[p][k].ok /\ (prop[p].kind = "INCR" => Large(act[p].type))

\* ... and the program it listens to is there.
Ready(p) ==
    /\ act[p].pc \in {"discard", "fetch"} /\ prop[p].kind = "INCR" => Large(act[p].type)
    /\ act[p].pc \in InChunks => Large(act[p].type)
    /\ act[p].pc \in {"select", "receive", "read"} => alive[act[p].peer]

\* Unless there is a reason to fail, nothing is in the way of p.
Excuses(p) ==
    /\ act[p].pc \in Ending => act[p].ok \/ excused[p]
    /\ act[p].pc \in Asking /\ ~ excused[p] =>
         owner[act[p].sel] # None /\ Fits(p) /\ Granted(p) /\ Ready(p)

Turn(p) == Lone(p) /\ Listens(p) /\ Phases(p) /\ Mine(p)

Transfer(p) == Partly(p) /\ Answers(p) /\ News(p)

Inv == Types /\ Graves /\ Peers /\ \A p \in Programs : Turn(p) /\ Transfer(p)

Reasons == \A p \in Programs : Excuses(p)

-----------------------------------------------------------------------------
(* Events and queues.                                                      *)

\* An event is known by what it is.
LEMMA EventKinds ==
    /\ \A p \in Programs, s \in Sels, t \in Kinds :
          SelectionRequest(p, s, t) \in Requests(p) /\ SelectionRequest(p, s, t) \in Events
    /\ \A s \in Sels, t \in Kinds, ok \in BOOLEAN :
          SelectionNotify(s, t, ok) \in Notices /\ SelectionNotify(s, t, ok) \in Events
    /\ NewValue \in Events
    /\ \A w \in Programs : Deleted(w) \in Events /\ Destroyed(w) \in Events
    /\ \A e \in Events : e.is = "SelectionNotify" => e \in Notices
    /\ \A e \in Events : e.is = "SelectionRequest" =>
          /\ e.from \in Programs /\ e.sel \in Sels /\ e.type \in Kinds
          /\ e \in Requests(e.from) /\ e = SelectionRequest(e.from, e.sel, e.type)
    /\ \A p : \A e \in Requests(p) : e.is = "SelectionRequest" /\ e.from = p
    /\ \A e \in Notices : /\ e.is = "SelectionNotify"
                          /\ e.sel \in Sels /\ e.type \in Kinds /\ e.ok \in BOOLEAN
                          /\ e = SelectionNotify(e.sel, e.type, e.ok)
    /\ NewValue.is = "NewValue"
    /\ \A w : Deleted(w).is = "Deleted" /\ Deleted(w).window = w
    /\ \A w : Destroyed(w).is = "DestroyNotify" /\ Destroyed(w).window = w
<1>1. /\ NewValue.is = "NewValue"
      /\ \A w : Deleted(w).is = "Deleted" /\ Deleted(w).window = w
      /\ \A w : Destroyed(w).is = "DestroyNotify" /\ Destroyed(w).window = w
  BY DEF NewValue, Deleted, Destroyed
<1>2. \A p, s, t : /\ SelectionRequest(p, s, t).is = "SelectionRequest"
                   /\ SelectionRequest(p, s, t).from = p
                   /\ SelectionRequest(p, s, t).sel = s
                   /\ SelectionRequest(p, s, t).type = t
  BY DEF SelectionRequest
<1>3. \A s, t, ok : /\ SelectionNotify(s, t, ok).is = "SelectionNotify"
                    /\ SelectionNotify(s, t, ok).sel = s
                    /\ SelectionNotify(s, t, ok).type = t
                    /\ SelectionNotify(s, t, ok).ok = ok
  BY DEF SelectionNotify
<1>4. \A p : \A e \in Requests(p) :
        /\ e.is = "SelectionRequest" /\ e.from = p
        /\ e.sel \in Sels /\ e.type \in Kinds /\ e = SelectionRequest(p, e.sel, e.type)
  BY <1>2 DEF Requests
<1>5. \A e \in Notices : /\ e.is = "SelectionNotify"
                         /\ e.sel \in Sels /\ e.type \in Kinds /\ e.ok \in BOOLEAN
                         /\ e = SelectionNotify(e.sel, e.type, e.ok)
  BY <1>3 DEF Notices
<1>6. /\ \A p \in Programs, s \in Sels, t \in Kinds :
            SelectionRequest(p, s, t) \in Requests(p) /\ SelectionRequest(p, s, t) \in Events
      /\ \A s \in Sels, t \in Kinds, ok \in BOOLEAN :
            SelectionNotify(s, t, ok) \in Notices /\ SelectionNotify(s, t, ok) \in Events
  BY DEF Requests, Notices, Events
<1>7. /\ NewValue \in Events
      /\ \A w \in Programs : Deleted(w) \in Events /\ Destroyed(w) \in Events
  BY DEF Events, Deletions, Destructions
<1>8. \A e \in Events : \/ \E p \in Programs : e \in Requests(p)
                        \/ e \in Notices
                        \/ e = NewValue
                        \/ \E w \in Programs : e = Deleted(w) \/ e = Destroyed(w)
  BY DEF Events, Requests, Deletions, Destructions
<1>9. \A e \in Events : e.is = "SelectionNotify" => e \in Notices
  BY <1>1, <1>4, <1>8
<1>10. \A e \in Events : e.is = "SelectionRequest" =>
          /\ e.from \in Programs /\ e.sel \in Sels /\ e.type \in Kinds
          /\ e \in Requests(e.from) /\ e = SelectionRequest(e.from, e.sel, e.type)
  BY <1>1, <1>4, <1>5, <1>8
<1> QED
  BY <1>1, <1>4, <1>5, <1>6, <1>7, <1>9, <1>10

\* The events of e are of no other kind.
LEMMA Apart ==
    /\ \A p, s, t : /\ {SelectionRequest(p, s, t)} \cap Notices = {}
                    /\ {SelectionRequest(p, s, t)} \cap {NewValue} = {}
                    /\ \A w : {SelectionRequest(p, s, t)} \cap {Deleted(w)} = {}
                    /\ \A w : {SelectionRequest(p, s, t)} \cap {Destroyed(w)} = {}
                    /\ \A w : w # p => {SelectionRequest(p, s, t)} \cap Requests(w) = {}
    /\ \A s, t, ok : /\ {SelectionNotify(s, t, ok)} \cap {NewValue} = {}
                     /\ \A w : {SelectionNotify(s, t, ok)} \cap {Deleted(w)} = {}
                     /\ \A w : {SelectionNotify(s, t, ok)} \cap {Destroyed(w)} = {}
                     /\ \A w : {SelectionNotify(s, t, ok)} \cap Requests(w) = {}
    /\ {NewValue} \cap Notices = {}
    /\ \A w : {NewValue} \cap {Deleted(w)} = {}
    /\ \A w : {NewValue} \cap {Destroyed(w)} = {}
    /\ \A w : {NewValue} \cap Requests(w) = {}
    /\ \A p : /\ {Deleted(p)} \cap Notices = {}
              /\ {Deleted(p)} \cap {NewValue} = {}
              /\ \A w : w # p => {Deleted(p)} \cap {Deleted(w)} = {}
              /\ \A w : {Deleted(p)} \cap {Destroyed(w)} = {}
              /\ \A w : {Deleted(p)} \cap Requests(w) = {}
    /\ \A p : /\ {Destroyed(p)} \cap Notices = {}
              /\ {Destroyed(p)} \cap {NewValue} = {}
              /\ \A w : {Destroyed(p)} \cap {Deleted(w)} = {}
              /\ \A w : w # p => {Destroyed(p)} \cap {Destroyed(w)} = {}
              /\ \A w : {Destroyed(p)} \cap Requests(w) = {}
BY DEF Requests, Notices, SelectionRequest, SelectionNotify, NewValue, Deleted, Destroyed

\* A step takes events out of the queues, and adds at most one of E to those of the
\* programs of to that are alive.
Sends(to, E) == \A q \in Programs : From(queue'[q], queue[q], IF q \in to /\ alive[q] THEN E ELSE {})

Queues == [Programs -> Seq(Events)]

\* Post adds the event to the queues of those who hear it and are alive, and leaves the others.
LEMMA PostSends ==
    ASSUME NEW q1 \in Queues, NEW to, NEW e \in Events
    PROVE  /\ Post(q1, to, e) \in Queues
           /\ \A q \in Programs :
                 /\ From(Post(q1, to, e)[q], q1[q], IF q \in to /\ alive[q] THEN {e} ELSE {})
                 /\ (q \in to /\ alive[q] => Post(q1, to, e)[q] = Append(q1[q], e))
                 /\ (~ (q \in to /\ alive[q]) => Post(q1, to, e)[q] = q1[q])
<1>1. \A q \in Programs : q1[q] \in Seq(Events)
  BY DEF Queues
<1>2. ASSUME NEW q \in Programs
      PROVE  /\ Post(q1, to, e)[q] = IF q \in to /\ alive[q] THEN Append(q1[q], e) ELSE q1[q]
             /\ Append(q1[q], e) \in Seq(Events)
             /\ From(Append(q1[q], e), q1[q], {e})
             /\ \A E : From(q1[q], q1[q], E)
  BY <1>1, FromAppend, FromSame DEF Post
<1>3. Post(q1, to, e) = [q \in Programs |-> Post(q1, to, e)[q]]
  BY DEF Post
<1>4. Post(q1, to, e) \in Queues
  BY <1>1, <1>2, <1>3 DEF Queues
<1> QED
  BY <1>2, <1>4

\* The same of the queues there are.
LEMMA PostedSends ==
    ASSUME queue \in Queues, NEW to, NEW e \in Events, queue' = Post(queue, to, e)
    PROVE  /\ queue' \in Queues /\ Sends(to, {e})
           /\ \A q \in Programs : q \in to /\ alive[q] => queue'[q] = Append(queue[q], e)
           /\ \A q \in Programs : ~ (q \in to /\ alive[q]) => queue'[q] = queue[q]
<1> DEFINE q2 == Post(queue, to, e)
<1>1. /\ q2 \in Queues
      /\ \A q \in Programs :
            /\ From(q2[q], queue[q], IF q \in to /\ alive[q] THEN {e} ELSE {})
            /\ (q \in to /\ alive[q] => q2[q] = Append(queue[q], e))
            /\ (~ (q \in to /\ alive[q]) => q2[q] = queue[q])
  BY PostSends
<1>2. queue' = q2
  OBVIOUS
<1> HIDE DEF q2
<1> QED
  BY <1>1, <1>2 DEF Sends

\* To take an event adds nothing anywhere.
LEMMA RemovedSends ==
    ASSUME queue \in Queues, NEW p \in Programs, NEW k \in DOMAIN queue[p],
           queue' = [queue EXCEPT ![p] = RemoveAt(@, k)]
    PROVE  /\ queue' \in Queues /\ Sends({}, {})
           /\ queue'[p] = RemoveAt(queue[p], k)
           /\ \A q \in Programs : q # p => queue'[q] = queue[q]
<1>1. \A q \in Programs : queue[q] \in Seq(Events)
  BY DEF Queues
<1>2. RemoveAt(queue[p], k) \in Seq(Events) /\ From(RemoveAt(queue[p], k), queue[p], {})
  BY <1>1, FromRemove
<1>3. \A q \in Programs : From(queue[q], queue[q], {})
  BY <1>1, FromSame
<1> QED
  BY <1>1, <1>2, <1>3 DEF Queues, Sends

\* What is not sent to a queue appears in it no more, in no other number, and no later.
LEMMA QueueKept ==
    ASSUME queue \in Queues, queue' \in Queues, NEW to, NEW E, Sends(to, E),
           NEW q \in Programs, NEW F, q \in to => E \cap F = {}
    PROVE  /\ Free(queue[q], F) => Free(queue'[q], F)
           /\ Single(queue[q], F) => Single(queue'[q], F)
           /\ \A k \in DOMAIN queue'[q] : queue'[q][k] \in F =>
                 \E j \in DOMAIN queue[q] : queue[q][j] = queue'[q][k]
           /\ \A G : Behind(queue[q], G, F) => Behind(queue'[q], G, F)
<1> DEFINE N == IF q \in to /\ alive[q] THEN E ELSE {}
<1>1. From(queue'[q], queue[q], N) /\ N \cap F = {}
  BY DEF Sends
<1>2. queue[q] \in Seq(Events) /\ queue'[q] \in Seq(Events)
  BY DEF Queues
<1> HIDE DEF N
<1>3. \A k \in DOMAIN queue'[q] : queue'[q][k] \in F => queue'[q][k] \notin N
  BY <1>1
<1> QED
  BY <1>1, <1>2, <1>3, FreeKept, SingleKept, FoundBefore, BehindKept

\* What is in a queue and was not sent to it was there before.
LEMMA FoundKept ==
    ASSUME queue \in Queues, queue' \in Queues, NEW to, NEW E, Sends(to, E),
           NEW q \in Programs, NEW F, E \cap F = {} \/ q \notin to
    PROVE  \A k \in DOMAIN queue'[q] : queue'[q][k] \in F =>
                 \E j \in DOMAIN queue[q] : queue[q][j] = queue'[q][k]
BY QueueKept

\* Of a kind of which there was none, there is only what is added.
LEMMA FirstSent ==
    ASSUME queue \in Queues, queue' \in Queues, NEW to, NEW E, Sends(to, E),
           NEW q \in Programs, NEW F, Free(queue[q], F)
    PROVE  /\ Single(queue'[q], F)
           /\ \A k \in DOMAIN queue'[q] : queue'[q][k] \in F =>
                 q \in to /\ alive[q] /\ queue'[q][k] \in E
           /\ \A G : Behind(queue'[q], F, G)
<1> DEFINE N == IF q \in to /\ alive[q] THEN E ELSE {}
<1>1. From(queue'[q], queue[q], N)
  BY DEF Sends
<1>2. queue[q] \in Seq(Events) /\ queue'[q] \in Seq(Events)
  BY DEF Queues
<1>3. \A e \in N : q \in to /\ alive[q] /\ e \in E
  OBVIOUS
<1> HIDE DEF N
<1>4. Single(queue[q], F) /\ \A G : Behind(queue[q], F, G)
  BY DEF Single, Behind, Free
<1>5. \A k \in DOMAIN queue'[q] : queue'[q][k] \in F => queue'[q][k] \in N
  BY <1>1, <1>2, FoundBefore DEF Free
<1> QED
  BY <1>1, <1>2, <1>3, <1>4, <1>5, SingleKept, BehindKept

\* The request of p stays in one place if nobody sends it another one or a notice, and nobody
\* begins to send to it.
LEMMA LoneKept ==
    ASSUME NEW p \in Programs, queue \in Queues, queue' \in Queues, NEW to, NEW E, Sends(to, E),
           E \cap Requests(p) = {}, p \in to => E \cap Notices = {},
           \A q \in Programs : Sender(q, p)' =>
               Sender(q, p) /\ (act'[q].pc \in Early => act[q].pc \in Early),
           act'[p].pc \in Taking => act[p].pc \in Taking,
           Lone(p)
    PROVE  Lone(p)'
<1>1. \A q \in Programs :
          /\ Free(queue[q], Requests(p)) => Free(queue'[q], Requests(p))
          /\ Single(queue[q], Requests(p)) => Single(queue'[q], Requests(p))
  BY QueueKept
<1>2. /\ Free(queue[p], Notices) => Free(queue'[p], Notices)
      /\ Single(queue[p], Notices) => Single(queue'[p], Notices)
  BY QueueKept
<1>3. \A q \in Programs : Sender(q, p)' /\ act[q].pc \in Late => act'[q].pc \in Late
  BY DEF Sender, Sending, Early, Late
<1> QED
  BY <1>1, <1>2, <1>3, Zenon DEF Lone

\* The order of requests and deletions is kept if nothing is deleted and nobody listens anew.
LEMMA ListensKept ==
    ASSUME NEW p \in Programs, queue \in Queues, queue' \in Queues, NEW to, NEW E, Sends(to, E),
           E \cap {Deleted(p)} = {},
           \A q \in Programs : Sender(q, p)' => Sender(q, p),
           \A q \in Programs : "property" \in selected'[q][p] =>
               "property" \in selected[q][p] /\ act'[q].peer = p /\ act'[q].pc \in Heard,
           Listens(p)
    PROVE  Listens(p)'
<1>1. \A q \in Programs :
          /\ Single(queue[q], {Deleted(p)}) => Single(queue'[q], {Deleted(p)})
          /\ \A G : Behind(queue[q], G, {Deleted(p)}) => Behind(queue'[q], G, {Deleted(p)})
  BY QueueKept
<1> QED
  BY <1>1 DEF Listens

\* A sender that does nothing keeps its phase while the property of p does.
LEMMA PhasesKept ==
    ASSUME NEW p \in Programs, queue \in Queues, queue' \in Queues, NEW to, NEW E, Sends(to, E),
           E \cap {Deleted(p)} = {}, prop'[p] = prop[p], alive'[p] => alive[p],
           NEW q \in Programs, act'[q] = act[q], Phase(q, p)
    PROVE  Phase(q, p)'
<1>1. Undeleted(q, p) => Undeleted(q, p)'
  BY QueueKept DEF Undeleted
<1> QED
  BY <1>1 DEF Phase

\* What is on its way to p stays what p asked for if p asks for the same and no answer is added.
LEMMA MineKept ==
    ASSUME NEW p \in Programs, queue \in Queues, queue' \in Queues, NEW to, NEW E, Sends(to, E),
           E \cap Requests(p) = {}, p \in to => E \cap Notices = {},
           prop'[p] = prop[p], asked'[p] = asked[p],
           act[p].pc \in Asking,
           act'[p].sel = act[p].sel, act'[p].type = act[p].type, act'[p].ok = act[p].ok,
           act'[p].pc \in {"discard", "fetch"} => Offered(p),
           act'[p].pc \in {"asked", "discard", "fetch", "sender"} => act'[p].data = <<>>,
           \A q \in Programs : Sender(q, p)' =>
               Sender(q, p) /\ act'[q].sel = act[q].sel /\ act'[q].type = act[q].type,
           Mine(p)
    PROVE  Mine(p)'
<1>1. Offered(p) => Offered(p)'
  BY DEF Offered
<1>2. \A q \in Programs : \A k \in DOMAIN queue'[q] : queue'[q][k] \in Requests(p) =>
          \E j \in DOMAIN queue[q] : queue[q][j] = queue'[q][k]
  <2> SUFFICES ASSUME NEW q \in Programs
               PROVE  \A k \in DOMAIN queue'[q] : queue'[q][k] \in Requests(p) =>
                          \E j \in DOMAIN queue[q] : queue[q][j] = queue'[q][k]
    OBVIOUS
  <2> QED
    BY FoundKept
<1>3. \A k \in DOMAIN queue'[p] : queue'[p][k] \in Notices =>
          \E j \in DOMAIN queue[p] : queue[p][j] = queue'[p][k]
  BY QueueKept
<1>4. \A q \in Programs : \A k \in DOMAIN queue'[q] : queue'[q][k] \in Requests(p) =>
          queue'[q][k] = SelectionRequest(p, act'[p].sel, act'[p].type) /\ q = asked'[p]
  BY <1>2 DEF Mine
<1>5. \A q \in Programs : Sender(q, p)' =>
          q = asked'[p] /\ act'[q].sel = act'[p].sel /\ act'[q].type = act'[p].type
  BY DEF Mine
<1>6. \A k \in DOMAIN queue'[p] : queue'[p][k] \in Notices =>
          /\ queue'[p][k].sel = act'[p].sel /\ queue'[p][k].type = act'[p].type
          /\ queue'[p][k].ok => Offered(p)'
  BY <1>1, <1>3 DEF Mine
<1> QED
  BY <1>1, <1>4, <1>5, <1>6 DEF Mine

\* What p has received fits what is to come if neither it, nor its property, nor its sender changes.
LEMMA TransferKept ==
    ASSUME NEW p \in Programs, queue \in Queues, queue' \in Queues, NEW to, NEW E, Sends(to, E),
           p \in to => E \cap {NewValue} = {},
           act'[p].pc \in Asking \cup Ending => act'[p] = act[p] /\ asked'[p] = asked[p],
           prop'[p] = prop[p],
           \A q \in Programs : Sender(q, p)' => Sender(q, p) /\ act'[q] = act[q],
           Transfer(p)
    PROVE  Transfer(p)'
<1>1. CASE act'[p].pc \notin Asking \cup Ending
  BY <1>1 DEF Transfer, Partly, Answers, News, Asking, Ending, InChunks
<1>2. CASE act'[p].pc \in Asking \cup Ending
  <2>1. act'[p] = act[p] /\ asked'[p] = asked[p]
    BY <1>2
  <2>2. Partly(p)'
    BY <2>1 DEF Transfer, Partly, Got
  <2>3. Answers(p)'
    BY <2>1 DEF Transfer, Answers
  <2>4. /\ Free(queue[p], {NewValue}) => Free(queue'[p], {NewValue})
        /\ Single(queue[p], {NewValue}) => Single(queue'[p], {NewValue})
    BY QueueKept
  <2>5. News(p)'
    BY <2>1, <2>4 DEF Transfer, News
  <2> QED
    BY <2>2, <2>3, <2>5 DEF Transfer
<1> QED
  BY <1>1, <1>2

-----------------------------------------------------------------------------
(* Each step keeps the invariant.                                          *)

\* Nothing that p asked for moves, although other programs may.
Calm(p) ==
    /\ act'[p].pc \in Asking \cup Ending => act'[p] = act[p] /\ asked'[p] = asked[p]
    /\ prop'[p] = prop[p]
    /\ alive'[p] => alive[p]
    /\ \A q \in Programs : Sender(q, p)' => Sender(q, p) /\ act'[q] = act[q]
    /\ \A q \in Programs : "property" \in selected'[q][p] =>
          /\ "property" \in selected[q][p]
          /\ act'[q] = act[q] \/ (act'[q].peer = p /\ act'[q].pc \in Heard)

Quiet(p, to, E) ==
    /\ E \cap Requests(p) = {} /\ E \cap {Deleted(p)} = {}
    /\ p \in to => E \cap Notices = {} /\ E \cap {NewValue} = {}

\* A step of others that does not concern p keeps all of it.
LEMMA CalmKeeps ==
    ASSUME NEW p \in Programs, queue \in Queues, queue' \in Queues, NEW to, NEW E, Sends(to, E),
           Quiet(p, to, E), Calm(p), Turn(p), Transfer(p)
    PROVE  Turn(p)' /\ Transfer(p)'
<1>1. Lone(p)'
  <2>1. act'[p].pc \in Taking => act[p].pc \in Taking
    BY DEF Calm, Taking, Asking
  <2>2. \A q \in Programs : Sender(q, p)' =>
            Sender(q, p) /\ (act'[q].pc \in Early => act[q].pc \in Early)
    BY DEF Calm
  <2> QED
    BY <2>1, <2>2, LoneKept DEF Quiet, Turn
<1>2. Listens(p)'
  <2>1. \A q \in Programs : Sender(q, p)' => Sender(q, p)
    BY DEF Calm
  <2>2. \A q \in Programs : "property" \in selected'[q][p] =>
            "property" \in selected[q][p] /\ act'[q].peer = p /\ act'[q].pc \in Heard
    BY DEF Calm, Turn, Listens
  <2> QED
    BY <2>1, <2>2, ListensKept DEF Quiet, Turn
<1>3. Phases(p)'
  <2> SUFFICES ASSUME NEW q \in Programs, Sender(q, p)'
               PROVE  Phase(q, p)'
    BY DEF Phases
  <2>1. Sender(q, p) /\ act'[q] = act[q] /\ prop'[p] = prop[p] /\ (alive'[p] => alive[p])
    BY DEF Calm
  <2>2. Phase(q, p)
    BY <2>1 DEF Turn, Phases
  <2> QED
    BY <2>1, <2>2, PhasesKept DEF Quiet
<1>4. Mine(p)'
  <2>1. \A q \in Programs : Sender(q, p)' =>
            Sender(q, p) /\ act'[q].sel = act[q].sel /\ act'[q].type = act[q].type
    BY DEF Calm
  <2>2. CASE act'[p].pc \notin Asking
    BY <2>2 DEF Mine
  <2>3. CASE act'[p].pc \in Asking
    <3>1. act'[p] = act[p] /\ asked'[p] = asked[p] /\ act[p].pc \in Asking
      BY <2>3 DEF Calm
    <3>2. /\ act'[p].pc \in {"discard", "fetch"} => Offered(p)
          /\ act'[p].pc \in {"asked", "discard", "fetch", "sender"} => act'[p].data = <<>>
      BY <3>1 DEF Turn, Mine
    <3> QED
      BY <2>1, <3>1, <3>2, MineKept DEF Quiet, Turn, Calm
  <2> QED
    BY <2>2, <2>3
<1>5. Transfer(p)'
  BY TransferKept DEF Quiet, Calm
<1> QED
  BY <1>1, <1>2, <1>3, <1>4, <1>5 DEF Turn

\* If no queue changes nothing is sent.
LEMMA UnchangedSends ==
    ASSUME queue \in Queues, UNCHANGED queue
    PROVE  queue' \in Queues /\ Sends({}, {})
<1>1. \A q \in Programs : queue[q] \in Seq(Events)
  BY DEF Queues
<1> QED
  BY <1>1, FromSame DEF Sends


\* The dead stay as they are.
LEMMA GravesKept ==
    ASSUME queue \in Queues, queue' \in Queues, NEW to, NEW E, Sends(to, E),
           \A w \in Programs : E \cap {Destroyed(w)} = {},
           alive' = alive, NEW x \in Programs, alive[x],
           \A p \in Programs : p # x => act'[p] = act[p],
           \A p \in Programs : ~ alive[p] =>
               prop'[p] = prop[p] /\ \A q \in Programs : selected'[q][p] \subseteq selected[q][p],
           \A s \in Selections : owner'[s] # owner[s] => alive[owner'[s]],
           Graves
    PROVE  Graves'
<1>1. ASSUME NEW p \in Programs, NEW w \in Programs, alive[w]
      PROVE  Free(queue'[p], {Destroyed(w)})
  <2>1. Free(queue[p], {Destroyed(w)}) /\ E \cap {Destroyed(w)} = {}
    BY <1>1 DEF Graves
  <2> QED
    BY <2>1, QueueKept
<1>2. ASSUME NEW p \in Programs, ~ alive[p]
      PROVE  queue'[p] = <<>>
  <2>1. queue[p] = <<>> /\ From(queue'[p], queue[p], {}) /\ queue'[p] \in Seq(Events)
    BY <1>2 DEF Graves, Sends, Queues
  <2>2. DOMAIN queue[p] = {}
    BY <2>1
  <2>3. DOMAIN queue'[p] = {}
    BY <2>1, <2>2 DEF From
  <2>4. Len(queue'[p]) = 0
    BY <2>1, <2>3, SeqFacts
  <2> QED
    BY <2>1, <2>4, EmptySeq
<1> QED
  BY <1>1, <1>2 DEF Graves

\* What x does for others, or to nobody, leaves p alone.
LEMMA CalmFar ==
    ASSUME NEW p \in Programs, NEW x \in Programs,
           \A q \in Programs : q # x => act'[q] = act[q] /\ selected'[q] = selected[q],
           p = x => act'[x].pc \notin Asking \cup Ending,
           p # x => asked'[p] = asked[p],
           prop'[p] = prop[p], alive'[p] => alive[p],
           ~ Sender(x, p)', "property" \notin selected'[x][p]
    PROVE  Calm(p)
BY DEF Calm, Sender

\* x begins something else; the others go on.
LEMMA PutTypes ==
    ASSUME act \in [Programs -> Activities], NEW x \in Programs, NEW a \in Activities,
           act' = [act EXCEPT ![x] = a]
    PROVE  /\ act' \in [Programs -> Activities]
           /\ act'[x] = a
           /\ \A p \in Programs : p # x => act'[p] = act[p]
OBVIOUS

\* The idle activity, and what a request makes of it.
LEMMA IdleTypes ==
    /\ Idle \in Activities /\ Idle.pc = "idle" /\ Idle.peer = None
    /\ \A s \in Sels, t \in Kinds :
          /\ [Idle EXCEPT !.pc = "asked", !.sel = s, !.type = t] \in Activities
<1>1. TypeList \in Kinds /\ 0 \in 0 .. MaxChunk /\ None \in Sels /\ <<>> \in Seq(Unit)
  BY SelectionsAssumption DEF Kinds, Sels
<1> QED
  BY <1>1 DEF Activities, Idle, Asking

\* The invariant, in parts.
LEMMA InvParts ==
    ASSUME Inv
    PROVE  /\ Types /\ Graves /\ Peers /\ queue \in Queues
           /\ \A p \in Programs : Turn(p) /\ Transfer(p)
BY DEF Inv, Types, Queues

\* What x does about its own request leaves that of p alone.
LEMMA AskerApart ==
    ASSUME NEW p \in Programs, NEW x \in Programs, p # x, Turn(p),
           \A q \in Programs : q # x => act'[q] = act[q] /\ selected'[q] = selected[q],
           act[x].pc \notin Heard, act'[x].pc \notin Sending,
           "property" \in selected'[x][p] => "property" \in selected[x][p],
           asked'[p] = asked[p], prop'[p] = prop[p], alive'[p] = alive[p]
    PROVE  Calm(p)
<1>1. "property" \notin selected'[x][p]
  BY DEF Turn, Listens
<1>2. ~ Sender(x, p)'
  BY DEF Sender
<1> QED
  BY <1>1, <1>2, CalmFar

\* x goes on with its own request, and nobody else does.
LEMMA AskerTurn ==
    ASSUME NEW x \in Programs, queue \in Queues, queue' \in Queues, NEW to, NEW E, Sends(to, E),
           Quiet(x, to, E), Turn(x),
           \A q \in Programs : q # x => act'[q] = act[q] /\ selected'[q] = selected[q],
           act[x].pc \notin Heard, act'[x].pc \notin Sending,
           "property" \in selected'[x][x] => "property" \in selected[x][x],
           prop'[x] = prop[x], alive'[x] = alive[x]
    PROVE  /\ (act'[x].pc \in Taking => act[x].pc \in Taking) => Lone(x)'
           /\ Listens(x)' /\ Phases(x)'
<1>1. \A q \in Programs : Sender(q, x)' => Sender(q, x) /\ act'[q] = act[q]
  BY DEF Sender
<1>2. (act'[x].pc \in Taking => act[x].pc \in Taking) => Lone(x)'
  BY <1>1, LoneKept DEF Quiet, Turn
<1>3. Listens(x)'
  <2>1. \A q \in Programs : "property" \in selected'[q][x] =>
            "property" \in selected[q][x] /\ act'[q].peer = x /\ act'[q].pc \in Heard
    BY DEF Turn, Listens
  <2> QED
    BY <1>1, <2>1, ListensKept DEF Quiet, Turn
<1>4. Phases(x)'
  <2> SUFFICES ASSUME NEW q \in Programs, Sender(q, x)'
               PROVE  Phase(q, x)'
    BY DEF Phases
  <2>1. act'[q] = act[q] /\ Phase(q, x)
    BY <1>1 DEF Turn, Phases
  <2> QED
    BY <2>1, PhasesKept DEF Quiet
<1> QED
  BY <1>2, <1>3, <1>4

\* x asks: nobody else answers it, so the request is the only one.
LEMMA RequestStep ==
    ASSUME ~ Overlaps, Inv, NEW x \in Programs, NEW s \in Selections, NEW t \in Kinds,
           Request(x, s, t)
    PROVE  Inv'
<1> DEFINE nobody == owner[s] = None
           e == IF nobody THEN SelectionNotify(s, t, FALSE) ELSE SelectionRequest(x, s, t)
           to == IF nobody THEN {x} ELSE {owner[s]}
           a == [Idle EXCEPT !.pc = "asked", !.sel = s, !.type = t]
<1>1. /\ Types /\ Graves /\ Peers /\ queue \in Queues
      /\ \A p \in Programs : Turn(p) /\ Transfer(p)
  BY InvParts
<1>2. /\ act[x].pc = "idle" /\ alive[x] /\ owner[s] # x /\ ~ Answering(x)
      /\ act' = [act EXCEPT ![x] = a]
      /\ asked' = [asked EXCEPT ![x] = owner[s]]
      /\ excused' = [excused EXCEPT ![x] = nobody]
      /\ UNCHANGED <<owner, prop, selected, maxChunk, alive, faults>>
  BY DEF Request, server
<1>3. s \in Sels /\ owner[s] \in Programs \cup {None}
  BY <1>1 DEF Sels, Types
<1>4. e \in Events /\ queue' = Post(queue, to, e)
  BY <1>3, EventKinds DEF Request
<1>5. /\ a \in Activities
      /\ a.pc = "asked" /\ a.sel = s /\ a.type = t /\ a.data = <<>> /\ ~ a.ok
  <2>1. TypeList \in Kinds /\ 0 \in 0 .. MaxChunk /\ None \in Sels /\ <<>> \in Seq(Unit)
    BY SelectionsAssumption DEF Kinds, Sels
  <2> QED
    BY <1>3, <2>1 DEF Activities, Idle, Asking
<1>6. /\ \A w \in Programs : {e} \cap {Destroyed(w)} = {}
      /\ \A w \in Programs : {e} \cap {Deleted(w)} = {}
      /\ {e} \cap {NewValue} = {}
      /\ \A w \in Programs : w # x => {e} \cap Requests(w) = {}
      /\ ~ nobody => {e} \cap Notices = {}
      /\ nobody => {e} \cap Requests(x) = {}
  BY Apart
<1> HIDE DEF e, to, a
<1>7. /\ queue' \in Queues /\ Sends(to, {e})
      /\ \A q \in Programs : q \in to /\ alive[q] => queue'[q] = Append(queue[q], e)
      /\ \A q \in Programs : ~ (q \in to /\ alive[q]) => queue'[q] = queue[q]
  BY <1>1, <1>4, PostedSends
<1>8. /\ act'[x] = a
      /\ \A p \in Programs : p # x => act'[p] = act[p]
      /\ act' \in [Programs -> Activities]
  BY <1>1, <1>2, <1>5, PutTypes DEF Types
<1>9. Types'
  BY <1>1, <1>2, <1>3, <1>7, <1>8 DEF Types, Queues
<1>10. Graves'
  BY <1>1, <1>2, <1>6, <1>7, <1>8, GravesKept
<1>11. Peers'
  BY <1>1, <1>2, <1>5, <1>8 DEF Peers, Asking, Sending, Watching
<1>12. ASSUME NEW p \in Programs, p # x
       PROVE  Turn(p)' /\ Transfer(p)'
  <2>1. Quiet(p, to, {e})
    BY <1>6, <1>12 DEF Quiet, to
  <2>2. ~ Sender(x, p)' /\ "property" \notin selected'[x][p]
    BY <1>1, <1>2, <1>5, <1>8 DEF Sender, Sending, Turn, Listens, Heard
  <2>3. Calm(p)
    BY <1>2, <1>8, <1>12, <2>2, CalmFar DEF Types
  <2> QED
    BY <1>1, <1>7, <2>1, <2>3, CalmKeeps
<1>13. Turn(x)' /\ Transfer(x)'
  <2>1. /\ \A q \in Programs : ~ Sender(q, x) /\ Free(queue[q], Requests(x))
        /\ Free(queue[x], Notices)
    BY <1>2, EventKinds DEF Answering, Sender, Free
  <2>2. \A q \in Programs : ~ Sender(q, x)'
    BY <1>5, <1>8, <2>1 DEF Sender, Sending
  <2>3. \A q \in Programs :
          /\ Single(queue'[q], Requests(x))
          /\ \A k \in DOMAIN queue'[q] : queue'[q][k] \in Requests(x) =>
                q \in to /\ queue'[q][k] = e
          /\ Behind(queue'[q], Requests(x), {Deleted(x)})
    <3> SUFFICES ASSUME NEW q \in Programs
                 PROVE  /\ Single(queue'[q], Requests(x))
                        /\ \A k \in DOMAIN queue'[q] : queue'[q][k] \in Requests(x) =>
                              q \in to /\ queue'[q][k] \in {e}
                        /\ Behind(queue'[q], Requests(x), {Deleted(x)})
      OBVIOUS
    <3> QED
      BY <1>1, <1>7, <2>1, FirstSent
  <2>4. /\ Single(queue'[x], Notices)
        /\ \A k \in DOMAIN queue'[x] : queue'[x][k] \in Notices => queue'[x][k] \in {e}
    BY <1>1, <1>7, <2>1, FirstSent
  <2>5. \A q \in Programs : ~ Free(queue'[q], Requests(x)) => ~ nobody /\ q = owner[s]
    BY <1>6, <2>3 DEF Free, to
  <2>6. ~ nobody => Free(queue'[x], Notices)
    BY <1>6, <2>4 DEF Free
  <2>7. Lone(x)'
    BY <1>2, <1>5, <1>8, <2>2, <2>3, <2>4, <2>5, <2>6 DEF Lone, Taking
  <2>8. Listens(x)'
    <3>1. \A q \in Programs : "property" \in selected[q][x] =>
            q # x /\ act[q].peer = x /\ act[q].pc \in Heard
      BY <1>1, <1>2 DEF Turn, Listens, Heard
    <3> QED
      BY <1>2, <1>8, <2>2, <2>3, <3>1 DEF Listens
  <2>9. Phases(x)'
    BY <2>2 DEF Phases
  <2>10. Mine(x)'
    <3>1. \A q \in Programs : \A k \in DOMAIN queue'[q] : queue'[q][k] \in Requests(x) =>
            queue'[q][k] = SelectionRequest(x, s, t) /\ q = owner[s]
      BY <1>6, <2>3 DEF e, to
    <3>2. \A k \in DOMAIN queue'[x] : queue'[x][k] \in Notices =>
            queue'[x][k].sel = s /\ queue'[x][k].type = t /\ ~ queue'[x][k].ok
      BY <1>6, <2>4 DEF e, SelectionNotify
    <3>3. asked'[x] = owner[s]
      BY <1>1, <1>2 DEF Types
    <3> QED
      BY <1>5, <1>8, <2>2, <3>1, <3>2, <3>3 DEF Mine
  <2>11. Transfer(x)'
    BY <1>5, <1>8 DEF Transfer, Partly, Answers, News, InChunks, Ending
  <2> QED
    BY <2>7, <2>8, <2>9, <2>10, <2>11 DEF Turn
<1> QED
  BY <1>9, <1>10, <1>11, <1>12, <1>13 DEF Inv

\* x becomes the owner of a selection.
LEMMA BecomeOwnerStep ==
    ASSUME Inv, NEW x \in Programs, NEW s \in Selections, BecomeOwner(x, s)
    PROVE  Inv'
<1>1. /\ Types /\ Graves /\ Peers /\ queue \in Queues
      /\ \A p \in Programs : Turn(p) /\ Transfer(p)
  BY InvParts
<1>2. /\ act[x].pc = "idle" /\ alive[x]
      /\ owner' = [owner EXCEPT ![s] = x]
      /\ UNCHANGED <<prop, selected, queue, act, maxChunk, alive, asked, excused, faults>>
  BY DEF BecomeOwner, history
<1>3. queue' \in Queues /\ Sends({}, {})
  BY <1>1, <1>2, UnchangedSends
<1>4. Types'
  BY <1>1, <1>2 DEF Types
<1>5. Graves'
  <2>1. \A s1 \in Selections : owner'[s1] # owner[s1] => alive[owner'[s1]]
    BY <1>1, <1>2 DEF Types
  <2>2. \A w \in Programs : {} \cap {Destroyed(w)} = {}
    OBVIOUS
  <2> QED
    BY <1>1, <1>2, <1>3, <2>1, <2>2, GravesKept
<1>6. Peers'
  BY <1>1, <1>2 DEF Types, Peers, Asking
<1>7. \A p \in Programs : Calm(p) /\ Quiet(p, {}, {})
  BY <1>2 DEF Calm, Quiet, Sender
<1>8. \A p \in Programs : Turn(p)' /\ Transfer(p)'
  BY <1>1, <1>3, <1>7, CalmKeeps
<1> QED
  BY <1>4, <1>5, <1>6, <1>8 DEF Inv

\* What any step of x about its own request keeps.
LEMMA AskerStep ==
    ASSUME Inv, NEW x \in Programs,
           queue' \in Queues, NEW to, NEW E, Sends(to, E),
           \A p \in Programs : p # x => Quiet(p, to, E),
           \A w \in Programs : E \cap {Destroyed(w)} = {},
           act[x].pc \in Asking \cup Ending,
           NEW a \in Activities, act' = [act EXCEPT ![x] = a], a.pc \notin Sending \cup {"finish"},
           a.pc \in Watching => a.peer \in Programs \ {x},
           a.pc \in Asking => act[x].pc \in Asking /\ a.sel = act[x].sel,
           prop' \in [Programs -> Properties],
           \A p \in Programs : p # x => prop'[p] = prop[p],
           selected' \in [Programs -> [Programs -> SUBSET {"property", "structure"}]],
           \A q \in Programs : q # x => selected'[q] = selected[q],
           \A p \in Programs : "property" \in selected'[x][p] => "property" \in selected[x][p],
           \A p \in Programs : ~ alive[p] => selected'[x][p] \subseteq selected[x][p],
           asked' \in [Programs -> Programs \cup {None}],
           \A p \in Programs : p # x => asked'[p] = asked[p],
           excused' \in [Programs -> BOOLEAN],
           UNCHANGED <<owner, maxChunk, alive, faults>>
    PROVE  /\ Types' /\ Graves' /\ Peers'
           /\ act'[x] = a
           /\ \A p \in Programs : p # x => Turn(p)' /\ Transfer(p)'
<1>1. /\ Types /\ Graves /\ Peers /\ queue \in Queues
      /\ \A p \in Programs : Turn(p) /\ Transfer(p)
  BY InvParts
<1>2. /\ act' \in [Programs -> Activities]
      /\ act'[x] = a
      /\ \A p \in Programs : p # x => act'[p] = act[p]
  BY <1>1, PutTypes DEF Types
<1>3. Types'
  BY <1>1, <1>2 DEF Types, Queues
<1>4. alive[x]
  BY <1>1 DEF Graves, Idle, Asking, Ending
<1>5. Graves'
  <2>1. \A p \in Programs : ~ alive[p] =>
          prop'[p] = prop[p] /\ \A q \in Programs : selected'[q][p] \subseteq selected[q][p]
    BY <1>4
  <2>2. \A s \in Selections : owner'[s] # owner[s] => alive[owner'[s]]
    OBVIOUS
  <2> QED
    BY <1>1, <1>2, <1>4, <2>1, <2>2, GravesKept
<1>6. Peers'
  BY <1>1, <1>2 DEF Peers
<1>7. ASSUME NEW p \in Programs, p # x
      PROVE  Turn(p)' /\ Transfer(p)'
  <2>1. Calm(p)
    <3>1. act[x].pc \notin Heard /\ act'[x].pc \notin Sending
      BY <1>2 DEF Heard, Asking, Ending
    <3> QED
      BY <1>1, <1>2, <1>7, <3>1, AskerApart
  <2> QED
    BY <1>1, <1>7, <2>1, CalmKeeps
<1> QED
  BY <1>2, <1>3, <1>5, <1>6, <1>7

\* The event that x looked for is in its queue, and is taken out.
LEMMA NotifiedTakes ==
    ASSUME Inv, NEW x \in Programs, Notified(x)
    PROVE  \E k \in DOMAIN queue[x] :
             /\ queue[x][k] \in Notices
             /\ queue' = [queue EXCEPT ![x] = RemoveAt(@, k)]
             /\ act' = [act EXCEPT ![x].pc =
                   IF ~ (queue[x][k].ok /\ queue[x][k].sel = act[x].sel /\ queue[x][k].type = act[x].type)
                   THEN "return" ELSE IF queue[x][k].type = TypeList THEN "fetch" ELSE "discard"]
<1> DEFINE I == {i \in 1 .. Len(queue[x]) : queue[x][i].is = "SelectionNotify"}
           k == Min(I)
<1>1. queue[x] \in Seq(Events)
  BY InvParts DEF Queues
<1>2. I # {}
  <2>1. Place(x, LAMBDA e : e.is = "SelectionNotify") = IF I # {} THEN k ELSE 0
    BY DEF Place, SelectInSeq
  <2>2. Place(x, LAMBDA e : e.is = "SelectionNotify") > 0
    BY DEF Notified
  <2> QED
    BY <2>1, <2>2
<1>3. /\ queue' = [queue EXCEPT ![x] = RemoveAt(@, k)]
      /\ act' = [act EXCEPT ![x].pc =
             IF ~ (queue[x][k].ok /\ queue[x][k].sel = act[x].sel /\ queue[x][k].type = act[x].type)
             THEN "return" ELSE IF queue[x][k].type = TypeList THEN "fetch" ELSE "discard"]
  BY <1>2 DEF Notified, Place, SelectInSeq, Take, Go
<1>4. k \in I
  <2>1. I \in SUBSET Nat
    OBVIOUS
  <2> HIDE DEF I
  <2> QED
    BY <1>2, <2>1, MinOf
<1>5. k \in DOMAIN queue[x] /\ queue[x][k] \in Notices
  <2>1. DOMAIN queue[x] = 1 .. Len(queue[x]) /\ \A i \in DOMAIN queue[x] : queue[x][i] \in Events
    BY <1>1, SeqFacts
  <2>2. k \in 1 .. Len(queue[x]) /\ queue[x][k].is = "SelectionNotify"
    BY <1>4
  <2> QED
    BY <2>1, <2>2, EventKinds
<1> HIDE DEF k
<1> QED
  BY <1>3, <1>5

\* x hears whether its request is granted.
LEMMA NotifiedStep ==
    ASSUME Inv, NEW x \in Programs, Notified(x)
    PROVE  Inv'
<1>1. /\ Types /\ Graves /\ Peers /\ queue \in Queues
      /\ \A p \in Programs : Turn(p) /\ Transfer(p)
  BY InvParts
<1>2. PICK k \in DOMAIN queue[x] :
        /\ queue[x][k] \in Notices
        /\ queue' = [queue EXCEPT ![x] = RemoveAt(@, k)]
        /\ act' = [act EXCEPT ![x].pc =
              IF ~ (queue[x][k].ok /\ queue[x][k].sel = act[x].sel /\ queue[x][k].type = act[x].type)
              THEN "return" ELSE IF queue[x][k].type = TypeList THEN "fetch" ELSE "discard"]
  BY NotifiedTakes
<1> DEFINE n == queue[x][k]
           pc == IF ~ (n.ok /\ n.sel = act[x].sel /\ n.type = act[x].type) THEN "return"
                 ELSE IF n.type = TypeList THEN "fetch" ELSE "discard"
           a == [act[x] EXCEPT !.pc = pc]
<1>3. /\ act[x].pc = "asked"
      /\ queue' = [queue EXCEPT ![x] = RemoveAt(@, k)]
      /\ act' = [act EXCEPT ![x].pc = pc]
      /\ UNCHANGED <<owner, prop, selected, maxChunk, alive, asked, excused, faults>>
  BY <1>2 DEF Notified, server, history
<1>4. queue' \in Queues /\ queue'[x] = RemoveAt(queue[x], k) /\ Sends({}, {})
  BY <1>1, <1>3, <1>2, RemovedSends
<1>5. /\ act[x] \in Activities /\ a \in Activities /\ act' = [act EXCEPT ![x] = a]
      /\ a.pc = pc /\ pc \in {"return", "fetch", "discard"}
      /\ a.sel = act[x].sel /\ a.type = act[x].type /\ a.data = act[x].data /\ a.ok = act[x].ok
  <2>1. pc \in {"return", "fetch", "discard"}
    OBVIOUS
  <2> HIDE DEF pc
  <2> QED
    BY <1>1, <1>3, <2>1 DEF Types, Activities, Asking, Ending
<1>6. \A p \in Programs : Quiet(p, {}, {})
  BY DEF Quiet
<1> HIDE DEF a
<1>7. /\ Types' /\ Graves' /\ Peers'
      /\ act'[x] = a
      /\ \A p \in Programs : p # x => Turn(p)' /\ Transfer(p)'
  <2>1. /\ act[x].pc \in Asking \cup Ending
        /\ a.pc \notin Sending \cup {"finish"} /\ a.pc \notin Watching
        /\ a.pc \in Asking => act[x].pc \in Asking
    BY <1>3, <1>5 DEF Asking, Sending, Watching
  <2>2. \A w \in Programs : {} \cap {Destroyed(w)} = {}
    OBVIOUS
  <2>3. /\ prop' \in [Programs -> Properties]
        /\ selected' \in [Programs -> [Programs -> SUBSET {"property", "structure"}]]
        /\ asked' \in [Programs -> Programs \cup {None}]
        /\ excused' \in [Programs -> BOOLEAN]
    BY <1>1, <1>3 DEF Types
  <2>4. /\ \A p \in Programs : p # x => prop'[p] = prop[p]
        /\ \A q \in Programs : q # x => selected'[q] = selected[q]
        /\ \A p \in Programs : p # x => asked'[p] = asked[p]
        /\ \A p \in Programs : "property" \in selected'[x][p] => "property" \in selected[x][p]
        /\ \A p \in Programs : ~ alive[p] => selected'[x][p] \subseteq selected[x][p]
        /\ UNCHANGED <<owner, maxChunk, alive, faults>>
    BY <1>3
  <2> HIDE DEF pc
  <2> QED
    BY <1>4, <1>5, <1>6, <2>1, <2>2, <2>3, <2>4, AskerStep, ZenonT(60)
<1>8. /\ n.sel = act[x].sel /\ n.type = act[x].type
      /\ n.ok => Offered(x)
      /\ ~ act[x].ok /\ act[x].data = <<>>
  BY <1>1, <1>3, <1>2 DEF Turn, Mine, Asking
<1>9. \A q \in Programs : q # x => act'[q] = act[q]
  BY <1>1, <1>3
<1>10. Listens(x)' /\ Phases(x)'
  BY <1>1, <1>3, <1>4, <1>5, <1>6, <1>7, <1>9, AskerTurn DEF Heard, Sending
<1>11. Lone(x)'
  <2>1. /\ ~ Free(queue[x], Notices)
        /\ Free(queue'[x], Notices)
    BY <1>1, <1>2, <1>4, RemoveTheOne DEF Free, Queues, Turn, Lone
  <2>2. \A q \in Programs : Free(queue[q], Requests(x)) /\ Free(queue'[q], Requests(x))
    <3>1. \A q \in Programs : Free(queue[q], Requests(x))
      BY <1>1, <2>1 DEF Turn, Lone
    <3> QED
      BY <1>1, <1>4, <3>1, QueueKept
  <2>3. \A q \in Programs : Sender(q, x) => act[q].pc \in Late
    BY <1>1, <2>1 DEF Turn, Lone, Sender, Sending, Early, Late
  <2>4. \A q \in Programs : Sender(q, x)' => Sender(q, x) /\ act'[q].pc \in Late
    BY <1>5, <1>7, <1>9, <2>3 DEF Sender, Sending
  <2> QED
    BY <1>1, <2>1, <2>2, <2>4 DEF Turn, Lone, Free, Single
<1>12. Mine(x)'
  <2>1. \A q \in Programs : Sender(q, x)' =>
            Sender(q, x) /\ act'[q].sel = act[q].sel /\ act'[q].type = act[q].type
    BY <1>5, <1>7, <1>9 DEF Sender, Sending
  <2>2. a.pc \in {"discard", "fetch"} => Offered(x)
    BY <1>5, <1>8
  <2> QED
    BY <1>1, <1>3, <1>4, <1>5, <1>6, <1>7, <1>8, <2>1, <2>2, MineKept DEF Quiet, Turn, Asking
<1>13. Transfer(x)'
  BY <1>5, <1>7, <1>8 DEF Transfer, Partly, Answers, News, InChunks, Ending
<1> QED
  BY <1>7, <1>10, <1>11, <1>12, <1>13 DEF Inv, Turn

\* Steps of x that take events out of its queue at most, and go from one wait to another.
LEMMA AskerGoes ==
    ASSUME Inv, NEW x \in Programs,
           queue' \in Queues, Sends({}, {}),
           act[x].pc \in Asking \cup Ending,
           NEW a \in Activities, act' = [act EXCEPT ![x] = a], a.pc \in Asking \cup Ending,
           a.sel = act[x].sel, a.type = act[x].type, a.ok = act[x].ok, a.data = act[x].data,
           a.pc \in Watching => a.peer \in Programs \ {x},
           a.pc \in Asking => act[x].pc \in Asking \ {"asked"},
           a.pc \in {"asked", "discard", "fetch", "sender"} =>
               act[x].pc \in {"discard", "fetch", "sender"},
           a.pc \in {"discard", "fetch"} => act[x].pc \in {"discard", "fetch"},
           selected' \in [Programs -> [Programs -> SUBSET {"property", "structure"}]],
           \A q \in Programs : q # x => selected'[q] = selected[q],
           \A p \in Programs : "property" \in selected'[x][p] => "property" \in selected[x][p],
           \A p \in Programs : ~ alive[p] => selected'[x][p] \subseteq selected[x][p],
           excused' \in [Programs -> BOOLEAN],
           UNCHANGED <<owner, prop, maxChunk, alive, asked, faults>>
    PROVE  /\ Types' /\ Graves' /\ Peers'
           /\ act'[x] = a /\ Turn(x)'
           /\ \A p \in Programs : p # x => Turn(p)' /\ Transfer(p)'
<1>1. /\ Types /\ Graves /\ Peers /\ queue \in Queues
      /\ \A p \in Programs : Turn(p) /\ Transfer(p)
  BY InvParts
<1>2. \A p \in Programs : Quiet(p, {}, {})
  BY DEF Quiet
<1>3. /\ Types' /\ Graves' /\ Peers'
      /\ act'[x] = a
      /\ \A p \in Programs : p # x => Turn(p)' /\ Transfer(p)'
  <2>1. a.pc \notin Sending \cup {"finish"}
    BY DEF Asking, Ending, Sending
  <2>2. \A w \in Programs : {} \cap {Destroyed(w)} = {}
    OBVIOUS
  <2>3. /\ prop' \in [Programs -> Properties]
        /\ asked' \in [Programs -> Programs \cup {None}]
    BY <1>1 DEF Types
  <2>4. /\ \A p \in Programs : p # x => prop'[p] = prop[p] /\ asked'[p] = asked[p]
        /\ a.pc \in Asking => act[x].pc \in Asking /\ a.sel = act[x].sel
        /\ UNCHANGED <<owner, maxChunk, alive, faults>>
    OBVIOUS
  <2> QED
    BY <1>2, <2>1, <2>2, <2>3, <2>4, AskerStep, ZenonT(60)
<1>4. /\ \A q \in Programs : q # x => act'[q] = act[q]
      /\ act[x].pc \notin Heard /\ a.pc \notin Sending
  BY <1>1 DEF Heard, Sending, Asking, Ending
<1>5. Listens(x)' /\ Phases(x)' /\ Lone(x)'
  <2>1. a.pc \in Taking => act[x].pc \in Taking
    BY DEF Asking, Ending, Taking
  <2> QED
    BY <1>1, <1>2, <1>3, <1>4, <2>1, AskerTurn
<1>6. Mine(x)'
  <2>1. CASE a.pc \notin Asking
    BY <1>3, <2>1 DEF Mine
  <2>2. CASE a.pc \in Asking
    <3>1. \A q \in Programs : Sender(q, x)' =>
              Sender(q, x) /\ act'[q].sel = act[q].sel /\ act'[q].type = act[q].type
      BY <1>3, <1>4 DEF Sender
    <3>2. /\ a.pc \in {"discard", "fetch"} => Offered(x)
          /\ a.pc \in {"asked", "discard", "fetch", "sender"} => a.data = <<>>
          /\ act[x].pc \in Asking
      BY <1>1, <2>2 DEF Turn, Mine, Asking
    <3> QED
      BY <1>1, <1>2, <1>3, <3>1, <3>2, MineKept DEF Quiet, Turn
  <2> QED
    BY <2>1, <2>2
<1> QED
  BY <1>3, <1>5, <1>6 DEF Turn

\* x takes one event that tells of an earlier value, or there is none left.
LEMMA DiscardTakes ==
    ASSUME Inv, NEW x \in Programs, Discard(x)
    PROVE  \/ /\ Free(queue[x], {NewValue}) /\ UNCHANGED queue
              /\ act' = [act EXCEPT ![x].pc = "fetch"]
           \/ /\ \E k \in DOMAIN queue[x] : queue' = [queue EXCEPT ![x] = RemoveAt(@, k)]
              /\ UNCHANGED act
<1> DEFINE I == {i \in 1 .. Len(queue[x]) : queue[x][i] = NewValue}
           k == Min(I)
<1>1. DOMAIN queue[x] = 1 .. Len(queue[x])
  <2>1. queue[x] \in Seq(Events)
    BY InvParts DEF Queues
  <2> QED
    BY <2>1, SeqFacts
<1>2. Place(x, LAMBDA e : e = NewValue) = IF I # {} THEN k ELSE 0
  BY DEF Place, SelectInSeq
<1>3. CASE I # {}
  <2>1. I \in SUBSET (Nat \ {0}) /\ I \subseteq DOMAIN queue[x]
    BY <1>1
  <2>2. k \in I
    <3> HIDE DEF I
    <3> QED
      BY <1>3, <2>1, MinOf
  <2>3. k > 0 /\ k \in DOMAIN queue[x]
    BY <2>1, <2>2
  <2>4. queue' = [queue EXCEPT ![x] = RemoveAt(@, k)] /\ UNCHANGED act
    BY <1>2, <1>3, <2>3 DEF Discard, Place, SelectInSeq, Take
  <2> HIDE DEF k
  <2> QED
    BY <2>3, <2>4
<1>4. CASE I = {}
  <2>1. act' = [act EXCEPT ![x].pc = "fetch"] /\ UNCHANGED queue
    BY <1>2, <1>4 DEF Discard, Place, SelectInSeq, Go
  <2>2. Free(queue[x], {NewValue})
    BY <1>1, <1>4 DEF Free
  <2> QED
    BY <2>1, <2>2
<1> QED
  BY <1>3, <1>4

\* x throws away what tells of earlier values of its property.
LEMMA DiscardStep ==
    ASSUME Inv, NEW x \in Programs, Discard(x)
    PROVE  Inv'
<1>1. /\ Types /\ Graves /\ Peers /\ queue \in Queues
      /\ \A p \in Programs : Turn(p) /\ Transfer(p)
      /\ act[x] \in Activities /\ queue[x] \in Seq(Events)
  BY InvParts DEF Types
<1>2. /\ act[x].pc = "discard"
      /\ UNCHANGED <<owner, prop, selected, maxChunk, alive, asked, excused, faults>>
  BY DEF Discard, server, history
<1>3. PICK a \in Activities :
        /\ act' = [act EXCEPT ![x] = a] /\ a.pc \in {"discard", "fetch"}
        /\ a.sel = act[x].sel /\ a.type = act[x].type /\ a.ok = act[x].ok /\ a.data = act[x].data
        /\ a.pc = "fetch" => Free(queue'[x], {NewValue})
  <2> DEFINE b == [act[x] EXCEPT !.pc = "fetch"]
  <2>1. /\ b \in Activities /\ b.pc = "fetch"
        /\ b.sel = act[x].sel /\ b.type = act[x].type /\ b.ok = act[x].ok /\ b.data = act[x].data
    BY <1>1 DEF Activities, Asking
  <2>2. CASE /\ Free(queue[x], {NewValue}) /\ UNCHANGED queue
             /\ act' = [act EXCEPT ![x].pc = "fetch"]
    <3>1. act' = [act EXCEPT ![x] = b]
      BY <2>2
    <3> HIDE DEF b
    <3> QED
      BY <2>1, <2>2, <3>1
  <2>3. CASE UNCHANGED act
    <3>1. act' = [act EXCEPT ![x] = act[x]]
      BY <1>1, <2>3 DEF Types
    <3> QED
      BY <1>1, <1>2, <3>1
  <2> QED
    BY <2>2, <2>3, DiscardTakes
<1>4. queue' \in Queues /\ Sends({}, {})
  BY <1>1, DiscardTakes, RemovedSends, UnchangedSends
<1>5. /\ Types' /\ Graves' /\ Peers'
      /\ act'[x] = a /\ Turn(x)'
      /\ \A p \in Programs : p # x => Turn(p)' /\ Transfer(p)'
  <2>1. /\ selected' \in [Programs -> [Programs -> SUBSET {"property", "structure"}]]
        /\ excused' \in [Programs -> BOOLEAN]
    BY <1>1, <1>2 DEF Types
  <2>2. /\ act[x].pc \in Asking \ {"asked"} /\ a.pc \in Asking
        /\ a.pc \notin Watching
    BY <1>2, <1>3 DEF Asking, Watching
  <2> QED
    BY <1>2, <1>3, <1>4, <2>1, <2>2, AskerGoes
<1>6. Transfer(x)'
  <2>1. act[x].type # TypeList
    BY <1>1, <1>2 DEF Transfer, News
  <2> QED
    BY <1>3, <1>5, <2>1 DEF Transfer, Partly, Answers, News, InChunks, Ending
<1> QED
  BY <1>5, <1>6 DEF Inv

\* The transfer to x stays where it is while x goes on.
LEMMA TransferGoes ==
    ASSUME NEW x \in Programs, queue \in Queues, queue' \in Queues, Sends({}, {}),
           act[x].pc \in InChunks, act'[x].pc \in InChunks \ {"read"},
           act'[x].type = act[x].type, act'[x].data = act[x].data,
           \A q \in Programs : q # x => act'[q] = act[q],
           prop'[x] = prop[x], asked'[x] = asked[x],
           Transfer(x)
    PROVE  Transfer(x)'
<1>1. \A q \in Programs : Sender(q, x)' => Sender(q, x) /\ act'[q] = act[q]
  BY DEF Sender, Sending, InChunks
<1>2. Partly(x)'
  BY <1>1 DEF Transfer, Partly, Got
<1>3. Answers(x)'
  BY DEF Answers, InChunks, Ending
<1>4. /\ Free(queue[x], {NewValue}) => Free(queue'[x], {NewValue})
      /\ Single(queue[x], {NewValue}) => Single(queue'[x], {NewValue})
  BY QueueKept
<1>5. News(x)'
  BY <1>4 DEF Transfer, News, InChunks
<1> QED
  BY <1>2, <1>3, <1>5 DEF Transfer

\* Nor is there any transfer, if x has not received anything, or has all.
LEMMA NoTransfer ==
    ASSUME NEW x \in Programs,
           act'[x].pc \in Ending,
           act'[x].ok => /\ act[x].pc \in Ending /\ act[x].ok
                         /\ act'[x].data = act[x].data /\ act'[x].type = act[x].type
                         /\ asked'[x] = asked[x],
           Transfer(x)
    PROVE  Transfer(x)'
BY DEF Transfer, Partly, Answers, News, InChunks, Ending

\* x takes the present owner for the sender.
LEMMA FindSenderStep ==
    ASSUME Inv, NEW x \in Programs, FindSender(x)
    PROVE  Inv'
<1> DEFINE a == IF owner[act[x].sel] = None THEN [act[x] EXCEPT !.pc = "return"]
                ELSE [act[x] EXCEPT !.pc = "select", !.peer = owner[act[x].sel]]
<1>1. /\ Types /\ Graves /\ Peers /\ queue \in Queues
      /\ \A p \in Programs : Turn(p) /\ Transfer(p)
      /\ act[x] \in Activities
  BY InvParts DEF Types
<1>2. /\ act[x].pc = "sender"
      /\ act' = [act EXCEPT ![x] = a]
      /\ UNCHANGED <<queue, owner, prop, selected, maxChunk, alive, asked, excused, faults>>
  BY DEF FindSender, server, history
<1>3. queue' \in Queues /\ Sends({}, {})
  BY <1>1, <1>2, UnchangedSends
<1>4. /\ a \in Activities /\ a.pc \in {"return", "select"}
      /\ a.sel = act[x].sel /\ a.type = act[x].type /\ a.ok = act[x].ok /\ a.data = act[x].data
      /\ a.pc \in Watching => a.peer \in Programs \ {x}
  <2>1. owner[act[x].sel] \in Programs \cup {None} /\ owner[act[x].sel] # x
    BY <1>1, <1>2 DEF Peers, Asking, Types
  <2> QED
    BY <1>1, <2>1 DEF Activities, Asking, Ending, Watching
<1> HIDE DEF a
<1>5. /\ Types' /\ Graves' /\ Peers'
      /\ act'[x] = a /\ Turn(x)'
      /\ \A p \in Programs : p # x => Turn(p)' /\ Transfer(p)'
  <2>1. /\ selected' \in [Programs -> [Programs -> SUBSET {"property", "structure"}]]
        /\ excused' \in [Programs -> BOOLEAN]
    BY <1>1, <1>2 DEF Types
  <2>2. /\ act[x].pc \in Asking \cup Ending /\ a.pc \in Asking \cup Ending
        /\ a.pc \in Asking => act[x].pc \in Asking \ {"asked"}
        /\ a.pc \notin {"asked", "discard", "fetch", "sender"}
    BY <1>2, <1>4 DEF Asking, Ending, Watching
  <2> QED
    BY <1>2, <1>3, <1>4, <2>1, <2>2, AskerGoes
<1>6. Transfer(x)'
  <2>1. CASE a.pc = "return"
    <3>1. ~ act[x].ok
      BY <1>1, <1>2 DEF Turn, Mine, Asking
    <3> QED
      BY <1>1, <1>4, <1>5, <2>1, <3>1, NoTransfer DEF Ending
  <2>2. CASE a.pc = "select"
    <3>1. \A q \in Programs : q # x => act'[q] = act[q]
      BY <1>1, <1>2
    <3>2. act[x].pc \in InChunks /\ a.pc \in InChunks \ {"read"}
      BY <1>2, <2>2 DEF InChunks
    <3> QED
      BY <1>1, <1>2, <1>3, <1>4, <1>5, <3>1, <3>2, TransferGoes
  <2> QED
    BY <1>4, <2>1, <2>2
<1> QED
  BY <1>5, <1>6 DEF Inv

\* x does not ask for news of properties.
LEMMA SelectInputKeeps ==
    ASSUME Types, NEW x \in Programs, NEW w \in Programs, NEW mask \in SUBSET {"structure"},
           SelectInput(x, w, mask)
    PROVE  /\ selected' \in [Programs -> [Programs -> SUBSET {"property", "structure"}]]
           /\ \A q \in Programs : q # x => selected'[q] = selected[q]
           /\ \A p \in Programs : "property" \in selected'[x][p] => "property" \in selected[x][p]
           /\ \A p \in Programs : ~ alive[p] => selected'[x][p] \subseteq selected[x][p]
           /\ alive[w] => selected'[x][w] = mask
           /\ ~ alive[w] => selected' = selected
BY DEF Types, SelectInput

\* x listens for the end of that program.
LEMMA SelectSenderStep ==
    ASSUME Inv, NEW x \in Programs, SelectSender(x)
    PROVE  Inv'
<1> DEFINE a == [act[x] EXCEPT !.pc = "receive"]
<1>1. /\ Types /\ Graves /\ Peers /\ queue \in Queues
      /\ \A p \in Programs : Turn(p) /\ Transfer(p)
      /\ act[x] \in Activities
  BY InvParts DEF Types
<1>2. /\ act[x].pc = "select"
      /\ act' = [act EXCEPT ![x] = a]
      /\ UNCHANGED <<queue, owner, prop, maxChunk, alive, asked, excused, faults>>
  BY DEF SelectSender, Go, history
<1>3. queue' \in Queues /\ Sends({}, {})
  BY <1>1, <1>2, UnchangedSends
<1>4. /\ a \in Activities /\ a.pc = "receive"
      /\ a.sel = act[x].sel /\ a.type = act[x].type /\ a.ok = act[x].ok /\ a.data = act[x].data
      /\ a.pc \in Watching => a.peer \in Programs \ {x}
  BY <1>1, <1>2 DEF Activities, Asking, Ending, Watching, Peers
<1>5. /\ selected' \in [Programs -> [Programs -> SUBSET {"property", "structure"}]]
      /\ \A q \in Programs : q # x => selected'[q] = selected[q]
      /\ \A p \in Programs : "property" \in selected'[x][p] => "property" \in selected[x][p]
      /\ \A p \in Programs : ~ alive[p] => selected'[x][p] \subseteq selected[x][p]
  <2>1. act[x].peer \in Programs /\ SelectInput(x, act[x].peer, {"structure"})
    BY <1>1, <1>2 DEF Peers, Watching, SelectSender
  <2> QED
    BY <1>1, <2>1, SelectInputKeeps
<1> HIDE DEF a
<1>6. /\ Types' /\ Graves' /\ Peers'
      /\ act'[x] = a /\ Turn(x)'
      /\ \A p \in Programs : p # x => Turn(p)' /\ Transfer(p)'
  <2>1. excused' \in [Programs -> BOOLEAN]
    BY <1>1, <1>2 DEF Types
  <2>2. /\ act[x].pc \in Asking \cup Ending /\ a.pc \in Asking \cup Ending
        /\ a.pc \in Asking => act[x].pc \in Asking \ {"asked"}
        /\ a.pc \notin {"asked", "discard", "fetch", "sender"}
    BY <1>2, <1>4 DEF Asking, Ending, Watching
  <2> QED
    BY <1>2, <1>3, <1>4, <1>5, <2>1, <2>2, AskerGoes
<1>7. Transfer(x)'
  <2>1. \A q \in Programs : q # x => act'[q] = act[q]
    BY <1>1, <1>2
  <2>2. act[x].pc \in InChunks /\ a.pc \in InChunks \ {"read"}
    BY <1>2, <1>4 DEF InChunks
  <2> QED
    BY <1>1, <1>2, <1>3, <1>4, <1>6, <2>1, <2>2, TransferGoes
<1> QED
  BY <1>6, <1>7 DEF Inv

\* x listens no more.
LEMMA UnselectStep ==
    ASSUME Inv, NEW x \in Programs, Unselect(x)
    PROVE  Inv'
<1> DEFINE a == [act[x] EXCEPT !.pc = "return"]
<1>1. /\ Types /\ Graves /\ Peers /\ queue \in Queues
      /\ \A p \in Programs : Turn(p) /\ Transfer(p)
      /\ act[x] \in Activities
  BY InvParts DEF Types
<1>2. /\ act[x].pc = "unselect"
      /\ act' = [act EXCEPT ![x] = a]
      /\ UNCHANGED <<queue, owner, prop, maxChunk, alive, asked, excused, faults>>
  BY DEF Unselect, Go, history
<1>3. queue' \in Queues /\ Sends({}, {})
  BY <1>1, <1>2, UnchangedSends
<1>4. /\ a \in Activities /\ a.pc = "return"
      /\ a.sel = act[x].sel /\ a.type = act[x].type /\ a.ok = act[x].ok /\ a.data = act[x].data
      /\ a.pc \in Watching => a.peer \in Programs \ {x}
  BY <1>1, <1>2 DEF Activities, Asking, Ending, Watching, Peers
<1>5. /\ selected' \in [Programs -> [Programs -> SUBSET {"property", "structure"}]]
      /\ \A q \in Programs : q # x => selected'[q] = selected[q]
      /\ \A p \in Programs : "property" \in selected'[x][p] => "property" \in selected[x][p]
      /\ \A p \in Programs : ~ alive[p] => selected'[x][p] \subseteq selected[x][p]
  <2>1. act[x].peer \in Programs /\ SelectInput(x, act[x].peer, {})
    BY <1>1, <1>2 DEF Peers, Watching, Unselect
  <2> QED
    BY <1>1, <2>1, SelectInputKeeps
<1> HIDE DEF a
<1>6. /\ Types' /\ Graves' /\ Peers'
      /\ act'[x] = a /\ Turn(x)'
      /\ \A p \in Programs : p # x => Turn(p)' /\ Transfer(p)'
  <2>1. excused' \in [Programs -> BOOLEAN]
    BY <1>1, <1>2 DEF Types
  <2>2. /\ act[x].pc \in Asking \cup Ending /\ a.pc \in Asking \cup Ending
        /\ a.pc \in Asking => act[x].pc \in Asking \ {"asked"}
        /\ a.pc \notin {"asked", "discard", "fetch", "sender"}
    BY <1>2, <1>4 DEF Asking, Ending, Watching
  <2> QED
    BY <1>2, <1>3, <1>4, <1>5, <2>1, <2>2, AskerGoes
<1>7. Transfer(x)'
  BY <1>1, <1>2, <1>4, <1>6, NoTransfer DEF Ending
<1> QED
  BY <1>6, <1>7 DEF Inv

\* x has waited for five seconds.
LEMMA GiveUpAskingStep ==
    ASSUME Inv, NEW x \in Programs, GiveUpAsking(x)
    PROVE  Inv'
<1> DEFINE a == [act[x] EXCEPT !.pc = IF act[x].pc = "asked" THEN "return" ELSE "unselect"]
<1>1. /\ Types /\ Graves /\ Peers /\ queue \in Queues
      /\ \A p \in Programs : Turn(p) /\ Transfer(p)
      /\ act[x] \in Activities
  BY InvParts DEF Types
<1>2. /\ act[x].pc \in {"asked", "receive"}
      /\ act' = [act EXCEPT ![x] = a]
      /\ UNCHANGED <<queue, owner, prop, selected, maxChunk, alive, asked, faults>>
  BY DEF GiveUpAsking, Go, server
<1>3. queue' \in Queues /\ Sends({}, {})
  BY <1>1, <1>2, UnchangedSends
<1>4. /\ a \in Activities /\ a.pc \in Ending
      /\ a.sel = act[x].sel /\ a.type = act[x].type /\ a.ok = act[x].ok /\ a.data = act[x].data
      /\ a.pc \in Watching => a.peer \in Programs \ {x}
  BY <1>1, <1>2 DEF Activities, Asking, Ending, Watching, Peers
<1>5. excused' = [excused EXCEPT ![x] = TRUE]
  BY DEF GiveUpAsking
<1> HIDE DEF a
<1>6. /\ Types' /\ Graves' /\ Peers'
      /\ act'[x] = a /\ Turn(x)'
      /\ \A p \in Programs : p # x => Turn(p)' /\ Transfer(p)'
  <2>1. /\ selected' \in [Programs -> [Programs -> SUBSET {"property", "structure"}]]
        /\ excused' \in [Programs -> BOOLEAN]
    BY <1>1, <1>2, <1>5 DEF Types
  <2>2. /\ act[x].pc \in Asking \cup Ending /\ a.pc \in Asking \cup Ending
        /\ a.pc \in Asking => act[x].pc \in Asking \ {"asked"}
        /\ a.pc \notin {"asked", "discard", "fetch", "sender"}
    BY <1>2, <1>4 DEF Asking, Ending, Watching
  <2> QED
    BY <1>2, <1>3, <1>4, <2>1, <2>2, AskerGoes
<1>7. Transfer(x)'
  <2>1. ~ act[x].ok
    BY <1>1, <1>2 DEF Turn, Mine, Asking
  <2> QED
    BY <1>1, <1>4, <1>6, <2>1, NoTransfer
<1> QED
  BY <1>6, <1>7 DEF Inv

\* The event that tells x of the end of the sender, and what x does then.
LEMMA SenderGoneTakes ==
    ASSUME Inv, NEW x \in Programs, SenderGone(x)
    PROVE  \E k \in DOMAIN queue[x] :
             /\ queue[x][k] = Destroyed(act[x].peer)
             /\ queue' = [queue EXCEPT ![x] = RemoveAt(@, k)]
             /\ act' = [act EXCEPT ![x] = [act[x] EXCEPT !.pc = "unselect"]]
<1> DEFINE I == {i \in 1 .. Len(queue[x]) : queue[x][i] = Destroyed(act[x].peer)}
           k == Min(I)
<1>1. queue[x] \in Seq(Events)
  BY InvParts DEF Queues
<1>2. I # {}
  <2>1. Place(x, LAMBDA e : e = Destroyed(act[x].peer)) = IF I # {} THEN k ELSE 0
    BY DEF Place, SelectInSeq
  <2>2. Place(x, LAMBDA e : e = Destroyed(act[x].peer)) > 0
    BY DEF SenderGone
  <2> QED
    BY <2>1, <2>2
<1>3. /\ queue' = [queue EXCEPT ![x] = RemoveAt(@, k)]
      /\ act' = [act EXCEPT ![x] = [act[x] EXCEPT !.pc = "unselect"]]
  BY <1>2 DEF SenderGone, Place, SelectInSeq, Take, Go
<1>4. k \in I
  <2>1. I \in SUBSET Nat
    OBVIOUS
  <2> HIDE DEF I
  <2> QED
    BY <1>2, <2>1, MinOf
<1>5. k \in DOMAIN queue[x] /\ queue[x][k] = Destroyed(act[x].peer)
  BY <1>1, <1>4, SeqFacts
<1> HIDE DEF k
<1> QED
  BY <1>3, <1>5

\* x hears of the end of the sender.
LEMMA SenderGoneStep ==
    ASSUME Inv, NEW x \in Programs, SenderGone(x)
    PROVE  Inv'
<1> DEFINE a == [act[x] EXCEPT !.pc = "unselect"]
<1>1. /\ Types /\ Graves /\ Peers /\ queue \in Queues
      /\ \A p \in Programs : Turn(p) /\ Transfer(p)
      /\ act[x] \in Activities /\ queue[x] \in Seq(Events)
  BY InvParts DEF Types
<1>2. PICK k \in DOMAIN queue[x] :
        /\ queue[x][k] = Destroyed(act[x].peer)
        /\ queue' = [queue EXCEPT ![x] = RemoveAt(@, k)]
        /\ act' = [act EXCEPT ![x] = a]
  BY SenderGoneTakes
<1>3. /\ act[x].pc = "receive"
      /\ queue' = [queue EXCEPT ![x] = RemoveAt(@, k)]
      /\ act' = [act EXCEPT ![x] = a]
      /\ UNCHANGED <<owner, prop, selected, maxChunk, alive, asked, excused, faults>>
  BY <1>2 DEF SenderGone, server, history
<1>4. queue' \in Queues /\ queue'[x] = RemoveAt(queue[x], k) /\ Sends({}, {})
  BY <1>1, <1>3, <1>2, RemovedSends
<1>5. /\ a \in Activities /\ a.pc = "unselect" /\ a.peer = act[x].peer
      /\ a.sel = act[x].sel /\ a.type = act[x].type /\ a.ok = act[x].ok /\ a.data = act[x].data
      /\ a.peer \in Programs \ {x}
  BY <1>1, <1>3 DEF Activities, Asking, Ending, Watching, Peers
<1> HIDE DEF a
<1>6. /\ Types' /\ Graves' /\ Peers'
      /\ act'[x] = a /\ Turn(x)'
      /\ \A p \in Programs : p # x => Turn(p)' /\ Transfer(p)'
  <2>1. /\ selected' \in [Programs -> [Programs -> SUBSET {"property", "structure"}]]
        /\ excused' \in [Programs -> BOOLEAN]
    BY <1>1, <1>3 DEF Types
  <2>2. /\ act[x].pc \in Asking \cup Ending /\ a.pc \in Asking \cup Ending
        /\ a.pc \in Asking => act[x].pc \in Asking \ {"asked"}
        /\ a.pc \notin {"asked", "discard", "fetch", "sender"}
    BY <1>3, <1>5 DEF Asking, Ending
  <2> QED
    BY <1>3, <1>4, <1>5, <2>1, <2>2, AskerGoes
<1>7. Transfer(x)'
  <2>1. ~ act[x].ok
    BY <1>1, <1>3 DEF Turn, Mine, Asking
  <2> QED
    BY <1>1, <1>5, <1>6, <2>1, NoTransfer DEF Ending
<1> QED
  BY <1>6, <1>7 DEF Inv

\* The event that tells x of a chunk, and what x does then.
LEMMA ChunkThereTakes ==
    ASSUME Inv, NEW x \in Programs, ChunkThere(x)
    PROVE  \E k \in DOMAIN queue[x] :
             /\ queue[x][k] = NewValue
             /\ queue' = [queue EXCEPT ![x] = RemoveAt(@, k)]
             /\ act' = [act EXCEPT ![x] = [act[x] EXCEPT !.pc = "read"]]
<1> DEFINE I == {i \in 1 .. Len(queue[x]) : queue[x][i] = NewValue}
           k == Min(I)
<1>1. queue[x] \in Seq(Events)
  BY InvParts DEF Queues
<1>2. I # {}
  <2>1. Place(x, LAMBDA e : e = NewValue) = IF I # {} THEN k ELSE 0
    BY DEF Place, SelectInSeq
  <2>2. Place(x, LAMBDA e : e = NewValue) > 0
    BY DEF ChunkThere
  <2> QED
    BY <2>1, <2>2
<1>3. /\ queue' = [queue EXCEPT ![x] = RemoveAt(@, k)]
      /\ act' = [act EXCEPT ![x] = [act[x] EXCEPT !.pc = "read"]]
  BY <1>2 DEF ChunkThere, Place, SelectInSeq, Take, Go
<1>4. k \in I
  <2>1. I \in SUBSET Nat
    OBVIOUS
  <2> HIDE DEF I
  <2> QED
    BY <1>2, <2>1, MinOf
<1>5. k \in DOMAIN queue[x] /\ queue[x][k] = NewValue
  BY <1>1, <1>4, SeqFacts
<1> HIDE DEF k
<1> QED
  BY <1>3, <1>5

\* x hears of a chunk: there is one to be read.
LEMMA ChunkThereStep ==
    ASSUME Inv, NEW x \in Programs, ChunkThere(x)
    PROVE  Inv'
<1> DEFINE a == [act[x] EXCEPT !.pc = "read"]
<1>1. /\ Types /\ Graves /\ Peers /\ queue \in Queues
      /\ \A p \in Programs : Turn(p) /\ Transfer(p)
      /\ act[x] \in Activities /\ queue[x] \in Seq(Events)
  BY InvParts DEF Types
<1>2. PICK k \in DOMAIN queue[x] :
        /\ queue[x][k] = NewValue
        /\ queue' = [queue EXCEPT ![x] = RemoveAt(@, k)]
        /\ act' = [act EXCEPT ![x] = a]
  BY ChunkThereTakes
<1>3. /\ act[x].pc = "receive"
      /\ queue' = [queue EXCEPT ![x] = RemoveAt(@, k)]
      /\ act' = [act EXCEPT ![x] = a]
      /\ UNCHANGED <<owner, prop, selected, maxChunk, alive, asked, excused, faults>>
  BY <1>2 DEF ChunkThere, server, history
<1>4. queue' \in Queues /\ queue'[x] = RemoveAt(queue[x], k) /\ Sends({}, {})
  BY <1>1, <1>3, <1>2, RemovedSends
<1>5. /\ a \in Activities /\ a.pc = "read" /\ a.peer = act[x].peer
      /\ a.sel = act[x].sel /\ a.type = act[x].type /\ a.ok = act[x].ok /\ a.data = act[x].data
      /\ a.peer \in Programs \ {x}
  BY <1>1, <1>3 DEF Activities, Asking, Ending, Watching, Peers
<1> HIDE DEF a
<1>6. /\ Types' /\ Graves' /\ Peers'
      /\ act'[x] = a /\ Turn(x)'
      /\ \A p \in Programs : p # x => Turn(p)' /\ Transfer(p)'
  <2>1. /\ selected' \in [Programs -> [Programs -> SUBSET {"property", "structure"}]]
        /\ excused' \in [Programs -> BOOLEAN]
    BY <1>1, <1>3 DEF Types
  <2>2. /\ act[x].pc \in Asking \cup Ending /\ a.pc \in Asking \cup Ending
        /\ a.pc \in Asking => act[x].pc \in Asking \ {"asked"}
        /\ a.pc \notin {"asked", "discard", "fetch", "sender"}
    BY <1>3, <1>5 DEF Asking, Ending
  <2> QED
    BY <1>3, <1>4, <1>5, <2>1, <2>2, AskerGoes
<1>7. Transfer(x)'
  <2>1. /\ Free(queue'[x], {NewValue})
        /\ ~ Free(queue[x], {NewValue}) /\ prop[x] # NoProperty
    BY <1>1, <1>3, <1>2, <1>4, RemoveTheOne DEF Transfer, News, InChunks, Free
  <2>2. \A q \in Programs : Sender(q, x)' => Sender(q, x) /\ act'[q] = act[q]
    BY <1>1, <1>3, <1>5, <1>6 DEF Sender, Sending
  <2>3. Partly(x)'
    <3>1. /\ act'[x].type = act[x].type /\ act'[x].data = act[x].data
          /\ asked'[x] = asked[x] /\ prop'[x] = prop[x] /\ act[x].pc \in InChunks
      BY <1>3, <1>5, <1>6 DEF InChunks
    <3> QED
      BY <1>1, <2>2, <3>1 DEF Transfer, Partly, Got
  <2>4. Answers(x)'
    BY <1>5, <1>6 DEF Answers, Ending
  <2>5. News(x)'
    BY <1>1, <1>3, <1>5, <1>6, <2>1 DEF Transfer, News, InChunks, Free, Single
  <2> QED
    BY <2>3, <2>4, <2>5 DEF Transfer
<1> QED
  BY <1>6, <1>7 DEF Inv

\* x returns what it has.
LEMMA ReturnStep ==
    ASSUME Inv, NEW x \in Programs, Return(x)
    PROVE  Inv'
<1> DEFINE a == Idle
<1>1. /\ Types /\ Graves /\ Peers /\ queue \in Queues
      /\ \A p \in Programs : Turn(p) /\ Transfer(p)
  BY InvParts
<1>2. /\ act[x].pc = "return"
      /\ act' = [act EXCEPT ![x] = Idle]
      /\ asked' = [asked EXCEPT ![x] = None]
      /\ excused' = [excused EXCEPT ![x] = FALSE]
      /\ UNCHANGED <<queue, owner, prop, selected, maxChunk, alive, faults>>
  BY DEF Return, server
<1>3. queue' \in Queues /\ Sends({}, {}) /\ \A p \in Programs : Quiet(p, {}, {})
  BY <1>1, <1>2, UnchangedSends DEF Quiet
<1>4. Idle \in Activities /\ Idle.pc = "idle"
  BY IdleTypes
<1>5. /\ Types' /\ Graves' /\ Peers'
      /\ act'[x] = Idle
      /\ \A p \in Programs : p # x => Turn(p)' /\ Transfer(p)'
  <2>1. /\ act[x].pc \in Asking \cup Ending /\ a \in Activities
        /\ act' = [act EXCEPT ![x] = a]
        /\ a.pc \notin Sending \cup {"finish"} /\ a.pc \notin Watching
        /\ a.pc \in Asking => act[x].pc \in Asking /\ a.sel = act[x].sel
    BY <1>2, <1>4 DEF Asking, Ending, Sending, Watching
  <2>2. \A w \in Programs : {} \cap {Destroyed(w)} = {}
    OBVIOUS
  <2>3. /\ prop' \in [Programs -> Properties]
        /\ selected' \in [Programs -> [Programs -> SUBSET {"property", "structure"}]]
        /\ asked' \in [Programs -> Programs \cup {None}]
        /\ \A p \in Programs : p # x => prop'[p] = prop[p] /\ asked'[p] = asked[p]
        /\ excused' \in [Programs -> BOOLEAN]
    BY <1>1, <1>2 DEF Types
  <2>4. /\ UNCHANGED <<owner, maxChunk, alive, faults>>
        /\ \A q \in Programs : q # x => selected'[q] = selected[q]
        /\ \A p \in Programs : "property" \in selected'[x][p] => "property" \in selected[x][p]
        /\ \A p \in Programs : ~ alive[p] => selected'[x][p] \subseteq selected[x][p]
    BY <1>2
  <2>5. /\ Types' /\ Graves' /\ Peers'
        /\ act'[x] = a
        /\ \A p \in Programs : p # x => Turn(p)' /\ Transfer(p)'
    <3> HIDE DEF a
    <3> QED
      BY <1>3, <2>1, <2>2, <2>3, <2>4, AskerStep, ZenonT(60)
  <2> QED
    BY <2>5
<1>6. Lone(x)' /\ Listens(x)' /\ Phases(x)'
  <2>1. /\ \A q \in Programs : q # x => act'[q] = act[q] /\ selected'[q] = selected[q]
        /\ act[x].pc \notin Heard /\ act'[x].pc \notin Sending /\ act'[x].pc \notin Taking
    BY <1>1, <1>2, <1>4, <1>5 DEF Types, Heard, Sending, Taking
  <2> QED
    BY <1>1, <1>2, <1>3, <2>1, AskerTurn
<1>7. Mine(x)' /\ Transfer(x)'
  BY <1>4, <1>5 DEF Mine, Asking, Transfer, Partly, Answers, News, InChunks, Ending
<1> QED
  BY <1>5, <1>6, <1>7 DEF Inv, Turn

\* To delete a value tells those who listen, if there was one.
LEMMA DeletedSends ==
    ASSUME queue \in Queues, prop \in [Programs -> Properties], NEW x \in Programs, DeleteProperty(x)
    PROVE  /\ queue' \in Queues
           /\ Sends({q \in Programs : "property" \in selected[q][x]}, {Deleted(x)})
           /\ prop[x] = NoProperty => queue' = queue
           /\ prop' \in [Programs -> Properties] /\ prop'[x] = NoProperty
           /\ \A p \in Programs : p # x => prop'[p] = prop[p]
<1> DEFINE to == {q \in Programs : "property" \in selected[q][x]}
<1>1. /\ prop' = [prop EXCEPT ![x] = NoProperty]
      /\ queue' = IF prop[x] = NoProperty THEN queue ELSE Post(queue, to, Deleted(x))
  BY DEF DeleteProperty
<1>2. NoProperty \in Properties
  BY DEF NoProperty, Properties
<1>3. Deleted(x) \in Events
  BY EventKinds
<1> HIDE DEF to
<1>4. queue' \in Queues /\ Sends(to, {Deleted(x)})
  <2>1. CASE prop[x] = NoProperty
    <3>1. \A q \in Programs : queue[q] \in Seq(Events)
      BY DEF Queues
    <3> QED
      BY <1>1, <2>1, <3>1, FromSame DEF Sends
  <2>2. CASE prop[x] # NoProperty
    <3>1. queue' = Post(queue, to, Deleted(x))
      BY <1>1, <2>2
    <3> QED
      BY <1>3, <3>1, PostedSends
  <2> QED
    BY <2>1, <2>2
<1> QED
  BY <1>1, <1>2, <1>4 DEF to

\* A program that takes the value of its property lets its sender go on.
LEMMA DeletionKeeps ==
    ASSUME queue \in Queues, prop \in [Programs -> Properties], NEW x \in Programs, Turn(x),
           DeleteProperty(x),
           act[x].pc \in Taking, act'[x].pc \in Taking \cup Ending,
           \A q \in Programs : q # x => act'[q] = act[q],
           UNCHANGED <<selected, alive>>
    PROVE  Lone(x)' /\ Listens(x)' /\ Phases(x)'
<1> DEFINE to == {q \in Programs : "property" \in selected[q][x]}
<1>1. /\ queue' \in Queues /\ Sends(to, {Deleted(x)})
      /\ prop[x] = NoProperty => queue' = queue
      /\ prop'[x] = NoProperty
  BY DeletedSends
<1> HIDE DEF to
<1>2. /\ {Deleted(x)} \cap Requests(x) = {} /\ {Deleted(x)} \cap Notices = {}
  BY Apart
<1>3. \A q \in Programs : Sender(q, x)' => Sender(q, x) /\ act'[q] = act[q]
  BY DEF Sender, Sending, Taking, Ending
<1>4. Lone(x)'
  BY <1>1, <1>2, <1>3, LoneKept DEF Turn
<1>5. ASSUME NEW q \in Programs, Sender(q, x)
      PROVE  /\ act[q].pc \in Late
             /\ prop[x] # NoProperty => Undeleted(q, x) /\ act[q].pc # "send" /\ ~ act[q].failed
  <2>1. act[q].pc \in Late /\ Phase(q, x)
    BY <1>5 DEF Turn, Lone, Phases
  <2> QED
    BY <2>1 DEF Phase, Late
<1>6. Listens(x)'
  <2>1. ASSUME NEW q \in Programs
        PROVE  Behind(queue'[q], Requests(x), {Deleted(x)})
    <3>1. Free(queue[q], Requests(x))
      BY DEF Turn, Lone
    <3> QED
      BY <1>1, <3>1, FirstSent
  <2>2. ASSUME NEW q \in Programs, Sender(q, x)
        PROVE  Single(queue'[q], {Deleted(x)})
    <3>1. CASE prop[x] = NoProperty
      BY <1>1, <2>2, <3>1 DEF Turn, Listens
    <3>2. CASE prop[x] # NoProperty
      <4>1. Free(queue[q], {Deleted(x)})
        BY <1>5, <2>2, <3>2 DEF Undeleted
      <4> QED
        BY <1>1, <4>1, FirstSent
    <3> QED
      BY <3>1, <3>2
  <2>3. \A q \in Programs : "property" \in selected'[q][x] =>
          act'[q].peer = x /\ act'[q].pc \in Heard
    BY DEF Turn, Listens, Heard, Taking
  <2> QED
    BY <1>3, <2>1, <2>2, <2>3 DEF Listens
<1>7. ASSUME NEW q \in Programs, Sender(q, x)'
      PROVE  Phase(q, x)'
  <2>1. Sender(q, x) /\ act'[q] = act[q] /\ Phase(q, x) /\ act[q].pc \in Late
    BY <1>3, <1>5, <1>7 DEF Turn, Phases
  <2>2. CASE prop[x] = NoProperty
    BY <1>1, <2>1, <2>2 DEF Phase, Undeleted
  <2>3. CASE prop[x] # NoProperty
    BY <1>1, <1>5, <2>1, <2>3 DEF Phase, Late, Early
  <2> QED
    BY <2>2, <2>3
<1> QED
  BY <1>4, <1>6, <1>7 DEF Phases

\* No units are the empty sequence.
LEMMA NoUnits ==
    ASSUME NEW p, NEW t, NEW n
    PROVE  Units(p, t, n, 0) = <<>>
<1>1. 1 .. 0 = {}
  OBVIOUS
<1> QED
  BY <1>1 DEF Units

AreUnits(s, p, t, from, n) ==
    s \in Seq({p} \X {t} \X Nat) /\ Len(s) = n /\ \A k \in 1 .. n : s[k] = <<p, t, from + k>>

\* There are as many units as are asked for, one after the other.
LEMMA UnitsLength ==
    ASSUME NEW p, NEW t, NEW from \in Nat, NEW n \in Nat
    PROVE  AreUnits(Units(p, t, from, n), p, t, from, n)
<1> DEFINE u == Units(p, t, from, n)
           S == {p} \X {t} \X Nat
<1>1. u \in [1 .. n -> S]
  BY DEF Units
<1>2. \A k \in 1 .. n : u[k] = <<p, t, from + k>>
  BY DEF Units
<1> HIDE DEF u, S
<1>3. u \in Seq(S) /\ Len(u) = n
  BY <1>1, FunctionIsSeq
<1> QED
  BY <1>2, <1>3 DEF u, S, AreUnits

\* One chunk after the other.
LEMMA UnitsConcat ==
    ASSUME NEW p, NEW t, NEW n \in Nat, NEW m \in Nat
    PROVE  /\ Units(p, t, 0, n) \o Units(p, t, n, m) = Units(p, t, 0, n + m)
           /\ Len(Units(p, t, 0, n + m)) = n + m
<1> DEFINE S == {p} \X {t} \X Nat
           z == 0
           u == Units(p, t, z, n)
           v == Units(p, t, n, m)
           sum == n + m
           w == Units(p, t, z, sum)
<1>1. z \in Nat /\ z = 0 /\ sum \in Nat /\ sum = n + m
  OBVIOUS
<1> HIDE DEF z, sum
<1>2. AreUnits(u, p, t, z, n) /\ AreUnits(v, p, t, n, m) /\ AreUnits(w, p, t, z, sum)
  BY <1>1, UnitsLength
<1> HIDE DEF u, v, w
<1>3. /\ u \in Seq(S) /\ Len(u) = n /\ \A k \in 1 .. n : u[k] = <<p, t, z + k>>
      /\ v \in Seq(S) /\ Len(v) = m /\ \A k \in 1 .. m : v[k] = <<p, t, n + k>>
      /\ w \in Seq(S) /\ Len(w) = sum /\ \A k \in 1 .. sum : w[k] = <<p, t, z + k>>
  BY <1>2 DEF AreUnits
<1> HIDE DEF S
<1>4. /\ u \o v \in Seq(S) /\ Len(u \o v) = sum
      /\ \A k \in 1 .. sum : (u \o v)[k] = IF k <= n THEN u[k] ELSE v[k - n]
  <2>1. /\ u \o v \in Seq(S) /\ Len(u \o v) = Len(u) + Len(v)
        /\ \A k \in 1 .. Len(u) + Len(v) :
              (u \o v)[k] = IF k <= Len(u) THEN u[k] ELSE v[k - Len(u)]
    BY <1>3, ConcatProperties
  <2> QED
    BY <1>1, <1>3, <2>1
<1>5. ASSUME NEW k \in 1 .. sum
      PROVE  (u \o v)[k] = w[k]
  <2>1. w[k] = <<p, t, k>>
    BY <1>1, <1>3
  <2>2. CASE k <= n
    <3>1. k \in 1 .. n
      BY <1>1, <2>2
    <3>2. u[k] = <<p, t, k>>
      BY <1>1, <1>3, <3>1
    <3> QED
      BY <1>4, <2>1, <2>2, <3>2
  <2>3. CASE ~ (k <= n)
    <3>1. k - n \in 1 .. m /\ n + (k - n) = k
      BY <1>1, <2>3
    <3>2. v[k - n] = <<p, t, k>>
      BY <1>3, <3>1
    <3> QED
      BY <1>4, <2>1, <2>3, <3>2
  <2> QED
    BY <2>2, <2>3
<1>6. u \o v = w
  BY <1>3, <1>4, <1>5, SeqEqual
<1>7. u \o v = w /\ Len(w) = sum
  BY <1>3, <1>6
<1> QED
  BY <1>1, <1>7 DEF u, v, w

\* x reads and deletes its property: all of the data, or what announces them.
LEMMA FetchStep ==
    ASSUME Inv, NEW x \in Programs, Fetch(x)
    PROVE  Inv'
<1> DEFINE mismatch == prop[x].kind = "INCR" /\ act[x].type = TypeList
           back == [act[x] EXCEPT !.pc = "return"]
           full == [act[x] EXCEPT !.pc = "return", !.ok = TRUE, !.data = prop[x].units]
           more == [act[x] EXCEPT !.pc = "sender"]
           a == IF prop[x].kind = "INCR" THEN IF mismatch THEN back ELSE more
                ELSE IF prop[x].kind = "data" THEN full ELSE back
           to == {q \in Programs : "property" \in selected[q][x]}
<1>1. /\ Types /\ Graves /\ Peers /\ queue \in Queues
      /\ \A p \in Programs : Turn(p) /\ Transfer(p)
      /\ act[x] \in Activities /\ prop[x] \in Properties
      /\ prop \in [Programs -> Properties]
  BY InvParts DEF Types
<1>2. /\ act[x].pc = "fetch"
      /\ IF mismatch THEN UNCHANGED <<prop, queue>> ELSE DeleteProperty(x)
      /\ act' = [act EXCEPT ![x] = a]
      /\ UNCHANGED <<owner, selected, maxChunk, alive, asked, excused, faults>>
  BY DEF Fetch, Go, history
<1>3. /\ a \in Activities /\ a.pc \in {"return", "sender"}
      /\ a.sel = act[x].sel /\ a.type = act[x].type
      /\ a.pc = "return" => \/ a.ok = act[x].ok
                            \/ prop[x].kind = "data" /\ a.data = prop[x].units
      /\ a.pc = "sender" =>
            /\ prop[x].kind = "INCR" /\ ~ mismatch
            /\ a.data = act[x].data /\ a.ok = act[x].ok
      /\ mismatch => a.pc = "return" /\ a.ok = act[x].ok /\ a.data = act[x].data
  BY <1>1 DEF Activities, Properties, Asking, Ending
<1>4. /\ Offered(x) /\ ~ act[x].ok /\ act[x].data = <<>>
  BY <1>1, <1>2 DEF Turn, Mine, Asking
<1> HIDE DEF a
<1>5. CASE mismatch
  <2>1. queue' \in Queues /\ Sends({}, {})
    BY <1>1, <1>2, <1>5, UnchangedSends
  <2>2. /\ selected' \in [Programs -> [Programs -> SUBSET {"property", "structure"}]]
        /\ excused' \in [Programs -> BOOLEAN]
    BY <1>1, <1>2 DEF Types
  <2>3. /\ act[x].pc \in Asking \cup Ending /\ a.pc \in Asking \cup Ending
        /\ a.pc \notin Asking /\ a.pc \notin Watching /\ a.pc = "return"
    BY <1>2, <1>3, <1>5 DEF Asking, Ending, Watching
  <2>4. /\ Types' /\ Graves' /\ Peers'
        /\ act'[x] = a /\ Turn(x)'
        /\ \A p \in Programs : p # x => Turn(p)' /\ Transfer(p)'
    <3>1. UNCHANGED <<owner, prop, selected, maxChunk, alive, asked, excused, faults>>
      BY <1>2, <1>5
    <3> HIDE DEF mismatch
    <3> QED
      BY <1>2, <1>3, <1>5, <2>1, <2>2, <2>3, <3>1, AskerGoes
  <2>5. Transfer(x)'
    BY <1>1, <1>3, <1>4, <1>5, <2>3, <2>4, NoTransfer DEF Ending
  <2> QED
    BY <2>4, <2>5 DEF Inv
<1>6. CASE ~ mismatch
  <2>1. /\ queue' \in Queues /\ Sends(to, {Deleted(x)})
        /\ prop' \in [Programs -> Properties] /\ prop'[x] = NoProperty
        /\ \A p \in Programs : p # x => prop'[p] = prop[p]
    BY <1>1, <1>2, <1>6, DeletedSends
  <2> HIDE DEF to, mismatch
  <2>2. /\ \A p \in Programs : p # x => Quiet(p, to, {Deleted(x)})
        /\ \A w \in Programs : {Deleted(x)} \cap {Destroyed(w)} = {}
    BY Apart DEF Quiet
  <2>3. /\ Types' /\ Graves' /\ Peers'
        /\ act'[x] = a
        /\ \A p \in Programs : p # x => Turn(p)' /\ Transfer(p)'
    <3>1. /\ act[x].pc \in Asking \cup Ending
          /\ a.pc \notin Sending \cup {"finish"} /\ a.pc \notin Watching
          /\ a.pc \in Asking => act[x].pc \in Asking /\ a.sel = act[x].sel
      BY <1>2, <1>3 DEF Asking, Ending, Watching, Sending
    <3>2. /\ selected' \in [Programs -> [Programs -> SUBSET {"property", "structure"}]]
          /\ asked' \in [Programs -> Programs \cup {None}]
          /\ excused' \in [Programs -> BOOLEAN]
          /\ UNCHANGED <<owner, selected, maxChunk, alive, asked, faults>>
      BY <1>1, <1>2 DEF Types
    <3> QED
      BY <1>2, <1>3, <2>1, <2>2, <3>1, <3>2, AskerStep, ZenonT(60)
  <2>4. \A q \in Programs : q # x => act'[q] = act[q]
    BY <1>1, <1>2
  <2>5. Lone(x)' /\ Listens(x)' /\ Phases(x)'
    <3>1. act[x].pc \in Taking /\ act'[x].pc \in Taking \cup Ending /\ DeleteProperty(x)
      BY <1>2, <1>3, <1>6, <2>3 DEF Taking, Ending
    <3> QED
      BY <1>1, <1>2, <2>4, <3>1, DeletionKeeps
  <2>6. CASE a.pc = "return"
    <3>1. Mine(x)'
      BY <2>3, <2>6 DEF Mine, Asking
    <3>2. a.ok => a.data = Contents(asked[x], a.type)
      <4> SUFFICES ASSUME a.ok
                   PROVE  a.data = Contents(asked[x], act[x].type)
        BY <1>3
      <4>1. prop[x].kind = "data" /\ a.data = prop[x].units
        BY <1>3, <1>4, <2>6
      <4>2. prop[x] = Data(Contents(asked[x], act[x].type))
        BY <1>4, <4>1 DEF Offered, Incr
      <4> QED
        BY <4>1, <4>2 DEF Data
    <3>3. Transfer(x)'
      BY <1>2, <2>3, <2>6, <3>2 DEF Transfer, Partly, Answers, News, InChunks, Ending
    <3> QED
      BY <2>3, <2>5, <3>1, <3>3 DEF Inv, Turn
  <2>7. CASE a.pc = "sender"
    <3>1. /\ prop[x].kind = "INCR" /\ prop[x] = Incr(asked[x], act[x].type)
          /\ a.data = <<>> /\ ~ a.ok /\ a.type # TypeList
      BY <1>3, <1>4, <2>7 DEF Offered, Data, mismatch
    <3>2. \A q \in Programs : Sender(q, x)' => Sender(q, x) /\ act'[q] = act[q]
      BY <2>3, <2>4, <2>7 DEF Sender, Sending
    <3>3. Mine(x)'
      <4>1. /\ \A q \in Programs : Free(queue'[q], Requests(x))
            /\ Free(queue'[x], Notices)
        BY <2>3, <2>5, <2>7 DEF Lone, Taking
      <4> QED
        BY <1>1, <1>2, <1>3, <2>3, <2>7, <3>1, <3>2, <4>1 DEF Mine, Turn, Free, Asking
    <3>4. \A q \in Programs : Sender(q, x)' => act'[q].pc = "invited"
      <4> SUFFICES ASSUME NEW q \in Programs, Sender(q, x)'
                   PROVE  act'[q].pc = "invited"
        OBVIOUS
      <4>1. Sender(q, x) /\ act'[q] = act[q] /\ Phase(q, x)
        BY <1>1, <3>2 DEF Turn, Phases
      <4>2. act[q].pc \in Late
        BY <1>1, <1>2, <4>1 DEF Turn, Lone, Taking
      <4> QED
        BY <3>1, <4>1, <4>2 DEF Phase, Late, NoProperty, Data
    <3>5. Partly(x)'
      <4>1. /\ act'[x].data = <<>> /\ Len(<<>>) = 0
            /\ Units(asked'[x], act'[x].type, 0, 0) = <<>>
            /\ Length[act'[x].type] \in Nat
        BY <1>3, <2>3, <3>1, NoUnits, SelectionsAssumption DEF Activities, Kinds
      <4> QED
        BY <2>1, <3>4, <4>1 DEF Partly, Got
    <3>6. News(x)'
      <4>1. Free(queue[x], {NewValue}) /\ {Deleted(x)} \cap {NewValue} = {}
        BY <1>1, <1>2, <1>3, <3>1, Apart DEF Transfer, News
      <4>2. Free(queue'[x], {NewValue})
        BY <1>1, <2>1, <4>1, QueueKept
      <4> QED
        BY <2>3, <2>7, <3>1, <4>2 DEF News, Free, Single
    <3>7. Answers(x)'
      BY <2>3, <2>7 DEF Answers, Ending
    <3> QED
      BY <2>3, <2>5, <3>3, <3>5, <3>6, <3>7 DEF Inv, Turn, Transfer
  <2> QED
    BY <1>3, <2>6, <2>7
<1> QED
  BY <1>5, <1>6

\* x reads and deletes a chunk, which goes on where the data received so far end.
LEMMA ReadChunkStep ==
    ASSUME Inv, NEW x \in Programs, ReadChunk(x)
    PROVE  Inv'
<1> DEFINE last == [act[x] EXCEPT !.pc = "unselect", !.ok = act[x].data # <<>>]
           more == [act[x] EXCEPT !.pc = "receive", !.data = act[x].data \o prop[x].units]
           a == IF prop[x].units = <<>> THEN last ELSE more
           to == {q \in Programs : "property" \in selected[q][x]}
           t == act[x].type
           all == Length[t]
           got == Len(act[x].data)
<1>1. /\ Types /\ Graves /\ Peers /\ queue \in Queues
      /\ \A p \in Programs : Turn(p) /\ Transfer(p)
      /\ act[x] \in Activities /\ prop[x] \in Properties
      /\ prop \in [Programs -> Properties]
  BY InvParts DEF Types
<1>2. /\ act[x].pc = "read" /\ prop[x] # NoProperty /\ DeleteProperty(x)
      /\ UNCHANGED <<owner, selected, maxChunk, alive, asked, excused, faults>>
  BY <1>1 DEF ReadChunk, history, Transfer, News
<1>3. act' = [act EXCEPT ![x] = a]
  BY <1>2 DEF ReadChunk
<1>4. /\ a \in Activities /\ a.pc \in {"unselect", "receive"}
      /\ a.sel = act[x].sel /\ a.type = t /\ a.peer = act[x].peer
      /\ a.peer \in Programs \ {x}
      /\ prop[x].units = <<>> <=> a.pc = "unselect"
      /\ a.pc = "unselect" => a.data = act[x].data
      /\ a.pc = "receive" => a.data = act[x].data \o prop[x].units /\ a.ok = act[x].ok
  <2>1. act[x].peer \in Programs \ {x}
    BY <1>1, <1>2 DEF Peers, Watching
  <2>2. act[x].data \o prop[x].units \in Seq(Unit) /\ (act[x].data # <<>>) \in BOOLEAN
    BY <1>1 DEF Activities, Properties
  <2>3. /\ last \in Activities /\ last.pc = "unselect" /\ last.sel = act[x].sel /\ last.type = t
        /\ last.peer = act[x].peer /\ last.data = act[x].data
    BY <1>1 DEF Activities, Asking, Ending
  <2>4. /\ more \in Activities /\ more.pc = "receive" /\ more.sel = act[x].sel /\ more.type = t
        /\ more.peer = act[x].peer /\ more.data = act[x].data \o prop[x].units
        /\ more.ok = act[x].ok
    BY <1>1, <2>2 DEF Activities, Asking, Ending
  <2> HIDE DEF last, more
  <2> QED
    BY <2>1, <2>3, <2>4
<1> HIDE DEF a
<1>5. /\ queue' \in Queues /\ Sends(to, {Deleted(x)})
      /\ prop' \in [Programs -> Properties] /\ prop'[x] = NoProperty
      /\ \A p \in Programs : p # x => prop'[p] = prop[p]
  BY <1>1, <1>2, DeletedSends
<1> HIDE DEF to
<1>6. /\ \A p \in Programs : p # x => Quiet(p, to, {Deleted(x)})
      /\ \A w \in Programs : {Deleted(x)} \cap {Destroyed(w)} = {}
  BY Apart DEF Quiet
<1>7. /\ Types' /\ Graves' /\ Peers'
      /\ act'[x] = a
      /\ \A p \in Programs : p # x => Turn(p)' /\ Transfer(p)'
  <2>1. /\ act[x].pc \in Asking \cup Ending
        /\ a.pc \notin Sending \cup {"finish"}
        /\ a.pc \in Asking => act[x].pc \in Asking /\ a.sel = act[x].sel
    BY <1>2, <1>4 DEF Asking, Ending, Sending
  <2>2. /\ selected' \in [Programs -> [Programs -> SUBSET {"property", "structure"}]]
        /\ asked' \in [Programs -> Programs \cup {None}]
        /\ excused' \in [Programs -> BOOLEAN]
        /\ UNCHANGED <<owner, selected, maxChunk, alive, asked, faults>>
    BY <1>1, <1>2 DEF Types
  <2> HIDE DEF t
  <2> QED
    BY <1>3, <1>4, <1>5, <1>6, <2>1, <2>2, AskerStep, ZenonT(60)
<1>8. \A q \in Programs : q # x => act'[q] = act[q]
  BY <1>1, <1>3
<1>9. Lone(x)' /\ Listens(x)' /\ Phases(x)'
  <2>1. act[x].pc \in Taking /\ act'[x].pc \in Taking \cup Ending
    BY <1>2, <1>4, <1>7 DEF Taking, Ending
  <2> QED
    BY <1>1, <1>2, <1>8, <2>1, DeletionKeeps
<1>10. /\ act[x].data = Units(asked[x], t, 0, got) /\ got <= all
       /\ \/ prop[x] = Data(<<>>) /\ got = all
          \/ \E m \in 1 .. all : got + m <= all /\ prop[x] = Data(Units(asked[x], t, got, m))
       /\ got \in Nat /\ all \in Nat /\ t \in Kinds
  <2>1. Partly(x) /\ act[x].pc \in InChunks
    BY <1>1, <1>2 DEF Transfer, InChunks
  <2>2. got \in Nat /\ all \in Nat /\ t \in Kinds
    BY <1>1, SelectionsAssumption DEF Activities, Kinds
  <2> QED
    BY <1>2, <2>1, <2>2 DEF Partly, Got
<1>11. CASE a.pc = "unselect"
  <2>1. Mine(x)'
    BY <1>7, <1>11 DEF Mine, Asking
  <2>2. a.data = Contents(asked[x], t)
    <3>1. got = all
      <4> SUFFICES ASSUME NEW m \in 1 .. all, prop[x] = Data(Units(asked[x], t, got, m))
                   PROVE  FALSE
        BY <1>10
      <4>1. prop[x].units = Units(asked[x], t, got, m) /\ prop[x].units = <<>>
        BY <1>4, <1>11 DEF Data
      <4>2. DOMAIN Units(asked[x], t, got, m) = 1 .. m /\ 1 \in 1 .. m
        BY DEF Units
      <4> QED
        BY <4>1, <4>2
    <3> QED
      BY <1>4, <1>10, <1>11, <3>1 DEF Contents
  <2>3. Transfer(x)'
    BY <1>2, <1>4, <1>7, <1>11, <2>2 DEF Transfer, Partly, Answers, News, InChunks, Ending
  <2> QED
    BY <1>7, <1>9, <2>1, <2>3 DEF Inv, Turn
<1>12. CASE a.pc = "receive"
  <2>1. PICK m \in 1 .. all : got + m <= all /\ prop[x] = Data(Units(asked[x], t, got, m))
    BY <1>4, <1>10, <1>12 DEF Data
  <2>2. \A q \in Programs : Sender(q, x)' => Sender(q, x) /\ act'[q] = act[q]
    BY <1>7, <1>8, <1>12 DEF Sender, Sending
  <2>3. Mine(x)'
    <3>1. /\ \A q \in Programs : Free(queue'[q], Requests(x))
          /\ Free(queue'[x], Notices)
      BY <1>7, <1>9, <1>12 DEF Lone, Taking
    <3>2. Mine(x) /\ act[x].pc \in Asking
      BY <1>1, <1>2 DEF Turn, Asking
    <3> HIDE DEF t
    <3>3. a.type = act[x].type /\ asked'[x] = asked[x]
      BY <1>2, <1>4 DEF t
    <3> QED
      BY <1>4, <1>7, <1>12, <2>2, <3>1, <3>2, <3>3 DEF Mine, Free
  <2>4. a.data = Units(asked[x], t, 0, got + m) /\ Len(a.data) = got + m
    <3>1. prop[x].units = Units(asked[x], t, got, m)
      BY <2>1 DEF Data
    <3>2. a.data = Units(asked[x], t, 0, got) \o Units(asked[x], t, got, m)
      BY <1>4, <1>10, <1>12, <3>1
    <3>3. got \in Nat /\ m \in Nat
      BY <1>10
    <3> HIDE DEF got, t
    <3>4. /\ Units(asked[x], t, 0, got) \o Units(asked[x], t, got, m) = Units(asked[x], t, 0, got + m)
          /\ Len(Units(asked[x], t, 0, got + m)) = got + m
      BY <3>3, UnitsConcat
    <3> QED
      BY <3>2, <3>4
  <2>5. ASSUME NEW q \in Programs, Sender(q, x)'
        PROVE  /\ act'[q].pc = "sent" /\ ~ act'[q].failed
               /\ got + m = all - act'[q].left + act'[q].chunk
    <3>1. Sender(q, x) /\ act'[q] = act[q] /\ Phase(q, x)
      BY <1>1, <2>2, <2>5 DEF Turn, Phases
    <3>2. act[q].pc \in Late /\ q = asked[x] /\ act[q].type = t
      BY <1>1, <1>2, <3>1 DEF Turn, Lone, Mine, Taking, Asking
    <3>3. /\ act[q].pc = "invited" => prop[x] = NoProperty
          /\ act[q].pc = "sent" => got = all - act[q].left +
                (IF prop[x] = NoProperty /\ ~ act[q].failed THEN act[q].chunk ELSE 0)
      BY <1>1, <1>2, <3>1 DEF Transfer, Partly, Got, InChunks
    <3>4. act[q].pc = "sent" /\ ~ act[q].failed
      BY <1>2, <3>1, <3>2, <3>3 DEF Phase, Late
    <3>5. prop[x] = Data(Units(q, t, all - act[q].left, act[q].chunk))
      BY <1>2, <3>1, <3>2, <3>4 DEF Phase
    <3>6. act[q].left \in Nat /\ act[q].chunk \in Nat
      BY <1>1 DEF Types, Activities
    <3>7. got = all - act[q].left
      BY <1>2, <1>10, <3>3, <3>4, <3>6
    <3>8. Units(q, t, got, m) = Units(q, t, got, act[q].chunk)
      BY <2>1, <3>2, <3>5, <3>7 DEF Data
    <3>9. m = act[q].chunk
      <4>1. DOMAIN Units(q, t, got, m) = 1 .. m
            /\ DOMAIN Units(q, t, got, act[q].chunk) = 1 .. act[q].chunk
        BY DEF Units
      <4> QED
        BY <3>6, <3>8, <4>1, <1>10
    <3> QED
      BY <1>10, <3>1, <3>4, <3>6, <3>7, <3>9
  <2>6. Partly(x)'
    <3>1. /\ act'[x].data = a.data /\ act'[x].type = t /\ asked'[x] = asked[x]
          /\ prop'[x] = NoProperty /\ got + m <= all
      BY <1>2, <1>4, <1>5, <1>7, <2>1
    <3> HIDE DEF t, all, got
    <3> QED
      BY <2>4, <2>5, <3>1 DEF Partly, Got, all
  <2>7. News(x)'
    <3>1. /\ Free(queue[x], {NewValue}) /\ {Deleted(x)} \cap {NewValue} = {}
          /\ act[x].type # TypeList
      BY <1>1, <1>2, Apart DEF Transfer, News, InChunks
    <3>2. Free(queue'[x], {NewValue})
      BY <1>1, <1>5, <3>1, QueueKept
    <3> QED
      BY <1>4, <1>7, <1>12, <3>1, <3>2 DEF News, Free, Single
  <2>8. Answers(x)'
    BY <1>7, <1>12 DEF Answers, Ending
  <2> QED
    BY <1>7, <1>9, <2>3, <2>6, <2>7, <2>8 DEF Inv, Turn, Transfer
<1> QED
  BY <1>4, <1>11, <1>12

-----------------------------------------------------------------------------
(* The sender.                                                             *)

\* x, which sends to r, does its next step a, and events of E reach the programs of to.
SenderMove(x, r, to, E, a) ==
    /\ queue' \in Queues /\ Sends(to, E)
    /\ \A p \in Programs : p # r => Quiet(p, to, E)
    /\ \A w \in Programs : E \cap {Destroyed(w)} = {}
    /\ act[x].pc \in Sending \cup {"finish"} /\ act[x].peer = r
    /\ a \in Activities /\ act' = [act EXCEPT ![x] = a]
    /\ a.pc \in Sending \cup {"idle", "finish"} /\ (a.pc # "idle" => a.peer = r)
    /\ prop' \in [Programs -> Properties]
    /\ \A p \in Programs : p # r => prop'[p] = prop[p]
    /\ ~ alive[r] => prop'[r] = prop[r]
    /\ selected' \in [Programs -> [Programs -> SUBSET {"property", "structure"}]]
    /\ \A q \in Programs : q # x => selected'[q] = selected[q]
    /\ \A p \in Programs : p # r => selected'[x][p] = selected[x][p]
    /\ ~ alive[r] => selected'[x][r] \subseteq selected[x][r]
    /\ maxChunk' \in [Programs -> 1 .. MaxChunk]
    /\ excused' \in [Programs -> BOOLEAN]
    /\ faults' \in [deaths : Nat, allocErrors : Nat]
    /\ owner' = owner /\ alive' = alive /\ asked' = asked

\* Whatever it is, it concerns nobody but r.
LEMMA SenderStep ==
    ASSUME Inv, NEW x \in Programs, NEW r \in Programs, NEW to, NEW E, NEW a,
           SenderMove(x, r, to, E, a)
    PROVE  /\ Types' /\ Graves' /\ Peers'
           /\ act'[x] = a /\ r # x
           /\ \A p \in Programs : p # x => act'[p] = act[p]
           /\ \A p \in Programs : p # r => Turn(p)' /\ Transfer(p)'
<1>1. /\ Types /\ Graves /\ Peers /\ queue \in Queues
      /\ \A p \in Programs : Turn(p) /\ Transfer(p)
  BY InvParts
<1>2. /\ act' \in [Programs -> Activities]
      /\ act'[x] = a
      /\ \A p \in Programs : p # x => act'[p] = act[p]
  <2>1. a \in Activities /\ act' = [act EXCEPT ![x] = a] /\ act \in [Programs -> Activities]
    BY <1>1 DEF SenderMove, Types
  <2> QED
    BY <2>1, PutTypes
<1>3. Types'
  BY <1>1, <1>2 DEF Types, Queues, SenderMove
<1>4. alive[x]
  BY <1>1 DEF Graves, Idle, Sending, SenderMove
<1>5. r # x
  BY <1>1 DEF Peers, SenderMove
<1>6. Graves'
  <2>1. \A p \in Programs : ~ alive[p] =>
          prop'[p] = prop[p] /\ \A q \in Programs : selected'[q][p] \subseteq selected[q][p]
    BY DEF SenderMove
  <2>2. /\ \A s \in Selections : owner'[s] # owner[s] => alive[owner'[s]]
        /\ queue' \in Queues /\ Sends(to, E) /\ alive' = alive
        /\ \A w \in Programs : E \cap {Destroyed(w)} = {}
    BY DEF SenderMove
  <2> QED
    BY <1>1, <1>2, <1>4, <2>1, <2>2, GravesKept
<1>7. Peers'
  BY <1>1, <1>2, <1>5 DEF Peers, Watching, Asking, Sending, SenderMove
<1>8. ASSUME NEW p \in Programs, p # r
      PROVE  Turn(p)' /\ Transfer(p)'
  <2>1. /\ p = x => act'[x].pc \notin Asking \cup Ending
        /\ ~ Sender(x, p)'
    BY <1>2, <1>8 DEF Sender, Asking, Ending, Sending, SenderMove
  <2>2. "property" \notin selected'[x][p]
    BY <1>1, <1>8 DEF Turn, Listens, SenderMove
  <2>3. Calm(p)
    <3>1. /\ \A q \in Programs : q # x => act'[q] = act[q] /\ selected'[q] = selected[q]
          /\ p # x => asked'[p] = asked[p]
          /\ prop'[p] = prop[p] /\ (alive'[p] => alive[p])
      BY <1>2, <1>8 DEF SenderMove
    <3> QED
      BY <2>1, <2>2, <3>1, CalmFar
  <2>4. queue' \in Queues /\ Sends(to, E) /\ Quiet(p, to, E)
    BY <1>8 DEF SenderMove
  <2> QED
    BY <1>1, <2>3, <2>4, CalmKeeps
<1> QED
  BY <1>2, <1>3, <1>5, <1>6, <1>7, <1>8

\* A program that has not been offered anything does not mind a change of its property.
LEMMA MineAnyway ==
    ASSUME NEW p \in Programs, queue \in Queues, queue' \in Queues, NEW to, NEW E, Sends(to, E),
           E \cap Requests(p) = {}, p \in to => E \cap Notices = {},
           act'[p] = act[p], asked'[p] = asked[p],
           act[p].pc \in Asking =>
               /\ act[p].pc \notin {"discard", "fetch"}
               /\ \A k \in DOMAIN queue[p] : queue[p][k] \in Notices => ~ queue[p][k].ok,
           \A q \in Programs : Sender(q, p)' =>
               Sender(q, p) /\ act'[q].sel = act[q].sel /\ act'[q].type = act[q].type,
           Mine(p)
    PROVE  Mine(p)'
<1> SUFFICES ASSUME act[p].pc \in Asking
             PROVE  Mine(p)'
  BY DEF Mine
<1>1. \A q \in Programs : \A k \in DOMAIN queue'[q] : queue'[q][k] \in Requests(p) =>
          \E j \in DOMAIN queue[q] : queue[q][j] = queue'[q][k]
  <2> SUFFICES ASSUME NEW q \in Programs
               PROVE  \A k \in DOMAIN queue'[q] : queue'[q][k] \in Requests(p) =>
                          \E j \in DOMAIN queue[q] : queue[q][j] = queue'[q][k]
    OBVIOUS
  <2> QED
    BY FoundKept
<1>2. \A k \in DOMAIN queue'[p] : queue'[p][k] \in Notices =>
          \E j \in DOMAIN queue[p] : queue[p][j] = queue'[p][k]
  BY QueueKept
<1>3. \A q \in Programs : \A k \in DOMAIN queue'[q] : queue'[q][k] \in Requests(p) =>
          queue'[q][k] = SelectionRequest(p, act'[p].sel, act'[p].type) /\ q = asked'[p]
  BY <1>1 DEF Mine
<1>4. \A q \in Programs : Sender(q, p)' =>
          q = asked'[p] /\ act'[q].sel = act'[p].sel /\ act'[q].type = act'[p].type
  BY DEF Mine
<1>5. \A k \in DOMAIN queue'[p] : queue'[p][k] \in Notices =>
          /\ queue'[p][k].sel = act'[p].sel /\ queue'[p][k].type = act'[p].type
          /\ ~ queue'[p][k].ok
  BY <1>2 DEF Mine
<1> QED
  BY <1>3, <1>4, <1>5 DEF Mine

\* Nor does one that has not begun to take anything.
LEMMA TransferAside ==
    ASSUME NEW p \in Programs, act'[p] = act[p], asked'[p] = asked[p], act[p].pc \notin Taking,
           Transfer(p)
    PROVE  Transfer(p)'
BY DEF Transfer, Partly, Answers, News, InChunks, Taking

\* A run of units may be the value of a property.
LEMMA UnitsTypes ==
    ASSUME NEW p \in Programs, NEW t \in Kinds, NEW from \in Nat, NEW n \in Nat
    PROVE  Units(p, t, from, n) \in Seq(Unit) /\ Data(Units(p, t, from, n)) \in Properties
<1>1. Units(p, t, from, n) \in [1 .. n -> Unit]
  BY DEF Units, Unit
<1>2. Units(p, t, from, n) \in Seq(Unit)
  BY <1>1, FunctionIsSeq
<1> QED
  BY <1>2 DEF Data, Properties

\* A value is set on the window of w, if that is there.
LEMMA ChangedSends ==
    ASSUME Types, NEW w \in Programs, NEW v \in Properties, ChangeProperty(w, v)
    PROVE  /\ queue' \in Queues /\ Sends({w}, {NewValue})
           /\ prop' \in [Programs -> Properties]
           /\ alive[w] => prop'[w] = v
           /\ ~ alive[w] => prop'[w] = prop[w]
           /\ \A p \in Programs : p # w => prop'[p] = prop[p]
<1>1. queue \in Queues /\ NewValue \in Events
  BY EventKinds DEF Types, Queues
<1>2. CASE alive[w]
  <2>1. prop' = [prop EXCEPT ![w] = v] /\ queue' = Post(queue, {w}, NewValue)
    BY <1>2 DEF ChangeProperty
  <2>2. queue' \in Queues /\ Sends({w}, {NewValue})
    BY <1>1, <2>1, PostedSends
  <2> QED
    BY <1>2, <2>1, <2>2 DEF Types
<1>3. CASE ~ alive[w]
  <2>1. prop' = prop /\ queue' = queue
    BY <1>3 DEF ChangeProperty
  <2>2. \A q \in Programs : queue[q] \in Seq(Events)
    BY <1>1 DEF Queues
  <2>3. queue' \in Queues /\ Sends({w}, {NewValue})
    BY <1>1, <2>1, <2>2, FromSame DEF Sends
  <2> QED
    BY <1>3, <2>1, <2>3 DEF Types
<1> QED
  BY <1>2, <1>3

\* The event that tells w of a new value concerns nobody else, and is no answer.
LEMMA NewValueQuiet ==
    ASSUME NEW w
    PROVE  /\ \A p \in Programs : p # w => Quiet(p, {w}, {NewValue})
           /\ \A p \in Programs : {NewValue} \cap {Destroyed(p)} = {}
           /\ {NewValue} \cap Requests(w) = {} /\ {NewValue} \cap Notices = {}
           /\ {NewValue} \cap {Deleted(w)} = {}
           /\ \A p \in Programs : Quiet(p, {}, {})
BY Apart DEF Quiet


\* x goes on to prepare what r is told of.
EarlyMove(x, r, E, a) ==
    /\ E \cap Requests(r) = {} /\ E \cap Notices = {} /\ E \cap {Deleted(r)} = {}
    /\ act[x].pc \in Early /\ a.pc \in Early
    /\ a.sel = act[x].sel /\ a.type = act[x].type
    /\ a.left = act[x].left /\ a.chunk = act[x].chunk /\ a.failed = act[x].failed
    /\ a.pc = "notify" /\ alive[r] => prop'[r] = Data(Contents(x, a.type))
    /\ a.pc = "invite" /\ alive[r] => prop'[r] = Incr(x, a.type)
    /\ "property" \in selected'[x][r] => a.pc \in Heard

\* x, which has not told the program it sends to, goes on before it does so.
LEMMA EarlyStep ==
    ASSUME Inv, NEW x \in Programs, NEW r \in Programs, NEW to, NEW E, NEW a,
           SenderMove(x, r, to, E, a), EarlyMove(x, r, E, a)
    PROVE  Inv'
<1>1. /\ Types /\ Graves /\ Peers /\ queue \in Queues
      /\ \A p \in Programs : Turn(p) /\ Transfer(p)
  BY InvParts
<1>2. /\ Types' /\ Graves' /\ Peers'
      /\ act'[x] = a /\ r # x
      /\ \A p \in Programs : p # x => act'[p] = act[p]
      /\ \A p \in Programs : p # r => Turn(p)' /\ Transfer(p)'
  BY SenderStep
<1>3. /\ queue' \in Queues /\ Sends(to, E)
      /\ E \cap Requests(r) = {} /\ E \cap Notices = {} /\ E \cap {Deleted(r)} = {}
      /\ act[x].pc \in Early /\ act[x].peer = r /\ a.pc \in Early /\ a.peer = r
      /\ asked' = asked /\ alive' = alive
      /\ ~ alive[r] => prop'[r] = prop[r]
  BY DEF SenderMove, EarlyMove, Early
<1>4. /\ Sender(x, r) /\ Lone(r) /\ Listens(r) /\ Phase(x, r) /\ Mine(r)
      /\ Free(queue[r], Notices) /\ act[r].pc \notin Taking
      /\ \A q \in Programs : Sender(q, r) => q = x
  <2>1. Sender(x, r) /\ Lone(r) /\ Listens(r) /\ Phases(r) /\ Mine(r)
    BY <1>3, <1>1 DEF Sender, Early, Sending, Turn
  <2> QED
    BY <1>3, <2>1 DEF Lone, Phases, Early, Late
<1>5. \A q \in Programs : Sender(q, r)' => Sender(q, r) /\ q = x
  BY <1>2, <1>4 DEF Sender
<1>6. Lone(r)'
  <2>1. \A q \in Programs : Sender(q, r)' =>
            Sender(q, r) /\ (act'[q].pc \in Early => act[q].pc \in Early)
    BY <1>3, <1>5
  <2>2. act'[r].pc \in Taking => act[r].pc \in Taking
    BY <1>2
  <2> QED
    BY <1>1, <1>4, <2>1, <2>2, <1>3, LoneKept
<1>7. Listens(r)'
  <2>1. \A q \in Programs :
          /\ Single(queue[q], {Deleted(r)}) => Single(queue'[q], {Deleted(r)})
          /\ \A G : Behind(queue[q], G, {Deleted(r)}) => Behind(queue'[q], G, {Deleted(r)})
    <3> SUFFICES ASSUME NEW q \in Programs
                 PROVE  /\ Single(queue[q], {Deleted(r)}) => Single(queue'[q], {Deleted(r)})
                        /\ \A G : Behind(queue[q], G, {Deleted(r)}) =>
                                 Behind(queue'[q], G, {Deleted(r)})
      OBVIOUS
    <3> QED
      BY <1>3, <1>1, QueueKept
  <2>2. \A q \in Programs : "property" \in selected'[q][r] =>
            act'[q].peer = r /\ act'[q].pc \in Heard
    BY <1>3, <1>2, <1>4 DEF Listens, SenderMove, EarlyMove
  <2> QED
    BY <1>4, <1>5, <2>1, <2>2 DEF Listens
<1>8. Phases(r)'
  <2>1. Undeleted(x, r)'
    <3>1. Free(queue[x], {Deleted(r)})
      BY <1>3, <1>4 DEF Phase, Undeleted
    <3>2. Free(queue'[x], {Deleted(r)})
      BY <1>3, <1>1, <3>1, QueueKept
    <3> QED
      BY <3>2 DEF Undeleted
  <2>2. Phase(x, r)'
    BY <1>3, <1>2, <1>4, <2>1 DEF Phase, Early, EarlyMove
  <2> QED
    BY <1>5, <2>2 DEF Phases
<1>9. Mine(r)'
  <2>1. \A q \in Programs : Sender(q, r)' =>
            Sender(q, r) /\ act'[q].sel = act[q].sel /\ act'[q].type = act[q].type
    BY <1>2, <1>5 DEF EarlyMove
  <2>2. /\ act[r].pc \notin {"discard", "fetch"}
        /\ \A k \in DOMAIN queue[r] : queue[r][k] \in Notices => ~ queue[r][k].ok
    BY <1>4 DEF Taking, Free
  <2> QED
    BY <1>1, <1>2, <1>4, <1>3, <2>1, <2>2, MineAnyway
<1>10. Transfer(r)'
  BY <1>3, <1>1, <1>2, <1>4, TransferAside
<1> QED
  BY <1>2, <1>6, <1>7, <1>8, <1>9, <1>10 DEF Inv, Turn

\* x sends to r no more.
LEMMA StopStep ==
    ASSUME Inv, NEW x \in Programs, NEW r \in Programs, NEW a,
           SenderMove(x, r, {}, {}, a), a.pc \in {"idle", "finish"}, prop' = prop,
           "property" \in selected'[x][r] => a.pc = "finish" /\ "property" \in selected[x][r]
    PROVE  Inv'
<1>1. /\ Types /\ Graves /\ Peers /\ queue \in Queues
      /\ \A p \in Programs : Turn(p) /\ Transfer(p)
  BY InvParts
<1>2. /\ Types' /\ Graves' /\ Peers'
      /\ act'[x] = a /\ r # x
      /\ \A p \in Programs : p # x => act'[p] = act[p]
      /\ \A p \in Programs : p # r => Turn(p)' /\ Transfer(p)'
  BY SenderStep
<1>3. /\ queue' \in Queues /\ Sends({}, {}) /\ Quiet(r, {}, {})
      /\ a.pc = "finish" => a.peer = r
      /\ \A q \in Programs : q # x => selected'[q] = selected[q]
      /\ asked' = asked /\ alive' = alive
  BY DEF SenderMove, Quiet
<1>4. Calm(r)
  <2>1. a.pc \notin Sending
    BY DEF Sending
  <2>2. \A q \in Programs : "property" \in selected'[q][r] =>
          /\ "property" \in selected[q][r]
          /\ act'[q] = act[q] \/ (act'[q].peer = r /\ act'[q].pc \in Heard)
    BY <1>2, <1>3 DEF Heard
  <2>3. \A q \in Programs : Sender(q, r)' => Sender(q, r) /\ act'[q] = act[q]
    BY <1>2, <2>1 DEF Sender
  <2> QED
    BY <1>2, <1>3, <2>2, <2>3 DEF Calm
<1>5. Turn(r)' /\ Transfer(r)'
  BY <1>1, <1>3, <1>4, CalmKeeps
<1> QED
  BY <1>2, <1>5 DEF Inv


\* What a sender is, and the program it sends to.
LEMMA SenderIs ==
    ASSUME Inv, NEW x \in Programs, act[x].pc \in Sending \cup {"finish"}
    PROVE  /\ act[x].peer \in Programs /\ act[x].peer # x
           /\ act[x] \in Activities /\ act[x].type \in Kinds
           /\ alive[x]
           /\ ~ alive[act[x].peer] => /\ prop[act[x].peer] = NoProperty
                                      /\ selected[x][act[x].peer] = {}
           /\ act[x].pc \in Sending => Sender(x, act[x].peer) /\ Phase(x, act[x].peer)
<1>1. Types /\ Graves /\ Peers /\ \A p \in Programs : Turn(p)
  BY InvParts
<1>2. act[x].peer \in Programs /\ act[x].peer # x
  BY <1>1 DEF Peers
<1>3. act[x] \in Activities
  BY <1>1 DEF Types
<1>4. alive[x]
  BY <1>1 DEF Graves, Idle, Sending
<1>5. act[x].pc \in Sending => Sender(x, act[x].peer) /\ Phase(x, act[x].peer)
  BY <1>1, <1>2 DEF Sender, Turn, Phases
<1>6. act[x].type \in Kinds
  BY <1>3 DEF Activities
<1> QED
  BY <1>1, <1>2, <1>3, <1>4, <1>5, <1>6 DEF Graves

\* A step of a sender that touches neither queues nor properties nor what it listens to.
LEMMA SilentMove ==
    ASSUME Inv, NEW x \in Programs, NEW a \in Activities,
           act[x].pc \in Sending \cup {"finish"}, act' = [act EXCEPT ![x] = a],
           a.pc \in Sending \cup {"idle", "finish"}, a.pc # "idle" => a.peer = act[x].peer,
           UNCHANGED <<owner, queue, prop, alive, asked>>,
           selected' \in [Programs -> [Programs -> SUBSET {"property", "structure"}]],
           \A q \in Programs : q # x => selected'[q] = selected[q],
           \A p \in Programs : p # act[x].peer => selected'[x][p] = selected[x][p],
           ~ alive[act[x].peer] => selected'[x][act[x].peer] \subseteq selected[x][act[x].peer],
           maxChunk' \in [Programs -> 1 .. MaxChunk],
           excused' \in [Programs -> BOOLEAN],
           faults' \in [deaths : Nat, allocErrors : Nat]
    PROVE  SenderMove(x, act[x].peer, {}, {}, a)
<1>1. Types /\ queue \in Queues
  BY InvParts
<1>2. queue' \in Queues /\ Sends({}, {})
  BY <1>1, UnchangedSends
<1>3. \A p \in Programs : Quiet(p, {}, {})
  BY DEF Quiet
<1>4. prop' \in [Programs -> Properties]
  BY <1>1 DEF Types
<1> QED
  BY <1>2, <1>3, <1>4 DEF SenderMove

\* All of the data, and what announces them, may be the value of a property.
LEMMA ContentsTypes ==
    ASSUME NEW p \in Programs, NEW t \in Kinds
    PROVE  Data(Contents(p, t)) \in Properties /\ Incr(p, t) \in Properties /\ Length[t] \in Nat
<1>1. Length[t] \in Nat /\ 0 \in Nat
  BY SelectionsAssumption DEF Kinds
<1>2. Data(Units(p, t, 0, Length[t])) \in Properties
  BY <1>1, UnitsTypes
<1>3. <<<<p, t, 0>>>> \in Seq(Unit)
  BY DEF Unit
<1>4. Incr(p, t) \in Properties
  BY <1>3 DEF Incr, Properties
<1> QED
  BY <1>1, <1>2, <1>4 DEF Contents

\* One more reason to fail keeps the types.
LEMMA FaultTypes ==
    ASSUME Types, NEW w \in Programs
    PROVE  /\ excused \in [Programs -> BOOLEAN] /\ faults \in [deaths : Nat, allocErrors : Nat]
           /\ [excused EXCEPT ![w] = TRUE] \in [Programs -> BOOLEAN]
           /\ [faults EXCEPT !.allocErrors = @ + 1] \in [deaths : Nat, allocErrors : Nat]
           /\ [faults EXCEPT !.allocErrors = @ + 1] # faults
           /\ [faults EXCEPT !.deaths = @ + 1] \in [deaths : Nat, allocErrors : Nat]
<1>1. excused \in [Programs -> BOOLEAN] /\ faults \in [deaths : Nat, allocErrors : Nat]
  BY DEF Types
<1>2. [excused EXCEPT ![w] = TRUE] \in [Programs -> BOOLEAN]
  BY <1>1
<1>3. faults.allocErrors \in Nat /\ faults.allocErrors + 1 \in Nat /\ faults.deaths + 1 \in Nat
  BY <1>1
<1>4. /\ [faults EXCEPT !.allocErrors = @ + 1] \in [deaths : Nat, allocErrors : Nat]
      /\ [faults EXCEPT !.deaths = @ + 1] \in [deaths : Nat, allocErrors : Nat]
  BY <1>1, <1>3
<1>5. [faults EXCEPT !.allocErrors = @ + 1] # faults
  BY <1>1, <1>3
<1> QED
  BY <1>1, <1>2, <1>4, <1>5

\* x sends all of the data, or finds that it cannot.
LEMMA SendWholeStep ==
    ASSUME Inv, NEW x \in Programs, SendWhole(x)
    PROVE  Inv'
<1> DEFINE r == act[x].peer
           t == act[x].type
           done == [act[x] EXCEPT !.pc = "notify"]
           next == [act[x] EXCEPT !.pc = "announce"]
<1>1. Types /\ queue \in Queues
  BY InvParts
<1>2. /\ act[x].pc = "whole"
      /\ UNCHANGED <<owner, selected, maxChunk, alive, asked>>
      /\ SendData1(x, Contents(x, t), done, next, next)
  BY DEF SendWhole
<1>3. /\ r \in Programs /\ r # x /\ act[x] \in Activities /\ t \in Kinds
      /\ act[x].pc \in Early /\ act[x].pc \in Sending
  BY <1>2, SenderIs DEF Early, Sending
<1>4. /\ done \in Activities /\ done.pc = "notify" /\ done.peer = r
      /\ done.sel = act[x].sel /\ done.type = t
      /\ done.left = act[x].left /\ done.chunk = act[x].chunk /\ done.failed = act[x].failed
  BY <1>3 DEF Activities, Sending
<1>5. /\ next \in Activities /\ next.pc = "announce" /\ next.peer = r
      /\ next.sel = act[x].sel /\ next.type = t
      /\ next.left = act[x].left /\ next.chunk = act[x].chunk /\ next.failed = act[x].failed
  BY <1>3 DEF Activities, Sending
<1>6. /\ selected' \in [Programs -> [Programs -> SUBSET {"property", "structure"}]]
      /\ \A q \in Programs : q # x => selected'[q] = selected[q]
      /\ \A p \in Programs : p # r => selected'[x][p] = selected[x][p]
      /\ ~ alive[r] => selected'[x][r] \subseteq selected[x][r]
      /\ maxChunk' \in [Programs -> 1 .. MaxChunk]
  BY <1>1, <1>2 DEF Types
<1>7. "property" \notin selected'[x][r]
  <2>1. Listens(r)
    BY <1>3, InvParts DEF Turn
  <2>2. act[x].pc \notin Heard
    BY <1>2 DEF Heard
  <2> QED
    BY <1>2, <2>1, <2>2 DEF Listens
<1>8. CASE /\ alive[r] /\ ChangeProperty(r, Data(Contents(x, t)))
           /\ act' = [act EXCEPT ![x] = done]
           /\ UNCHANGED <<excused, faults>>
  <2>1. /\ queue' \in Queues /\ Sends({r}, {NewValue})
        /\ prop' \in [Programs -> Properties] /\ prop'[r] = Data(Contents(x, t))
        /\ \A p \in Programs : p # r => prop'[p] = prop[p]
    <3>1. Data(Contents(x, t)) \in Properties
      BY <1>3, ContentsTypes
    <3> HIDE DEF r, t
    <3> QED
      BY <1>1, <1>3, <1>8, <3>1, ChangedSends
  <2>2. excused' \in [Programs -> BOOLEAN] /\ faults' \in [deaths : Nat, allocErrors : Nat]
    BY <1>1, <1>8 DEF Types
  <2>3. /\ \A p \in Programs : p # r => Quiet(p, {r}, {NewValue})
        /\ \A p \in Programs : {NewValue} \cap {Destroyed(p)} = {}
        /\ {NewValue} \cap Requests(r) = {} /\ {NewValue} \cap Notices = {}
        /\ {NewValue} \cap {Deleted(r)} = {}
    BY NewValueQuiet
  <2> HIDE DEF done, next
  <2>4. SenderMove(x, r, {r}, {NewValue}, done)
    BY <1>2, <1>3, <1>4, <1>6, <1>8, <2>1, <2>2, <2>3 DEF SenderMove, Sending
  <2>5. EarlyMove(x, r, {NewValue}, done)
    BY <1>3, <1>4, <1>7, <2>1, <2>3 DEF EarlyMove, Early
  <2> HIDE DEF r
  <2> QED
    BY <1>3, <2>4, <2>5, EarlyStep
<1>9. CASE /\ act' = [act EXCEPT ![x] = next]
           /\ UNCHANGED <<prop, queue>>
           /\ excused' \in [Programs -> BOOLEAN] /\ faults' \in [deaths : Nat, allocErrors : Nat]
  <2> HIDE DEF done, next
  <2>1. SenderMove(x, r, {}, {}, next)
    <3>1. /\ next.pc \in Sending \cup {"idle", "finish"}
          /\ act[x].pc \in Sending \cup {"finish"}
          /\ next.pc # "idle" => next.peer = act[x].peer
          /\ UNCHANGED <<owner, queue, prop, alive, asked>>
      BY <1>2, <1>3, <1>5, <1>9 DEF Sending
    <3> QED
      BY <1>5, <1>6, <1>9, <3>1, SilentMove
  <2>2. EarlyMove(x, r, {}, next)
    BY <1>3, <1>5, <1>7 DEF EarlyMove, Early
  <2> HIDE DEF r
  <2> QED
    BY <1>3, <2>1, <2>2, EarlyStep
<1>10. \/ /\ alive[r] /\ ChangeProperty(r, Data(Contents(x, t)))
          /\ act' = [act EXCEPT ![x] = done]
          /\ UNCHANGED <<excused, faults>>
       \/ /\ act' = [act EXCEPT ![x] = next]
          /\ UNCHANGED <<prop, queue>>
          /\ excused' \in [Programs -> BOOLEAN] /\ faults' \in [deaths : Nat, allocErrors : Nat]
  <2> HIDE DEF done, next, t
  <2>1. \/ /\ alive[r] /\ ChangeProperty(r, Data(Contents(x, t)))
           /\ act' = [act EXCEPT ![x] = done]
           /\ UNCHANGED <<excused, faults>>
        \/ /\ act' = [act EXCEPT ![x] = next]
           /\ UNCHANGED <<prop, queue>>
           /\ \/ UNCHANGED <<excused, faults>>
              \/ /\ excused' = [excused EXCEPT ![r] = TRUE]
                 /\ faults' = [faults EXCEPT !.allocErrors = @ + 1]
    BY <1>2 DEF SendData1
  <2>2. /\ excused \in [Programs -> BOOLEAN] /\ faults \in [deaths : Nat, allocErrors : Nat]
        /\ [excused EXCEPT ![r] = TRUE] \in [Programs -> BOOLEAN]
        /\ [faults EXCEPT !.allocErrors = @ + 1] \in [deaths : Nat, allocErrors : Nat]
    <3> HIDE DEF r
    <3> QED
      BY <1>1, <1>3, FaultTypes
  <2> QED
    BY <2>1, <2>2
<1> QED
  BY <1>8, <1>9, <1>10

\* x announces the data.
LEMMA AnnounceStep ==
    ASSUME Inv, NEW x \in Programs, Announce(x)
    PROVE  Inv'
<1> DEFINE r == act[x].peer
           t == act[x].type
           a == [act[x] EXCEPT !.pc = "invite"]
<1>1. Types /\ queue \in Queues
  BY InvParts
<1>2. /\ act[x].pc = "announce"
      /\ SelectInput(x, r, {"property", "structure"})
      /\ ChangeProperty(r, Incr(x, t))
      /\ act' = [act EXCEPT ![x] = a]
      /\ UNCHANGED <<owner, maxChunk, alive, asked, excused, faults>>
  BY DEF Announce, Go, history
<1>3. /\ r \in Programs /\ r # x /\ act[x] \in Activities /\ t \in Kinds
      /\ act[x].pc \in Early /\ act[x].pc \in Sending
  BY <1>2, SenderIs DEF Early, Sending
<1>4. /\ a \in Activities /\ a.pc = "invite" /\ a.peer = r
      /\ a.sel = act[x].sel /\ a.type = t
      /\ a.left = act[x].left /\ a.chunk = act[x].chunk /\ a.failed = act[x].failed
  BY <1>3 DEF Activities, Sending
<1>5. /\ selected' \in [Programs -> [Programs -> SUBSET {"property", "structure"}]]
      /\ \A q \in Programs : q # x => selected'[q] = selected[q]
      /\ \A p \in Programs : p # r => selected'[x][p] = selected[x][p]
      /\ ~ alive[r] => selected'[x][r] \subseteq selected[x][r]
  BY <1>1, <1>2, <1>3 DEF Types, SelectInput
<1>6. /\ queue' \in Queues /\ Sends({r}, {NewValue})
      /\ prop' \in [Programs -> Properties]
      /\ alive[r] => prop'[r] = Incr(x, t)
      /\ ~ alive[r] => prop'[r] = prop[r]
      /\ \A p \in Programs : p # r => prop'[p] = prop[p]
  <2>1. Incr(x, t) \in Properties
    BY <1>3, ContentsTypes
  <2> HIDE DEF r, t
  <2> QED
    BY <1>1, <1>2, <1>3, <2>1, ChangedSends
<1>7. /\ maxChunk' \in [Programs -> 1 .. MaxChunk]
      /\ excused' \in [Programs -> BOOLEAN] /\ faults' \in [deaths : Nat, allocErrors : Nat]
  BY <1>1, <1>2 DEF Types
<1>8. /\ \A p \in Programs : p # r => Quiet(p, {r}, {NewValue})
      /\ \A p \in Programs : {NewValue} \cap {Destroyed(p)} = {}
      /\ {NewValue} \cap Requests(r) = {} /\ {NewValue} \cap Notices = {}
      /\ {NewValue} \cap {Deleted(r)} = {}
  BY NewValueQuiet
<1> HIDE DEF a
<1>9. SenderMove(x, r, {r}, {NewValue}, a)
  BY <1>2, <1>3, <1>4, <1>5, <1>6, <1>7, <1>8 DEF SenderMove, Sending
<1>10. EarlyMove(x, r, {NewValue}, a)
  BY <1>3, <1>4, <1>6, <1>8 DEF EarlyMove, Early, Heard
<1> HIDE DEF r
<1> QED
  BY <1>3, <1>9, <1>10, EarlyStep

\* x ends, or gives up.
LEMMA FinishStep ==
    ASSUME Inv, NEW x \in Programs, Finish(x) \/ GiveUpSending(x)
    PROVE  Inv'
<1> DEFINE r == act[x].peer
<1>1. Types /\ queue \in Queues
  BY InvParts
<1>2. /\ act[x].pc \in {"finish", "invited", "sent"}
      /\ SelectInput(x, r, {})
      /\ act' = [act EXCEPT ![x] = Idle]
      /\ UNCHANGED <<owner, prop, queue, maxChunk, alive, asked, faults>>
      /\ excused' = excused \/ excused' = [excused EXCEPT ![r] = TRUE]
  BY DEF Finish, GiveUpSending, history
<1>3. /\ r \in Programs
      /\ act[x].pc \in Sending \cup {"finish"}
      /\ ~ alive[r] => selected[x][r] = {}
  BY <1>2, SenderIs DEF Sending
<1>4. Idle \in Activities /\ Idle.pc = "idle"
  BY IdleTypes
<1>5. /\ selected' \in [Programs -> [Programs -> SUBSET {"property", "structure"}]]
      /\ \A q \in Programs : q # x => selected'[q] = selected[q]
      /\ \A p \in Programs : p # r => selected'[x][p] = selected[x][p]
      /\ selected'[x][r] = {}
  BY <1>1, <1>2, <1>3 DEF Types, SelectInput
<1>6. /\ maxChunk' \in [Programs -> 1 .. MaxChunk]
      /\ excused' \in [Programs -> BOOLEAN] /\ faults' \in [deaths : Nat, allocErrors : Nat]
  BY <1>1, <1>2 DEF Types
<1>7. SenderMove(x, r, {}, {}, Idle)
  <2>1. /\ Idle.pc \in Sending \cup {"idle", "finish"}
        /\ Idle.pc # "idle" => Idle.peer = act[x].peer
        /\ UNCHANGED <<owner, queue, prop, alive, asked>>
        /\ ~ alive[act[x].peer] => selected'[x][act[x].peer] \subseteq selected[x][act[x].peer]
    BY <1>2, <1>4, <1>5
  <2> QED
    BY <1>2, <1>3, <1>4, <1>5, <1>6, <2>1, SilentMove
<1> HIDE DEF r
<1> QED
  BY <1>2, <1>3, <1>4, <1>5, <1>7, StopStep

\* x tells the program it sends to that the data, or what announces them, are there.
LEMMA SendNotifyStep ==
    ASSUME Inv, NEW x \in Programs, SendNotify(x)
    PROVE  Inv'
<1>1. PICK r \in Programs : r = act[x].peer
  <2>1. act[x].pc \in Sending
    BY DEF SendNotify, Sending
  <2> QED
    BY <2>1, SenderIs
<1> DEFINE t == act[x].type
           n == SelectionNotify(act[x].sel, t, TRUE)
           on == [act[x] EXCEPT !.pc = "invited"]
           a == IF act[x].pc = "notify" THEN Idle ELSE on
<1>2. /\ Types /\ Graves /\ queue \in Queues
      /\ \A p \in Programs : Turn(p) /\ Transfer(p)
  BY InvParts
<1>3. /\ act[x].pc \in {"notify", "invite"}
      /\ queue' = Post(queue, {r}, n)
      /\ act' = [act EXCEPT ![x] = a]
      /\ UNCHANGED <<owner, prop, selected, maxChunk, alive, asked, excused, faults>>
  BY <1>1 DEF SendNotify, server, history
<1>4. /\ r \in Programs /\ r # x /\ act[x] \in Activities /\ t \in Kinds /\ act[x].sel \in Sels
      /\ act[x].pc \in Early /\ act[x].pc \in Sending
      /\ Sender(x, r) /\ Phase(x, r)
      /\ ~ alive[r] => prop[r] = NoProperty
  <2>1. act[x].pc \in Early /\ act[x].pc \in Sending
    BY <1>3 DEF Early, Sending
  <2> QED
    BY <1>1, <2>1, SenderIs DEF Activities
<1>5. /\ a \in Activities
      /\ act[x].pc = "notify" => a.pc = "idle"
      /\ act[x].pc = "invite" =>
           /\ a.pc = "invited" /\ a.peer = r /\ a.sel = act[x].sel /\ a.type = t
           /\ a.left = act[x].left /\ a.chunk = act[x].chunk /\ a.failed = act[x].failed
  <2>1. /\ on \in Activities /\ on.pc = "invited" /\ on.peer = r /\ on.sel = act[x].sel
        /\ on.type = t /\ on.left = act[x].left /\ on.chunk = act[x].chunk
        /\ on.failed = act[x].failed
    BY <1>1, <1>4 DEF Activities, Sending
  <2> HIDE DEF on
  <2> QED
    BY <2>1, IdleTypes
<1>6. n \in Events /\ n \in Notices /\ n.sel = act[x].sel /\ n.type = t /\ n.ok = TRUE
  BY <1>4, EventKinds DEF SelectionNotify
<1>7. /\ \A p \in Programs : p # r => Quiet(p, {r}, {n})
      /\ \A w \in Programs : {n} \cap {Destroyed(w)} = {}
      /\ {n} \cap Requests(r) = {} /\ {n} \cap {Deleted(r)} = {}
  BY Apart DEF Quiet
<1> HIDE DEF n, a
<1>8. queue' \in Queues /\ Sends({r}, {n})
  BY <1>2, <1>3, <1>6, PostedSends
<1>9. SenderMove(x, r, {r}, {n}, a)
  <2>1. /\ prop' \in [Programs -> Properties]
        /\ selected' \in [Programs -> [Programs -> SUBSET {"property", "structure"}]]
        /\ maxChunk' \in [Programs -> 1 .. MaxChunk]
        /\ excused' \in [Programs -> BOOLEAN] /\ faults' \in [deaths : Nat, allocErrors : Nat]
    BY <1>2, <1>3 DEF Types
  <2>2. a.pc \in Sending \cup {"idle", "finish"} /\ (a.pc # "idle" => a.peer = r)
    BY <1>3, <1>5 DEF Sending
  <2> QED
    BY <1>1, <1>3, <1>4, <1>5, <1>7, <1>8, <2>1, <2>2 DEF SenderMove
<1>10. /\ Types' /\ Graves' /\ Peers'
       /\ act'[x] = a
       /\ \A p \in Programs : p # x => act'[p] = act[p]
       /\ \A p \in Programs : p # r => Turn(p)' /\ Transfer(p)'
  BY <1>4, <1>9, SenderStep
<1>11. /\ Lone(r) /\ Listens(r) /\ Mine(r)
       /\ Free(queue[r], Notices) /\ act[r].pc \notin Taking
       /\ \A q \in Programs : Free(queue[q], Requests(r))
       /\ \A q \in Programs : Sender(q, r) => q = x
  <2>1. Lone(r) /\ Listens(r) /\ Mine(r)
    BY <1>2, <1>4 DEF Turn
  <2> QED
    BY <1>4, <2>1 DEF Lone, Early, Late
<1>12. \A q \in Programs : Sender(q, r)' =>
         /\ q = x /\ Sender(q, r) /\ act[x].pc = "invite"
         /\ act'[q].pc = "invited" /\ act'[q].sel = act[q].sel /\ act'[q].type = act[q].type
  BY <1>3, <1>4, <1>5, <1>10, <1>11 DEF Sender, Sending, t
<1>13. \A q \in Programs : Free(queue'[q], Requests(r))
  <2> SUFFICES ASSUME NEW q \in Programs
               PROVE  Free(queue'[q], Requests(r))
    OBVIOUS
  <2> QED
    BY <1>2, <1>7, <1>8, <1>11, QueueKept
<1>14. /\ Single(queue'[r], Notices)
       /\ \A k \in DOMAIN queue'[r] : queue'[r][k] \in Notices => alive[r] /\ queue'[r][k] = n
  <2>1. \A k \in DOMAIN queue'[r] : queue'[r][k] \in Notices =>
          r \in {r} /\ alive[r] /\ queue'[r][k] \in {n}
    BY <1>2, <1>4, <1>8, <1>11, FirstSent
  <2> QED
    BY <1>2, <1>4, <1>8, <1>11, <2>1, FirstSent
<1>15. Lone(r)'
  <2>1. \A q \in Programs : Single(queue'[q], Requests(r))
    BY <1>13 DEF Single, Free
  <2>2. act'[r].pc \notin Taking
    BY <1>4, <1>10, <1>11
  <2>3. \A q \in Programs : Sender(q, r)' => q = x /\ act'[q].pc \notin Early
    BY <1>12 DEF Early
  <2> QED
    BY <1>13, <1>14, <2>1, <2>2, <2>3, Zenon DEF Lone
<1>16. Listens(r)'
  <2>1. \A q \in Programs : Sender(q, r)' => Sender(q, r)
    BY <1>12
  <2>2. \A q \in Programs : "property" \in selected'[q][r] =>
            "property" \in selected[q][r] /\ act'[q].peer = r /\ act'[q].pc \in Heard
    BY <1>3, <1>5, <1>10, <1>11 DEF Listens, Heard
  <2> QED
    BY <1>2, <1>4, <1>7, <1>8, <1>11, <2>1, <2>2, ListensKept
<1>17. Phases(r)'
  <2> SUFFICES ASSUME NEW q \in Programs, Sender(q, r)'
               PROVE  Phase(q, r)'
    BY DEF Phases
  <2>1. q = x /\ act[x].pc = "invite"
    BY <1>12
  <2>2. Undeleted(x, r)'
    <3>1. Free(queue[x], {Deleted(r)})
      BY <1>4 DEF Phase, Undeleted
    <3>2. Free(queue'[x], {Deleted(r)})
      BY <1>2, <1>7, <1>8, <3>1, QueueKept
    <3> QED
      BY <3>2 DEF Undeleted
  <2>3. prop[r] = NoProperty \/ prop[r] = Incr(x, t)
    BY <1>4, <2>1 DEF Phase, t
  <2>4. act[x].left = Length[t] /\ act[x].chunk >= 1 /\ ~ act[x].failed
    BY <1>4, <2>1 DEF Phase, Early, t
  <2>5. /\ a.pc = "invited" /\ a.type = t
        /\ a.left = act[x].left /\ a.chunk = act[x].chunk /\ a.failed = act[x].failed
    BY <1>5, <2>1
  <2>6. Length[t] \in Nat
    BY <1>4, ContentsTypes
  <2>7. Phase(x, r)'
    BY <1>3, <1>10, <2>2, <2>3, <2>4, <2>5, <2>6 DEF Phase, Early
  <2> QED
    BY <2>1, <2>7
<1>18. Mine(r)'
  <2> SUFFICES ASSUME act[r].pc \in Asking
               PROVE  Mine(r)'
    BY <1>4, <1>10 DEF Mine
  <2>1. /\ ~ act[r].ok /\ x = asked[r]
        /\ act[x].sel = act[r].sel /\ t = act[r].type
        /\ act[r].pc \in {"asked", "discard", "fetch", "sender"} => act[r].data = <<>>
    BY <1>4, <1>11 DEF Mine, t
  <2>2. alive[r] => Offered(r)'
    <3>1. CASE act[x].pc = "notify"
      BY <1>3, <1>4, <1>10, <1>12, <2>1, <3>1 DEF Offered, Phase, t
    <3>2. CASE act[x].pc = "invite"
      BY <1>3, <1>4, <1>10, <2>1, <3>2 DEF Offered, Phase, t
    <3> QED
      BY <1>3, <3>1, <3>2
  <2>3. /\ act'[r] = act[r] /\ asked'[r] = asked[r] /\ act'[r].pc \notin {"discard", "fetch"}
    BY <1>3, <1>4, <1>10, <1>11 DEF Taking
  <2>4. \A q \in Programs : Sender(q, r)' =>
          q = asked'[r] /\ act'[q].sel = act'[r].sel /\ act'[q].type = act'[r].type
    BY <1>12, <2>1, <2>3 DEF t
  <2>5. \A k \in DOMAIN queue'[r] : queue'[r][k] \in Notices =>
          /\ queue'[r][k].sel = act'[r].sel /\ queue'[r][k].type = act'[r].type
          /\ queue'[r][k].ok => Offered(r)'
    BY <1>6, <1>14, <2>1, <2>2, <2>3
  <2> QED
    BY <1>13, <2>1, <2>3, <2>4, <2>5 DEF Mine, Free
<1>19. Transfer(r)'
  BY <1>2, <1>3, <1>4, <1>10, <1>11, TransferAside
<1> QED
  BY <1>10, <1>15, <1>16, <1>17, <1>18, <1>19 DEF Inv, Turn

\* What x, which sends to r, does when it finds the event at k.
Found(x, r, k) ==
    /\ queue[x][k] \in {Deleted(r), Destroyed(r)}
    /\ queue' = [queue EXCEPT ![x] = RemoveAt(@, k)]
    /\ act' = [act EXCEPT ![x] =
          IF queue[x][k] = Destroyed(r) THEN Idle
          ELSE [act[x] EXCEPT !.pc = "send",
                   !.left = IF act[x].pc = "sent" THEN @ - act[x].chunk ELSE @]]

\* The event that x waits for is somewhere in its queue.
LEMMA WaitTakes ==
    ASSUME Inv, NEW x \in Programs, NEW r, r = act[x].peer, WaitForPropertyDeleted(x)
    PROVE  \E k \in DOMAIN queue[x] : Found(x, r, k)
<1> DEFINE I == {i \in 1 .. Len(queue[x]) : queue[x][i] \in {Deleted(r), Destroyed(r)}}
           k == Min(I)
<1>1. queue[x] \in Seq(Events)
  BY InvParts DEF Queues
<1>2. I # {}
  <2>1. Place(x, LAMBDA e : e \in {Deleted(r), Destroyed(r)}) = IF I # {} THEN k ELSE 0
    BY DEF Place, SelectInSeq
  <2>2. Place(x, LAMBDA e : e \in {Deleted(r), Destroyed(r)}) > 0
    BY DEF WaitForPropertyDeleted
  <2> QED
    BY <2>1, <2>2
<1>3. queue' = [queue EXCEPT ![x] = RemoveAt(@, k)]
  BY <1>2 DEF WaitForPropertyDeleted, Place, SelectInSeq, Take
<1>4. act' = [act EXCEPT ![x] =
                IF queue[x][k] = Destroyed(r) THEN Idle
                ELSE [act[x] EXCEPT !.pc = "send",
                         !.left = IF act[x].pc = "sent" THEN @ - act[x].chunk ELSE @]]
  BY <1>2 DEF WaitForPropertyDeleted, Place, SelectInSeq
<1>5. k \in I
  <2>1. I \in SUBSET Nat
    OBVIOUS
  <2> HIDE DEF I
  <2> QED
    BY <1>2, <2>1, MinOf
<1>6. k \in DOMAIN queue[x] /\ queue[x][k] \in {Deleted(r), Destroyed(r)}
  <2>1. DOMAIN queue[x] = 1 .. Len(queue[x])
    BY <1>1, SeqFacts
  <2> QED
    BY <1>5, <2>1
<1> HIDE DEF k
<1> QED
  BY <1>3, <1>4, <1>6 DEF Found

\* x hears that the value was deleted, or of the end of the other program.
LEMMA WaitStep ==
    ASSUME Inv, NEW x \in Programs, WaitForPropertyDeleted(x)
    PROVE  Inv'
<1>1. PICK r \in Programs : r = act[x].peer
  <2>1. act[x].pc \in Sending
    BY DEF WaitForPropertyDeleted, Sending
  <2> QED
    BY <2>1, SenderIs
<1> DEFINE next == [act[x] EXCEPT !.pc = "send",
                       !.left = IF act[x].pc = "sent" THEN @ - act[x].chunk ELSE @]
<1>2. /\ Types /\ Graves /\ queue \in Queues
      /\ \A p \in Programs : Turn(p) /\ Transfer(p)
  BY InvParts
<1>3. PICK k \in DOMAIN queue[x] :
        /\ queue[x][k] \in {Deleted(r), Destroyed(r)}
        /\ queue' = [queue EXCEPT ![x] = RemoveAt(@, k)]
        /\ act' = [act EXCEPT ![x] = IF queue[x][k] = Destroyed(r) THEN Idle ELSE next]
  <2>1. PICK k \in DOMAIN queue[x] : Found(x, r, k)
    BY <1>1, WaitTakes
  <2> QED
    BY <2>1 DEF Found
<1> DEFINE a == IF queue[x][k] = Destroyed(r) THEN Idle ELSE next
<1>4. /\ act[x].pc \in {"invited", "sent"}
      /\ queue' = [queue EXCEPT ![x] = RemoveAt(@, k)]
      /\ act' = [act EXCEPT ![x] = a]
      /\ UNCHANGED <<owner, prop, selected, maxChunk, alive, asked, excused, faults>>
  BY <1>3 DEF WaitForPropertyDeleted, server, history
<1>5. queue' \in Queues /\ queue'[x] = RemoveAt(queue[x], k) /\ Sends({}, {})
  BY <1>2, <1>4, <1>3, RemovedSends
<1>6. /\ r # x /\ act[x] \in Activities /\ act[x].type \in Kinds
      /\ act[x].pc \in Sending /\ act[x].pc \in Late /\ act[x].pc \in Heard
      /\ Sender(x, r) /\ Phase(x, r)
      /\ ~ alive[r] => selected[x][r] = {}
  <2>1. act[x].pc \in Sending /\ act[x].pc \in Late /\ act[x].pc \in Heard
    BY <1>4 DEF Sending, Late, Heard
  <2> QED
    BY <1>1, <2>1, SenderIs
<1>7. /\ maxChunk' \in [Programs -> 1 .. MaxChunk]
      /\ excused' \in [Programs -> BOOLEAN] /\ faults' \in [deaths : Nat, allocErrors : Nat]
      /\ selected' \in [Programs -> [Programs -> SUBSET {"property", "structure"}]]
      /\ prop' \in [Programs -> Properties]
  BY <1>2, <1>4 DEF Types
<1>8. /\ \A p \in Programs : p # r => Quiet(p, {}, {})
      /\ \A w \in Programs : {} \cap {Destroyed(w)} = {}
  BY DEF Quiet
<1>9. CASE queue[x][k] = Destroyed(r)
  <2>1. act' = [act EXCEPT ![x] = Idle] /\ Idle \in Activities /\ Idle.pc = "idle"
    BY <1>4, <1>9, IdleTypes
  <2>2. "property" \notin selected'[x][r]
    BY <1>2, <1>4, <1>3, <1>6, <1>9 DEF Graves, Free
  <2>3. SenderMove(x, r, {}, {}, Idle)
    BY <1>1, <1>4, <1>5, <1>6, <1>7, <1>8, <2>1 DEF SenderMove
  <2> QED
    BY <1>4, <2>1, <2>2, <2>3, StopStep
<1>10. CASE queue[x][k] # Destroyed(r)
  <2>1. ~ Undeleted(x, r) /\ queue[x][k] = Deleted(r)
    BY <1>3, <1>10 DEF Undeleted, Free
  <2>2. /\ prop[r] = NoProperty /\ ~ act[x].failed /\ act[x].left <= Length[act[x].type]
        /\ act[x].chunk >= 1
        /\ act[x].pc = "sent" => act[x].chunk <= act[x].left
        /\ act[x].pc = "invited" => act[x].left = Length[act[x].type]
    BY <1>4, <1>6, <2>1 DEF Phase, Incr
  <2>3. /\ act[x].left \in Nat /\ act[x].chunk \in 0 .. MaxChunk /\ Length[act[x].type] \in Nat
        /\ MaxChunk \in Nat
    BY <1>6, ContentsTypes, SelectionsAssumption DEF Activities
  <2>4. /\ next \in Activities /\ next.pc = "send" /\ next.peer = r
        /\ next.sel = act[x].sel /\ next.type = act[x].type
        /\ next.chunk = act[x].chunk /\ next.failed = act[x].failed
        /\ next.left = IF act[x].pc = "sent" THEN act[x].left - act[x].chunk ELSE act[x].left
    <3> DEFINE left == IF act[x].pc = "sent" THEN act[x].left - act[x].chunk ELSE act[x].left
    <3>1. left \in Nat
      BY <2>2, <2>3
    <3>2. next = [act[x] EXCEPT !.pc = "send", !.left = left]
      OBVIOUS
    <3> HIDE DEF left, next
    <3> QED
      BY <1>1, <1>6, <3>1, <3>2 DEF Activities, Sending, left
  <2>5. act' = [act EXCEPT ![x] = next]
    BY <1>4, <1>10
  <2> HIDE DEF next, a
  <2>6. SenderMove(x, r, {}, {}, next)
    BY <1>1, <1>4, <1>5, <1>6, <1>7, <1>8, <2>4, <2>5 DEF SenderMove, Sending
  <2>7. /\ Types' /\ Graves' /\ Peers'
        /\ act'[x] = next
        /\ \A p \in Programs : p # x => act'[p] = act[p]
        /\ \A p \in Programs : p # r => Turn(p)' /\ Transfer(p)'
    BY <2>6, SenderStep
  <2>8. /\ Lone(r) /\ Listens(r) /\ Mine(r) /\ Partly(r) /\ News(r) /\ Answers(r)
        /\ act'[r] = act[r] /\ asked' = asked
    BY <1>2, <1>4, <1>6, <2>7 DEF Turn, Transfer
  <2>9. \A q \in Programs : Sender(q, r)' => q = x /\ Sender(q, r)
    BY <1>6, <2>7, <2>8 DEF Sender, Lone
  <2>10. Lone(r)'
    <3>1. \A q \in Programs : Sender(q, r)' =>
              Sender(q, r) /\ (act'[q].pc \in Early => act[q].pc \in Early)
      BY <2>4, <2>7, <2>9 DEF Early
    <3>2. act'[r].pc \in Taking => act[r].pc \in Taking
      BY <2>8
    <3>3. {} \cap Requests(r) = {} /\ (r \in {} => {} \cap Notices = {})
      OBVIOUS
    <3> QED
      BY <1>2, <1>5, <2>8, <3>1, <3>2, <3>3, LoneKept
  <2>11. Listens(r)'
    <3>1. \A q \in Programs : Sender(q, r)' => Sender(q, r)
      BY <2>9
    <3>2. \A q \in Programs : "property" \in selected'[q][r] =>
              "property" \in selected[q][r] /\ act'[q].peer = r /\ act'[q].pc \in Heard
      BY <1>4, <2>4, <2>7, <2>8 DEF Listens, Heard
    <3>3. {} \cap {Deleted(r)} = {}
      OBVIOUS
    <3> QED
      BY <1>2, <1>5, <2>8, <3>1, <3>2, <3>3, ListensKept
  <2>12. Phases(r)'
    <3>1. Undeleted(x, r)'
      <4>1. Single(queue[x], {Deleted(r)}) /\ queue[x] \in Seq(Events)
        BY <1>2, <1>6, <2>8 DEF Listens, Queues
      <4>2. queue[x][k] \in {Deleted(r)}
        BY <2>1
      <4>3. Free(queue'[x], {Deleted(r)})
        BY <1>3, <1>5, <4>1, <4>2, RemoveTheOne
      <4> QED
        BY <4>3 DEF Undeleted
    <3>2. Phase(x, r)'
      BY <1>4, <2>2, <2>3, <2>4, <2>7, <3>1 DEF Phase, Early
    <3> QED
      BY <2>9, <3>2 DEF Phases
  <2>13. Mine(r)'
    <3> SUFFICES ASSUME act[r].pc \in Asking
                 PROVE  Mine(r)'
      BY <2>8 DEF Mine
    <3>1. \A q \in Programs : Sender(q, r)' =>
            Sender(q, r) /\ act'[q].sel = act[q].sel /\ act'[q].type = act[q].type
      BY <2>4, <2>7, <2>9
    <3>2. /\ act'[r].pc \in {"discard", "fetch"} => Offered(r)
          /\ act'[r].pc \in {"asked", "discard", "fetch", "sender"} => act'[r].data = <<>>
      BY <2>8 DEF Mine
    <3>3. {} \cap Requests(r) = {} /\ (r \in {} => {} \cap Notices = {})
      OBVIOUS
    <3> QED
      BY <1>2, <1>4, <1>5, <2>8, <3>1, <3>2, <3>3, MineKept
  <2>14. Transfer(r)'
    <3>1. News(r)'
      <4>1. /\ Free(queue[r], {NewValue}) => Free(queue'[r], {NewValue})
            /\ Single(queue[r], {NewValue}) => Single(queue'[r], {NewValue})
        <5>1. r \in {} => {} \cap {NewValue} = {}
          OBVIOUS
        <5> QED
          BY <1>2, <1>5, <5>1, QueueKept
      <4> QED
        BY <1>4, <2>8, <4>1 DEF News
    <3>2. Answers(r)'
      BY <2>8 DEF Answers
    <3>3. Partly(r)'
      <4> SUFFICES ASSUME act[r].pc \in InChunks
                   PROVE  Partly(r)'
        BY <2>8 DEF Partly
      <4>1. act[x].type = act[r].type
        BY <1>6, <2>8 DEF Mine, InChunks, Asking
      <4>2. Got(r) = Length[act[r].type] - next.left
        <5>1. act[x].pc = "invited" => Got(r) = 0
          BY <1>6, <2>8 DEF Partly
        <5>2. act[x].pc = "sent" => Got(r) = Length[act[r].type] - act[x].left + act[x].chunk
          BY <1>6, <2>2, <2>8 DEF Partly
        <5> QED
          BY <1>4, <2>2, <2>3, <2>4, <4>1, <5>1, <5>2
      <4>3. \A q \in Programs : Sender(q, r)' =>
              act'[q].pc = "send" /\ Got(r) = Length[act[r].type] - act'[q].left
        BY <2>4, <2>7, <2>9, <4>2
      <4>4. Got(r)' = Got(r) /\ prop'[r] = prop[r]
        BY <1>4, <2>8 DEF Got
      <4> QED
        BY <2>8, <4>3, <4>4 DEF Partly
    <3> QED
      BY <3>1, <3>2, <3>3 DEF Transfer
  <2> QED
    BY <2>7, <2>10, <2>11, <2>12, <2>13, <2>14 DEF Inv, Turn
<1> QED
  BY <1>9, <1>10

\* The next chunk, of m units, or an empty one; or none, if there is no memory for it.
ChunkMove(x, r, a, m) ==
    /\ act[x].pc = "send" /\ selected' = selected
    /\ a.pc # "idle" => a.sel = act[x].sel /\ a.type = act[x].type
    /\ a.left = act[x].left /\ a.left \in Nat /\ m \in Nat
    /\ \/ /\ prop'[r] = Data(Units(x, act[x].type, Length[act[x].type] - a.left, m))
          /\ \/ a.pc = "sent" /\ a.chunk = m /\ 1 <= m /\ m <= a.left /\ ~ a.failed
             \/ a.pc = "finish" /\ a.left = 0 /\ m = 0
       \/ prop'[r] = prop[r] /\ a.pc = "sent" /\ a.failed /\ 1 <= a.chunk

\* x has sent m more units, or failed to.
LEMMA ChunkStep ==
    ASSUME Inv, NEW x \in Programs, NEW r \in Programs, NEW a, NEW m,
           SenderMove(x, r, {r}, {NewValue}, a), ChunkMove(x, r, a, m),
           prop'[r] = prop[r] => queue' = queue
    PROVE  Inv'
<1> DEFINE t == act[x].type
           all == Length[t]
<1>1. /\ Types /\ Graves /\ queue \in Queues
      /\ \A p \in Programs : Turn(p) /\ Transfer(p)
  BY InvParts
<1>2. /\ Types' /\ Graves' /\ Peers'
      /\ act'[x] = a /\ r # x
      /\ \A p \in Programs : p # x => act'[p] = act[p]
      /\ \A p \in Programs : p # r => Turn(p)' /\ Transfer(p)'
  BY SenderStep
<1>3. /\ queue' \in Queues /\ Sends({r}, {NewValue})
      /\ act[x].peer = r /\ act[x].pc = "send" /\ act[x].pc \in Sending /\ act[x].pc \in Late
      /\ a.pc \in {"sent", "finish"} /\ a.peer = r
      /\ a.sel = act[x].sel /\ a.type = t /\ a.left = act[x].left /\ a.left \in Nat
      /\ selected' = selected /\ alive' = alive /\ asked' = asked
  BY DEF SenderMove, ChunkMove, Sending, Late
<1>4. Sender(x, r) /\ Phase(x, r) /\ act[x] \in Activities /\ t \in Kinds
  BY <1>3, SenderIs
<1>5. /\ prop[r] = NoProperty /\ Undeleted(x, r) /\ a.left <= all /\ all \in Nat
  BY <1>3, <1>4, ContentsTypes DEF Phase
<1>6. /\ Lone(r) /\ Listens(r) /\ Mine(r) /\ Partly(r) /\ News(r) /\ Answers(r)
      /\ act'[r] = act[r]
  BY <1>1, <1>2 DEF Turn, Transfer
<1>7. \A q \in Programs : Sender(q, r)' => q = x /\ Sender(q, r) /\ a.pc = "sent"
  BY <1>2, <1>3, <1>4, <1>6 DEF Sender, Lone, Sending
<1>8. /\ {NewValue} \cap Requests(r) = {} /\ {NewValue} \cap Notices = {}
      /\ {NewValue} \cap {Deleted(r)} = {}
  BY NewValueQuiet
<1>9. Lone(r)'
  <2>1. \A q \in Programs : Sender(q, r)' =>
            Sender(q, r) /\ (act'[q].pc \in Early => act[q].pc \in Early)
    BY <1>2, <1>7 DEF Early
  <2>2. act'[r].pc \in Taking => act[r].pc \in Taking
    BY <1>6
  <2> QED
    BY <1>1, <1>3, <1>6, <1>8, <2>1, <2>2, LoneKept
<1>10. Listens(r)'
  <2>1. \A q \in Programs : Sender(q, r)' => Sender(q, r)
    BY <1>7
  <2>2. \A q \in Programs : "property" \in selected'[q][r] =>
            "property" \in selected[q][r] /\ act'[q].peer = r /\ act'[q].pc \in Heard
    BY <1>2, <1>3, <1>6 DEF Listens, Heard
  <2> QED
    BY <1>1, <1>3, <1>6, <1>8, <2>1, <2>2, ListensKept
<1>11. Phases(r)'
  <2> SUFFICES ASSUME NEW q \in Programs, Sender(q, r)'
               PROVE  Phase(q, r)'
    BY DEF Phases
  <2>1. q = x /\ a.pc = "sent"
    BY <1>7
  <2>2. Undeleted(x, r)'
    <3>1. Free(queue[x], {Deleted(r)})
      BY <1>5 DEF Undeleted
    <3>2. Free(queue'[x], {Deleted(r)})
      <4>1. x \in {r} => {NewValue} \cap {Deleted(r)} = {}
        BY <1>8
      <4> QED
        BY <1>1, <1>3, <3>1, <4>1, QueueKept, Zenon
    <3> QED
      BY <3>2 DEF Undeleted
  <2>3. CASE ~ a.failed
    <3>1. /\ prop'[r] = Data(Units(x, t, all - a.left, a.chunk))
          /\ 1 <= a.chunk /\ a.chunk <= a.left
      BY <2>1, <2>3 DEF ChunkMove
    <3>2. Phase(x, r)'
      BY <1>2, <1>3, <1>5, <2>1, <2>2, <2>3, <3>1 DEF Phase, Early
    <3> QED
      BY <2>1, <3>2
  <2>4. CASE a.failed
    <3>1. prop'[r] = NoProperty /\ 1 <= a.chunk
      BY <1>5, <2>1, <2>4 DEF ChunkMove
    <3>2. Phase(x, r)'
      BY <1>2, <1>3, <1>5, <2>1, <2>2, <2>4, <3>1 DEF Phase, Early
    <3> QED
      BY <2>1, <3>2
  <2> QED
    BY <2>3, <2>4
<1>12. ~ Offered(r)
  BY <1>5 DEF Offered, NoProperty, Data, Incr
<1>13. Mine(r)'
  <2>1. \A q \in Programs : Sender(q, r)' =>
            Sender(q, r) /\ act'[q].sel = act[q].sel /\ act'[q].type = act[q].type
    BY <1>2, <1>3, <1>7
  <2>2. act[r].pc \in Asking =>
          /\ act[r].pc \notin {"discard", "fetch"}
          /\ \A k \in DOMAIN queue[r] : queue[r][k] \in Notices => ~ queue[r][k].ok
    BY <1>6, <1>12 DEF Mine
  <2>3. asked'[r] = asked[r]
    BY <1>3
  <2> QED
    BY <1>1, <1>3, <1>6, <1>8, <2>1, <2>2, <2>3, MineAnyway
<1>14. Transfer(r)'
  <2>1. CASE act[r].pc \notin Taking
    BY <1>1, <1>3, <1>6, <2>1, TransferAside
  <2>2. CASE act[r].pc \in Taking
    <3>1. act[r].pc \in InChunks /\ act[r].pc \in Asking /\ act[r].pc # "read"
      BY <1>5, <1>6, <1>12, <2>2 DEF Taking, InChunks, Asking, Mine, News
    <3>2. /\ x = asked[r] /\ t = act[r].type
          /\ act[r].data = Units(asked[r], t, 0, Got(r)) /\ Got(r) <= all
          /\ Got(r) = all - a.left
      BY <1>3, <1>4, <1>6, <3>1 DEF Mine, Partly
    <3>3. Got(r) \in Nat
      BY <1>1 DEF Types, Activities, Got
    <3>4. Answers(r)'
      BY <1>6, <3>1 DEF Answers, InChunks, Ending
    <3>5. Free(queue[r], {NewValue}) /\ act[r].type # TypeList
      BY <1>5, <1>6, <3>1 DEF News
    <3>6. Got(r)' = Got(r) /\ act'[r].type = t /\ asked'[r] = asked[r] /\ act'[r].data = act[r].data
      BY <1>3, <1>6, <3>2 DEF Got
    <3>7. CASE prop'[r] = prop[r]
      <4>1. \A q \in Programs : Sender(q, r)' => act'[q] = a /\ a.pc = "sent"
        BY <1>2, <1>7
      <4>2. a.pc = "sent" => a.failed
        BY <1>5, <3>7 DEF ChunkMove, NoProperty, Data
      <4>3. Partly(r)'
        BY <1>3, <1>5, <3>2, <3>3, <3>6, <3>7, <4>1, <4>2 DEF Partly
      <4>4. queue'[r] = queue[r]
        BY <3>7
      <4>5. News(r)'
        BY <1>5, <1>6, <3>1, <3>5, <3>7, <4>4 DEF News, Free, Single
      <4> QED
        BY <3>4, <4>3, <4>5 DEF Transfer
    <3>8. CASE prop'[r] # prop[r]
      <4>1. /\ prop'[r] = Data(Units(x, t, all - a.left, m)) /\ m \in Nat
            /\ \/ a.pc = "sent" /\ a.chunk = m /\ 1 <= m /\ m <= a.left /\ ~ a.failed
               \/ a.pc = "finish" /\ a.left = 0 /\ m = 0
        BY <3>8 DEF ChunkMove
      <4>2. prop'[r] = Data(Units(asked[r], t, Got(r), m))
        BY <3>2, <4>1
      <4>3. prop'[r] # NoProperty
        BY <1>5, <3>8
      <4>4. News(r)'
        <5>1. Single(queue'[r], {NewValue})
          BY <1>1, <1>3, <3>5, FirstSent
        <5> QED
          BY <1>6, <3>1, <3>5, <4>3, <5>1 DEF News, InChunks
      <4>5. Partly(r)'
        <5>1. \/ prop'[r] = Data(<<>>) /\ Got(r) = all
              \/ m \in 1 .. all /\ Got(r) + m <= all
          <6>1. CASE a.pc = "sent"
            BY <1>3, <1>5, <3>2, <4>1, <6>1
          <6>2. CASE a.pc = "finish"
            <7>1. Got(r) = all /\ m = 0
              BY <1>5, <3>2, <4>1, <6>2
            <7> QED
              BY <4>2, <7>1, NoUnits
          <6> QED
            BY <4>1, <6>1, <6>2
        <5>2. \A q \in Programs : Sender(q, r)' =>
                /\ act'[q].pc = "sent" /\ Got(r) = all - act'[q].left + 0
          BY <1>2, <1>3, <1>5, <1>7, <3>2
        <5> HIDE DEF t, all
        <5>3. /\ act'[r].data = Units(asked'[r], t, 0, Got(r)) /\ Got(r) <= Length[t]
              /\ all = Length[t]
          BY <3>2, <3>6 DEF all
        <5> QED
          BY <3>6, <4>2, <4>3, <5>1, <5>2, <5>3 DEF Partly
      <4> QED
        BY <3>4, <4>4, <4>5 DEF Transfer
    <3> QED
      BY <3>7, <3>8
  <2> QED
    BY <2>1, <2>2
<1> QED
  BY <1>2, <1>9, <1>10, <1>11, <1>13, <1>14 DEF Inv, Turn

\* SendData1 that works.
LEMMA DataMove ==
    ASSUME Inv, NEW x \in Programs, NEW r \in Programs, r = act[x].peer, alive[r],
           NEW v \in Properties, ChangeProperty(r, v),
           NEW a \in Activities, act' = [act EXCEPT ![x] = a],
           act[x].pc \in Sending, a.pc \in Sending \cup {"finish"}, a.peer = r,
           UNCHANGED <<owner, selected, maxChunk, alive, asked, excused, faults>>
    PROVE  SenderMove(x, r, {r}, {NewValue}, a) /\ prop'[r] = v
<1>1. Types
  BY InvParts
<1>2. /\ queue' \in Queues /\ Sends({r}, {NewValue})
      /\ prop' \in [Programs -> Properties] /\ prop'[r] = v
      /\ \A p \in Programs : p # r => prop'[p] = prop[p]
  BY <1>1, ChangedSends
<1>3. /\ \A p \in Programs : p # r => Quiet(p, {r}, {NewValue})
      /\ \A p \in Programs : {NewValue} \cap {Destroyed(p)} = {}
  BY NewValueQuiet
<1>4. /\ selected' \in [Programs -> [Programs -> SUBSET {"property", "structure"}]]
      /\ maxChunk' \in [Programs -> 1 .. MaxChunk]
      /\ excused' \in [Programs -> BOOLEAN]
      /\ faults' \in [deaths : Nat, allocErrors : Nat]
  BY <1>1 DEF Types
<1> QED
  BY <1>2, <1>3, <1>4 DEF SenderMove

\* x sends the next chunk, or finds that it cannot.
LEMMA SendChunkStep ==
    ASSUME Inv, NEW x \in Programs, SendChunk(x)
    PROVE  Inv'
<1>1. PICK r \in Programs : r = act[x].peer
  <2>1. act[x].pc \in Sending
    BY DEF SendChunk, Sending
  <2> QED
    BY <2>1, SenderIs
<1> DEFINE t == act[x].type
           size == ChunkSize(x)
           from == Length[t] - act[x].left
           half == maxChunk[x] \div 2
           less == maxChunk[x] > 1
           on == [act[x] EXCEPT !.pc = "sent", !.chunk = size]
           smaller == [act[x] EXCEPT !.pc = "sent", !.chunk = half, !.failed = TRUE]
           other == IF less THEN smaller ELSE Idle
           v == Data(Units(x, t, from, size))
<1>2. Types /\ queue \in Queues
  BY InvParts
<1>3. /\ act[x].pc = "send" /\ act[x].left > 0
      /\ SendData1(x, Units(x, t, from, size), on, Idle, other)
      /\ IF faults' = faults THEN UNCHANGED <<maxChunk, selected>>
         ELSE IF less THEN maxChunk' = [maxChunk EXCEPT ![x] = half] /\ UNCHANGED selected
              ELSE SelectInput(x, r, {}) /\ UNCHANGED maxChunk
      /\ UNCHANGED <<owner, alive, asked>>
  BY <1>1 DEF SendChunk
<1>4. /\ r # x /\ act[x] \in Activities /\ t \in Kinds /\ act[x].pc \in Sending
      /\ Phase(x, r)
      /\ ~ alive[r] => selected[x][r] = {}
  <2>1. act[x].pc \in Sending
    BY <1>3 DEF Sending
  <2> QED
    BY <1>1, <2>1, SenderIs
<1>5. /\ act[x].left \in Nat /\ act[x].chunk \in Nat /\ act[x].chunk <= MaxChunk
      /\ MaxChunk \in Nat /\ Length[t] \in Nat
      /\ act[x].left <= Length[t] /\ act[x].chunk >= 1 /\ ~ act[x].failed
  BY <1>3, <1>4, ContentsTypes, SelectionsAssumption DEF Activities, Phase
<1>6. /\ size \in Nat /\ 1 <= size /\ size <= act[x].left /\ size <= MaxChunk
      /\ from \in Nat
  BY <1>3, <1>5 DEF ChunkSize
<1>7. \/ /\ alive[r] /\ ChangeProperty(r, v)
         /\ act' = [act EXCEPT ![x] = on]
         /\ UNCHANGED <<excused, faults, maxChunk, selected>>
      \/ /\ ~ alive[r]
         /\ act' = [act EXCEPT ![x] = Idle]
         /\ UNCHANGED <<prop, queue, excused, faults, maxChunk, selected>>
      \/ /\ alive[r]
         /\ act' = [act EXCEPT ![x] = other]
         /\ excused' = [excused EXCEPT ![r] = TRUE]
         /\ faults' = [faults EXCEPT !.allocErrors = @ + 1] /\ faults' # faults
         /\ UNCHANGED <<prop, queue>>
  <2> HIDE DEF size, from, other, on, t
  <2>1. \/ /\ alive[r] /\ ChangeProperty(r, v)
           /\ act' = [act EXCEPT ![x] = on]
           /\ UNCHANGED <<excused, faults>>
        \/ /\ ~ alive[r]
           /\ act' = [act EXCEPT ![x] = Idle]
           /\ UNCHANGED <<prop, queue, excused, faults>>
        \/ /\ alive[r]
           /\ act' = [act EXCEPT ![x] = other]
           /\ excused' = [excused EXCEPT ![r] = TRUE]
           /\ faults' = [faults EXCEPT !.allocErrors = @ + 1]
           /\ UNCHANGED <<prop, queue>>
    BY <1>1, <1>3 DEF SendData1
  <2>2. [faults EXCEPT !.allocErrors = @ + 1] # faults
    BY <1>2, FaultTypes
  <2> HIDE DEF less, half, v
  <2> QED
    BY <1>3, <2>1, <2>2
<1>8. CASE /\ alive[r] /\ ChangeProperty(r, v)
           /\ act' = [act EXCEPT ![x] = on]
           /\ UNCHANGED <<excused, faults, maxChunk, selected>>
  <2>1. /\ on \in Activities /\ on.pc = "sent" /\ on.peer = r /\ on.sel = act[x].sel
        /\ on.type = t /\ on.left = act[x].left /\ on.chunk = size /\ ~ on.failed
    <3> HIDE DEF size
    <3>1. size \in 0 .. MaxChunk
      BY <1>5, <1>6
    <3>2. /\ on \in Activities /\ on.pc = "sent" /\ on.peer = act[x].peer /\ on.sel = act[x].sel
          /\ on.type = t /\ on.left = act[x].left /\ on.chunk = size
          /\ on.failed = act[x].failed
      BY <1>4, <3>1 DEF Activities, Sending
    <3> QED
      BY <1>1, <1>5, <3>2
  <2>2. v \in Properties
    <3> HIDE DEF size, from, t
    <3> QED
      BY <1>4, <1>6, UnitsTypes
  <2> HIDE DEF v, on
  <2>3. SenderMove(x, r, {r}, {NewValue}, on) /\ prop'[r] = v
    <3>1. /\ r = act[x].peer /\ alive[r] /\ v \in Properties /\ ChangeProperty(r, v)
          /\ on \in Activities /\ act' = [act EXCEPT ![x] = on]
          /\ act[x].pc \in Sending /\ on.pc \in Sending \cup {"finish"} /\ on.peer = r
          /\ UNCHANGED <<owner, selected, maxChunk, alive, asked, excused, faults>>
      BY <1>1, <1>4, <2>2, <1>3, <1>8, <2>1 DEF Sending
    <3> QED
      BY <3>1, DataMove
  <2>4. ChunkMove(x, r, on, size)
    BY <1>3, <1>5, <1>6, <1>8, <2>1, <2>3 DEF ChunkMove, v
  <2>5. prop'[r] = prop[r] => queue' = queue
    BY <1>3, <1>4, <2>3 DEF Phase, NoProperty, Data, v
  <2> HIDE DEF size
  <2> QED
    BY <2>3, <2>4, <2>5, ChunkStep
<1>9. CASE /\ ~ alive[r]
           /\ act' = [act EXCEPT ![x] = Idle]
           /\ UNCHANGED <<prop, queue, excused, faults, maxChunk, selected>>
  <2>1. Idle \in Activities /\ Idle.pc = "idle"
    BY IdleTypes
  <2>2. SenderMove(x, r, {}, {}, Idle)
    <3>1. /\ Idle.pc \in Sending \cup {"idle", "finish"} /\ act[x].pc \in Sending \cup {"finish"}
          /\ Idle.pc # "idle" => Idle.peer = act[x].peer
          /\ UNCHANGED <<owner, queue, prop, alive, asked>>
          /\ selected' \in [Programs -> [Programs -> SUBSET {"property", "structure"}]]
          /\ \A q \in Programs : q # x => selected'[q] = selected[q]
          /\ \A p \in Programs : p # act[x].peer => selected'[x][p] = selected[x][p]
          /\ ~ alive[act[x].peer] => selected'[x][act[x].peer] \subseteq selected[x][act[x].peer]
          /\ maxChunk' \in [Programs -> 1 .. MaxChunk]
          /\ excused' \in [Programs -> BOOLEAN]
          /\ faults' \in [deaths : Nat, allocErrors : Nat]
      BY <1>2, <1>3, <1>4, <1>9, <2>1 DEF Types
    <3> QED
      BY <1>1, <1>9, <2>1, <3>1, SilentMove
  <2>3. prop' = prop /\ "property" \notin selected'[x][r]
    BY <1>4, <1>9
  <2> QED
    BY <2>1, <2>2, <2>3, StopStep
<1>10. CASE /\ alive[r]
            /\ act' = [act EXCEPT ![x] = other]
            /\ excused' = [excused EXCEPT ![r] = TRUE]
            /\ faults' = [faults EXCEPT !.allocErrors = @ + 1] /\ faults' # faults
            /\ UNCHANGED <<prop, queue>>
  <2>1. excused' \in [Programs -> BOOLEAN] /\ faults' \in [deaths : Nat, allocErrors : Nat]
    BY <1>2, <1>10, FaultTypes
  <2>2. CASE less
    <3>1. /\ act' = [act EXCEPT ![x] = smaller]
          /\ maxChunk' = [maxChunk EXCEPT ![x] = half] /\ selected' = selected
      BY <1>3, <1>10, <2>2
    <3>2. half \in 1 .. MaxChunk /\ half \in 0 .. MaxChunk /\ 1 <= half
      <4>1. maxChunk[x] \in 1 .. MaxChunk
        BY <1>2 DEF Types
      <4> QED
        BY <1>5, <2>2, <4>1
    <3> HIDE DEF half
    <3>3. /\ smaller \in Activities /\ smaller.pc = "sent" /\ smaller.peer = r
          /\ smaller.sel = act[x].sel /\ smaller.type = t /\ smaller.left = act[x].left
          /\ smaller.chunk = half /\ smaller.failed
      BY <1>1, <1>4, <3>2 DEF Activities, Sending
    <3> HIDE DEF smaller
    <3>4. /\ queue' \in Queues /\ Sends({r}, {NewValue})
      <4>1. \A q \in Programs : queue[q] \in Seq(Events)
        BY <1>2 DEF Queues
      <4> QED
        BY <1>2, <1>10, <4>1, FromSame DEF Sends
    <3>5. /\ \A p \in Programs : p # r => Quiet(p, {r}, {NewValue})
          /\ \A p \in Programs : {NewValue} \cap {Destroyed(p)} = {}
      BY NewValueQuiet
    <3>6. SenderMove(x, r, {r}, {NewValue}, smaller)
      <4>1. /\ prop' \in [Programs -> Properties]
            /\ selected' \in [Programs -> [Programs -> SUBSET {"property", "structure"}]]
            /\ maxChunk' \in [Programs -> 1 .. MaxChunk]
        BY <1>2, <1>10, <3>1, <3>2 DEF Types
      <4>2. smaller.pc \in Sending \cup {"idle", "finish"} /\ act[x].pc \in Sending \cup {"finish"}
        BY <1>4, <3>3 DEF Sending
      <4> QED
        BY <1>1, <1>3, <1>10, <2>1, <3>1, <3>3, <3>4, <3>5, <4>1, <4>2 DEF SenderMove
    <3>7. ChunkMove(x, r, smaller, size)
      BY <1>3, <1>5, <1>6, <1>10, <3>1, <3>2, <3>3 DEF ChunkMove
    <3>8. prop'[r] = prop[r] => queue' = queue
      BY <1>10
    <3> HIDE DEF size
    <3> QED
      BY <3>6, <3>7, <3>8, ChunkStep
  <2>3. CASE ~ less
    <3>1. /\ act' = [act EXCEPT ![x] = Idle] /\ SelectInput(x, r, {}) /\ maxChunk' = maxChunk
      BY <1>3, <1>10, <2>3
    <3>2. Idle \in Activities /\ Idle.pc = "idle"
      BY IdleTypes
    <3>3. /\ selected' \in [Programs -> [Programs -> SUBSET {"property", "structure"}]]
          /\ \A q \in Programs : q # x => selected'[q] = selected[q]
          /\ \A p \in Programs : p # r => selected'[x][p] = selected[x][p]
          /\ selected'[x][r] = {}
      BY <1>2, <1>10, <3>1 DEF Types, SelectInput
    <3>4. SenderMove(x, r, {}, {}, Idle)
      <4>1. /\ Idle.pc \in Sending \cup {"idle", "finish"} /\ act[x].pc \in Sending \cup {"finish"}
            /\ Idle.pc # "idle" => Idle.peer = act[x].peer
            /\ UNCHANGED <<owner, queue, prop, alive, asked>>
            /\ \A p \in Programs : p # act[x].peer => selected'[x][p] = selected[x][p]
            /\ ~ alive[act[x].peer] => selected'[x][act[x].peer] \subseteq selected[x][act[x].peer]
            /\ maxChunk' \in [Programs -> 1 .. MaxChunk]
        BY <1>1, <1>2, <1>3, <1>4, <1>10, <3>1, <3>2, <3>3 DEF Types
      <4> QED
        BY <1>1, <2>1, <3>1, <3>2, <3>3, <4>1, SilentMove
    <3>5. prop' = prop /\ "property" \notin selected'[x][r]
      BY <1>10, <3>3
    <3> QED
      BY <3>2, <3>4, <3>5, StopStep
  <2> QED
    BY <2>2, <2>3
<1> QED
  BY <1>7, <1>8, <1>9, <1>10

\* x sends the empty chunk that ends the data.
LEMMA SendEndStep ==
    ASSUME Inv, NEW x \in Programs, SendEnd(x)
    PROVE  Inv'
<1>1. PICK r \in Programs : r = act[x].peer
  <2>1. act[x].pc \in Sending
    BY DEF SendEnd, Sending
  <2> QED
    BY <2>1, SenderIs
<1> DEFINE t == act[x].type
           from == Length[t] - act[x].left
           on == [act[x] EXCEPT !.pc = "finish"]
           zero == 0
           v == Data(Units(x, t, from, zero))
<1>2. Types /\ queue \in Queues
  BY InvParts
<1>3. /\ act[x].pc = "send" /\ act[x].left = 0
      /\ SendData1(x, <<>>, on, Idle, on)
      /\ UNCHANGED <<owner, selected, maxChunk, alive, asked>>
  BY DEF SendEnd
<1>4. /\ r # x /\ act[x] \in Activities /\ t \in Kinds /\ act[x].pc \in Sending
      /\ Phase(x, r)
      /\ ~ alive[r] => selected[x][r] = {}
  <2>1. act[x].pc \in Sending
    BY <1>3 DEF Sending
  <2> QED
    BY <1>1, <2>1, SenderIs
<1>5. from \in Nat /\ zero \in Nat /\ Length[t] \in Nat /\ v = Data(<<>>)
  BY <1>3, <1>4, ContentsTypes, NoUnits
<1>6. /\ on \in Activities /\ on.pc = "finish" /\ on.peer = r /\ on.sel = act[x].sel
      /\ on.type = t /\ on.left = act[x].left
  BY <1>1, <1>4 DEF Activities, Sending
<1> HIDE DEF on
<1>7. /\ selected' \in [Programs -> [Programs -> SUBSET {"property", "structure"}]]
      /\ \A q \in Programs : q # x => selected'[q] = selected[q]
      /\ \A p \in Programs : p # r => selected'[x][p] = selected[x][p]
      /\ selected' = selected
      /\ maxChunk' \in [Programs -> 1 .. MaxChunk]
  BY <1>2, <1>3 DEF Types
<1>8. \/ /\ alive[r] /\ ChangeProperty(r, Data(<<>>))
         /\ act' = [act EXCEPT ![x] = on]
         /\ UNCHANGED <<excused, faults>>
      \/ /\ act' = [act EXCEPT ![x] = on] \/ (act' = [act EXCEPT ![x] = Idle] /\ ~ alive[r])
         /\ \/ UNCHANGED <<excused, faults>>
            \/ /\ excused' = [excused EXCEPT ![r] = TRUE]
               /\ faults' = [faults EXCEPT !.allocErrors = @ + 1]
         /\ UNCHANGED <<prop, queue>>
  BY <1>1, <1>3 DEF SendData1
<1>9. CASE /\ alive[r] /\ ChangeProperty(r, Data(<<>>))
           /\ act' = [act EXCEPT ![x] = on]
           /\ UNCHANGED <<excused, faults>>
  <2>1. v \in Properties /\ ChangeProperty(r, v)
    <3>1. ChangeProperty(r, v)
      BY <1>5, <1>9
    <3> HIDE DEF from, zero, t
    <3> QED
      BY <1>4, <1>5, <3>1, UnitsTypes
  <2> HIDE DEF v, from, zero
  <2>2. SenderMove(x, r, {r}, {NewValue}, on) /\ prop'[r] = v
    <3>1. /\ r = act[x].peer /\ alive[r] /\ v \in Properties /\ ChangeProperty(r, v)
          /\ on \in Activities /\ act' = [act EXCEPT ![x] = on]
          /\ act[x].pc \in Sending /\ on.pc \in Sending \cup {"finish"} /\ on.peer = r
          /\ UNCHANGED <<owner, selected, maxChunk, alive, asked, excused, faults>>
      BY <1>1, <1>4, <2>1, <1>3, <1>6, <1>9
    <3> QED
      BY <3>1, DataMove
  <2>3. ChunkMove(x, r, on, zero)
    BY <1>3, <1>5, <1>6, <1>7, <1>9, <2>2 DEF ChunkMove, v, from, zero
  <2>4. prop'[r] = prop[r] => queue' = queue
    BY <1>3, <1>4, <2>2 DEF Phase, NoProperty, Data, v
  <2> QED
    BY <2>2, <2>3, <2>4, ChunkStep
<1>10. CASE /\ act' = [act EXCEPT ![x] = on] \/ (act' = [act EXCEPT ![x] = Idle] /\ ~ alive[r])
            /\ \/ UNCHANGED <<excused, faults>>
               \/ /\ excused' = [excused EXCEPT ![r] = TRUE]
                  /\ faults' = [faults EXCEPT !.allocErrors = @ + 1]
            /\ UNCHANGED <<prop, queue>>
  <2>1. excused' \in [Programs -> BOOLEAN] /\ faults' \in [deaths : Nat, allocErrors : Nat]
    <3>1. /\ excused \in [Programs -> BOOLEAN] /\ faults \in [deaths : Nat, allocErrors : Nat]
          /\ [excused EXCEPT ![r] = TRUE] \in [Programs -> BOOLEAN]
          /\ [faults EXCEPT !.allocErrors = @ + 1] \in [deaths : Nat, allocErrors : Nat]
      BY <1>2, FaultTypes
    <3> QED
      BY <1>10, <3>1
  <2>2. Idle \in Activities /\ Idle.pc = "idle"
    BY IdleTypes
  <2>3. PICK a \in {on, Idle} : act' = [act EXCEPT ![x] = a] /\ (a = Idle => a = on \/ ~ alive[r])
    BY <1>10
  <2>4. /\ a \in Activities /\ a.pc \in {"idle", "finish"}
        /\ a.pc # "idle" => a.peer = r
        /\ a.pc = "idle" => ~ alive[r]
    BY <1>6, <2>2, <2>3
  <2>5. SenderMove(x, r, {}, {}, a)
    <3>1. /\ a.pc \in Sending \cup {"idle", "finish"} /\ act[x].pc \in Sending \cup {"finish"}
          /\ a.pc # "idle" => a.peer = act[x].peer
          /\ UNCHANGED <<owner, queue, prop, alive, asked>>
          /\ \A p \in Programs : p # act[x].peer => selected'[x][p] = selected[x][p]
          /\ ~ alive[act[x].peer] => selected'[x][act[x].peer] \subseteq selected[x][act[x].peer]
      BY <1>1, <1>3, <1>4, <1>7, <1>10, <2>4
    <3> QED
      BY <1>1, <1>7, <2>1, <2>3, <2>4, <3>1, SilentMove
  <2>6. /\ prop' = prop
        /\ "property" \in selected'[x][r] => a.pc = "finish" /\ "property" \in selected[x][r]
    BY <1>4, <1>7, <1>10, <2>4
  <2> QED
    BY <2>4, <2>5, <2>6, StopStep
<1> QED
  BY <1>8, <1>9, <1>10

-----------------------------------------------------------------------------
(* The event loop.                                                         *)

\* x takes the first event and does not begin anything.
LEMMA IgnoreStep ==
    ASSUME Inv, NEW x \in Programs, act[x].pc = "idle", queue[x] # <<>>,
           queue' = [queue EXCEPT ![x] = Tail(@)],
           UNCHANGED <<owner, prop, selected, act, maxChunk, alive, asked, excused, faults>>
    PROVE  Inv'
<1>1. /\ Types /\ Graves /\ Peers /\ queue \in Queues
      /\ \A p \in Programs : Turn(p) /\ Transfer(p)
  BY InvParts
<1>2. queue' \in Queues /\ Sends({}, {})
  <2>1. queue[x] \in Seq(Events)
    BY <1>1 DEF Queues
  <2>2. 1 \in DOMAIN queue[x] /\ Tail(queue[x]) = RemoveAt(queue[x], 1)
    BY <2>1, TailRemoves
  <2>3. queue' = [queue EXCEPT ![x] = RemoveAt(@, 1)]
    BY <2>2
  <2> DEFINE one == 1
  <2>4. one \in DOMAIN queue[x] /\ queue' = [queue EXCEPT ![x] = RemoveAt(@, one)]
    BY <2>2, <2>3
  <2> HIDE DEF one
  <2> QED
    BY <1>1, <2>4, RemovedSends
<1>3. Types'
  BY <1>1, <1>2 DEF Types, Queues
<1>4. Graves'
  <2>1. alive[x]
    BY <1>1 DEF Graves
  <2>2. /\ \A s1 \in Selections : owner'[s1] # owner[s1] => alive[owner'[s1]]
        /\ \A w \in Programs : {} \cap {Destroyed(w)} = {}
    OBVIOUS
  <2> QED
    BY <1>1, <1>2, <2>1, <2>2, GravesKept
<1>5. Peers'
  BY <1>1 DEF Peers
<1>6. \A p \in Programs : Calm(p) /\ Quiet(p, {}, {})
  BY DEF Calm, Quiet, Sender
<1>7. \A p \in Programs : Turn(p)' /\ Transfer(p)'
  BY <1>1, <1>2, <1>6, CalmKeeps
<1> QED
  BY <1>3, <1>4, <1>5, <1>7 DEF Inv

\* The first event of x is the only request of r, and nobody sends to r.
LEMMA RequestFirst ==
    ASSUME Inv, NEW x \in Programs, queue[x] # <<>>, Head(queue[x]).is = "SelectionRequest",
           NEW r \in Programs, r = Head(queue[x]).from
    PROVE  /\ queue[x] \in Seq(Events) /\ Tail(queue[x]) \in Seq(Events)
           /\ Head(queue[x]) \in Requests(r)
           /\ Head(queue[x]) = SelectionRequest(r, Head(queue[x]).sel, Head(queue[x]).type)
           /\ Head(queue[x]).sel \in Sels /\ Head(queue[x]).type \in Kinds
           /\ From(Tail(queue[x]), queue[x], {})
           /\ r # x /\ Free(queue[r], Notices) /\ act[r].pc \notin Taking
           /\ \A q \in Programs : ~ Sender(q, r)
           /\ \A q \in Programs : q # x => Free(queue[q], Requests(r))
           /\ Free(Tail(queue[x]), Requests(r)) /\ Free(Tail(queue[x]), {Deleted(r)})
           /\ act[r].pc \in Asking => /\ x = asked[r]
                                      /\ Head(queue[x]).sel = act[r].sel
                                      /\ Head(queue[x]).type = act[r].type
<1> DEFINE e == Head(queue[x])
           one == 1
<1>1. /\ Types /\ queue \in Queues /\ Turn(r)
  BY InvParts
<1>2. queue[x] \in Seq(Events)
  BY <1>1 DEF Queues
<1>3. /\ one \in DOMAIN queue[x] /\ e = queue[x][one] /\ e \in Events
      /\ Tail(queue[x]) \in Seq(Events) /\ Tail(queue[x]) = RemoveAt(queue[x], one)
  BY <1>2, TailRemoves
<1>4. /\ e \in Requests(r) /\ e = SelectionRequest(r, e.sel, e.type)
      /\ e.sel \in Sels /\ e.type \in Kinds
  BY <1>3, EventKinds
<1>5. Lone(r) /\ Listens(r) /\ Mine(r)
  BY <1>1 DEF Turn
<1> HIDE DEF e
<1>6. ~ Free(queue[x], Requests(r))
  BY <1>3, <1>4 DEF Free
<1>7. /\ r # x /\ Free(queue[r], Notices) /\ act[r].pc \notin Taking
      /\ \A q \in Programs : ~ Sender(q, r)
      /\ \A q \in Programs : q # x => Free(queue[q], Requests(r))
      /\ Single(queue[x], Requests(r))
  BY <1>5, <1>6 DEF Lone
<1>8. From(Tail(queue[x]), queue[x], {})
  <2> HIDE DEF one
  <2>1. From(RemoveAt(queue[x], one), queue[x], {})
    BY <1>2, <1>3, FromRemove
  <2> QED
    BY <1>3, <2>1
<1>9. Free(Tail(queue[x]), Requests(r))
  <2> HIDE DEF one
  <2>1. Free(RemoveAt(queue[x], one), Requests(r))
    BY <1>2, <1>3, <1>4, <1>7, RemoveTheOne
  <2> QED
    BY <1>3, <2>1
<1>10. Free(Tail(queue[x]), {Deleted(r)})
  <2> SUFFICES ASSUME NEW j \in DOMAIN Tail(queue[x]), Tail(queue[x])[j] = Deleted(r)
               PROVE  FALSE
    BY DEF Free
  <2>1. j \in Nat /\ j >= 1 /\ j + 1 \in DOMAIN queue[x] /\ Tail(queue[x])[j] = queue[x][j + 1]
    <3>1. /\ DOMAIN Tail(queue[x]) = 1 .. Len(Tail(queue[x]))
          /\ DOMAIN queue[x] = 1 .. Len(queue[x])
          /\ Len(queue[x]) \in Nat /\ Len(Tail(queue[x])) \in Nat
      BY <1>2, <1>3, SeqFacts
    <3>2. /\ Len(Tail(queue[x])) = Len(queue[x]) - 1
          /\ \A i \in 1 .. Len(Tail(queue[x])) : Tail(queue[x])[i] = queue[x][i + 1]
      BY <1>2, HeadTailProperties
    <3> QED
      BY <3>1, <3>2
  <2>2. queue[x][1] \in Requests(r)
    BY <1>3, <1>4
  <2>3. Behind(queue[x], Requests(r), {Deleted(r)})
    BY <1>5 DEF Listens
  <2>4. 1 < j + 1 /\ 1 \in DOMAIN queue[x]
    BY <1>3, <2>1
  <2> QED
    BY <2>1, <2>2, <2>3, <2>4 DEF Behind
<1>11. act[r].pc \in Asking => x = asked[r] /\ e.sel = act[r].sel /\ e.type = act[r].type
  <2> SUFFICES ASSUME act[r].pc \in Asking
               PROVE  x = asked[r] /\ e.sel = act[r].sel /\ e.type = act[r].type
    OBVIOUS
  <2>1. e = SelectionRequest(r, act[r].sel, act[r].type) /\ x = asked[r]
    BY <1>3, <1>4, <1>5 DEF Mine
  <2> QED
    BY <2>1 DEF SelectionRequest
<1> QED
  BY <1>2, <1>3, <1>4, <1>7, <1>8, <1>9, <1>10, <1>11 DEF e

\* x refuses the request.
Refuses(x, r) ==
    /\ queue' = Post([queue EXCEPT ![x] = Tail(@)], {r},
                     SelectionNotify(Head(queue[x]).sel, Head(queue[x]).type, FALSE))
    /\ excused' = [excused EXCEPT ![r] = TRUE]

\* x refuses the request: the notice is the only one.
LEMMA RefuseStep ==
    ASSUME Inv, NEW x \in Programs, act[x].pc = "idle", queue[x] # <<>>,
           Head(queue[x]).is = "SelectionRequest",
           NEW r \in Programs, r = Head(queue[x]).from,
           Refuses(x, r),
           UNCHANGED <<owner, prop, selected, act, maxChunk, alive, asked, faults>>
    PROVE  Inv'
<1> DEFINE e == Head(queue[x])
           tail == Tail(queue[x])
           rest == [queue EXCEPT ![x] = tail]
           n == SelectionNotify(e.sel, e.type, FALSE)
<1>1. /\ Types /\ Graves /\ Peers /\ queue \in Queues
      /\ \A p \in Programs : Turn(p) /\ Transfer(p)
  BY InvParts
<1>2. /\ queue[x] \in Seq(Events) /\ tail \in Seq(Events)
      /\ e.sel \in Sels /\ e.type \in Kinds
      /\ From(tail, queue[x], {})
      /\ r # x /\ Free(queue[r], Notices) /\ act[r].pc \notin Taking
      /\ \A q \in Programs : ~ Sender(q, r)
      /\ \A q \in Programs : q # x => Free(queue[q], Requests(r))
      /\ Free(tail, Requests(r))
      /\ act[r].pc \in Asking => e.sel = act[r].sel /\ e.type = act[r].type
  BY RequestFirst
<1>3. n \in Events /\ n \in Notices /\ n.sel = e.sel /\ n.type = e.type /\ n.ok = FALSE
  <2> HIDE DEF e
  <2> QED
    BY <1>2, EventKinds DEF SelectionNotify
<1>4. /\ \A p \in Programs : p # r => Quiet(p, {r}, {n})
      /\ \A w \in Programs : {n} \cap {Destroyed(w)} = {}
      /\ {n} \cap Requests(r) = {} /\ {n} \cap {Deleted(r)} = {}
  BY Apart DEF Quiet
<1> DEFINE to == {r}
           new == {n}
<1>5. queue' = Post(rest, to, n) /\ r \in to
  BY DEF Refuses
<1>6. /\ \A p \in Programs : p # r => Quiet(p, to, new)
      /\ \A w \in Programs : new \cap {Destroyed(w)} = {}
      /\ new \cap Requests(r) = {} /\ new \cap {Deleted(r)} = {}
      /\ \A k : k \in new => k = n
      /\ \A q : q \in to <=> q = r
  BY <1>4
<1> HIDE DEF n, e, tail
<1>7. /\ rest \in Queues /\ rest[x] = tail
      /\ \A q \in Programs : q # x => rest[q] = queue[q]
      /\ \A q \in Programs : From(rest[q], queue[q], {})
  <2>1. \A q \in Programs : queue[q] \in Seq(Events)
    BY <1>1 DEF Queues
  <2>2. \A q \in Programs : From(queue[q], queue[q], {})
    BY <2>1, FromSame
  <2> QED
    BY <1>1, <1>2, <2>2 DEF Queues
<1> HIDE DEF rest
<1>8. /\ queue' \in Queues
      /\ \A q \in Programs :
            /\ From(queue'[q], rest[q], IF q \in to /\ alive[q] THEN new ELSE {})
            /\ ~ (q \in to /\ alive[q]) => queue'[q] = rest[q]
  <2> HIDE DEF to
  <2>1. /\ Post(rest, to, n) \in Queues
        /\ \A q \in Programs :
              /\ From(Post(rest, to, n)[q], rest[q], IF q \in to /\ alive[q] THEN {n} ELSE {})
              /\ ~ (q \in to /\ alive[q]) => Post(rest, to, n)[q] = rest[q]
    BY <1>3, <1>7, PostSends
  <2> QED
    BY <1>5, <2>1
<1> HIDE DEF to, new
<1>9. Sends(to, new)
  <2> SUFFICES ASSUME NEW q \in Programs
               PROVE  From(queue'[q], queue[q], IF q \in to /\ alive[q] THEN new ELSE {})
    BY DEF Sends
  <2>1. CASE q = r
    BY <1>2, <1>7, <1>8, <2>1
  <2>2. CASE q # r
    BY <1>6, <1>7, <1>8, <2>2
  <2> QED
    BY <2>1, <2>2
<1>10. queue'[x] = tail
  BY <1>6, <1>2, <1>7, <1>8
<1>11. Types'
  <2>1. excused' \in [Programs -> BOOLEAN]
    BY <1>1, FaultTypes DEF Refuses
  <2> QED
    BY <1>1, <1>8, <2>1 DEF Types, Queues
<1>12. Graves'
  <2>1. alive[x]
    BY <1>1 DEF Graves
  <2>2. /\ \A s1 \in Selections : owner'[s1] # owner[s1] => alive[owner'[s1]]
        /\ \A p \in Programs : p # x => act'[p] = act[p]
        /\ \A p \in Programs : ~ alive[p] =>
              prop'[p] = prop[p] /\ \A q \in Programs : selected'[q][p] \subseteq selected[q][p]
    OBVIOUS
  <2> QED
    BY <1>1, <1>6, <1>8, <1>9, <2>1, <2>2, GravesKept
<1>13. Peers'
  BY <1>1 DEF Peers
<1>14. ASSUME NEW p \in Programs, p # r
       PROVE  Turn(p)' /\ Transfer(p)'
  <2>1. Calm(p)
    BY DEF Calm, Sender
  <2>2. Quiet(p, to, new)
    BY <1>6, <1>14
  <2> QED
    BY <1>1, <1>8, <1>9, <2>1, <2>2, CalmKeeps
<1>15. Lone(r) /\ Listens(r) /\ Mine(r) /\ \A q \in Programs : ~ Sender(q, r)'
  BY <1>1, <1>2 DEF Turn, Sender
<1>16. \A q \in Programs : Free(queue'[q], Requests(r))
  <2> SUFFICES ASSUME NEW q \in Programs
               PROVE  Free(queue'[q], Requests(r))
    OBVIOUS
  <2>1. CASE q = x
    BY <1>2, <1>10, <2>1
  <2>2. CASE q # x
    <3>1. Free(queue[q], Requests(r))
      BY <1>2, <2>2
    <3> QED
      BY <1>1, <1>6, <1>8, <1>9, <3>1, QueueKept
  <2> QED
    BY <2>1, <2>2
<1>17. /\ Single(queue'[r], Notices)
       /\ \A k \in DOMAIN queue'[r] : queue'[r][k] \in Notices => queue'[r][k] = n
  <2>1. \A k \in DOMAIN queue'[r] : queue'[r][k] \in Notices =>
          r \in to /\ alive[r] /\ queue'[r][k] \in new
    <3>1. /\ queue \in Queues /\ queue' \in Queues /\ Sends(to, new)
          /\ Free(queue[r], Notices)
      BY <1>1, <1>2, <1>8, <1>9
    <3> SUFFICES ASSUME NEW k \in DOMAIN queue'[r], queue'[r][k] \in Notices
                 PROVE  r \in to /\ alive[r] /\ queue'[r][k] \in new
      OBVIOUS
    <3> QED
      BY <3>1, FirstSent
  <2>2. Single(queue'[r], Notices)
    BY <1>1, <1>2, <1>8, <1>9, FirstSent
  <2> QED
    BY <1>6, <2>1, <2>2
<1>18. Lone(r)'
  <2>1. \A q \in Programs : Single(queue'[q], Requests(r))
    BY <1>16 DEF Single, Free
  <2>2. act'[r].pc \notin Taking
    BY <1>2
  <2> QED
    BY <1>15, <1>16, <1>17, <2>1, <2>2, Zenon DEF Lone
<1>19. Listens(r)'
  <2>1. \A q \in Programs : Sender(q, r)' => Sender(q, r)
    BY <1>15
  <2>2. \A q \in Programs : "property" \in selected'[q][r] =>
            "property" \in selected[q][r] /\ act'[q].peer = r /\ act'[q].pc \in Heard
    BY <1>15 DEF Listens
  <2> QED
    BY <1>1, <1>6, <1>8, <1>9, <1>15, <2>1, <2>2, ListensKept
<1>20. Phases(r)'
  BY <1>15 DEF Phases
<1>21. Mine(r)'
  <2> SUFFICES ASSUME act[r].pc \in Asking
               PROVE  Mine(r)'
    BY DEF Mine
  <2>1. /\ ~ act'[r].ok /\ act'[r].pc \notin {"discard", "fetch"}
        /\ act'[r].pc \in {"asked", "discard", "fetch", "sender"} => act'[r].data = <<>>
    BY <1>2, <1>15 DEF Mine, Taking
  <2>2. \A k \in DOMAIN queue'[r] : queue'[r][k] \in Notices =>
          /\ queue'[r][k].sel = act'[r].sel /\ queue'[r][k].type = act'[r].type
          /\ ~ queue'[r][k].ok
    BY <1>2, <1>3, <1>17
  <2> QED
    BY <1>15, <1>16, <2>1, <2>2 DEF Mine, Free
<1>22. Transfer(r)'
  BY <1>1, <1>2, TransferAside
<1> QED
  BY <1>11, <1>12, <1>13, <1>14, <1>18, <1>19, <1>20, <1>21, <1>22 DEF Inv, Turn

\* x begins to send.
LEMMA AcceptStep ==
    ASSUME Inv, NEW x \in Programs, act[x].pc = "idle", queue[x] # <<>>,
           Head(queue[x]).is = "SelectionRequest",
           NEW r \in Programs, r = Head(queue[x]).from,
           queue' = [queue EXCEPT ![x] = Tail(@)],
           NEW a \in Activities, act' = [act EXCEPT ![x] = a],
           a.pc \in {"whole", "announce"}, a.peer = r,
           a.sel = Head(queue[x]).sel, a.type = Head(queue[x]).type,
           a.left = Length[a.type], a.chunk = maxChunk[x], a.failed = FALSE,
           UNCHANGED <<owner, prop, selected, maxChunk, alive, asked, excused, faults>>
    PROVE  Inv'
<1> DEFINE e == Head(queue[x])
           tail == Tail(queue[x])
<1>1. /\ Types /\ Graves /\ Peers /\ queue \in Queues
      /\ \A p \in Programs : Turn(p) /\ Transfer(p)
  BY InvParts
<1>2. /\ queue[x] \in Seq(Events) /\ tail \in Seq(Events)
      /\ From(tail, queue[x], {})
      /\ r # x /\ Free(queue[r], Notices) /\ act[r].pc \notin Taking
      /\ \A q \in Programs : ~ Sender(q, r)
      /\ \A q \in Programs : q # x => Free(queue[q], Requests(r))
      /\ Free(tail, Requests(r)) /\ Free(tail, {Deleted(r)})
      /\ act[r].pc \in Asking => x = asked[r] /\ e.sel = act[r].sel /\ e.type = act[r].type
  BY RequestFirst
<1>3. a.sel = e.sel /\ a.type = e.type /\ queue' = [queue EXCEPT ![x] = tail]
  OBVIOUS
<1> HIDE DEF e, tail
<1>4. /\ queue' \in Queues /\ Sends({}, {}) /\ queue'[x] = tail
      /\ \A q \in Programs : q # x => queue'[q] = queue[q]
  <2>1. \A q \in Programs : queue[q] \in Seq(Events)
    BY <1>1 DEF Queues
  <2>2. \A q \in Programs : From(queue[q], queue[q], {})
    BY <2>1, FromSame
  <2> QED
    BY <1>1, <1>2, <1>3, <2>2 DEF Queues, Sends
<1>5. /\ act' \in [Programs -> Activities]
      /\ act'[x] = a
      /\ \A p \in Programs : p # x => act'[p] = act[p]
  BY <1>1, PutTypes DEF Types
<1>6. Types'
  BY <1>1, <1>4, <1>5 DEF Types, Queues
<1>7. Graves'
  <2>1. alive[x]
    BY <1>1 DEF Graves
  <2>2. /\ \A s1 \in Selections : owner'[s1] # owner[s1] => alive[owner'[s1]]
        /\ \A w \in Programs : {} \cap {Destroyed(w)} = {}
        /\ \A p \in Programs : ~ alive[p] =>
              prop'[p] = prop[p] /\ \A q \in Programs : selected'[q][p] \subseteq selected[q][p]
    OBVIOUS
  <2> QED
    BY <1>1, <1>4, <1>5, <2>1, <2>2, GravesKept
<1>8. Peers'
  BY <1>1, <1>2, <1>5 DEF Peers, Asking
<1>9. \A p \in Programs : "property" \notin selected'[x][p]
  BY <1>1 DEF Turn, Listens, Heard
<1>10. ASSUME NEW p \in Programs, p # r
       PROVE  Turn(p)' /\ Transfer(p)'
  <2>1. Calm(p)
    <3>1. /\ p = x => act'[x].pc \notin Asking \cup Ending
          /\ ~ Sender(x, p)'
      BY <1>5, <1>10 DEF Sender, Asking, Ending
    <3>2. /\ \A q \in Programs : q # x => act'[q] = act[q] /\ selected'[q] = selected[q]
          /\ p # x => asked'[p] = asked[p]
          /\ prop'[p] = prop[p] /\ (alive'[p] => alive[p])
      BY <1>5
    <3> QED
      BY <1>9, <3>1, <3>2, CalmFar
  <2>2. Quiet(p, {}, {})
    BY DEF Quiet
  <2> QED
    BY <1>1, <1>4, <2>1, <2>2, CalmKeeps
<1>11. /\ Lone(r) /\ Listens(r) /\ Mine(r) /\ act'[r] = act[r]
       /\ \A q \in Programs : Sender(q, r)' => q = x
  BY <1>1, <1>2, <1>5 DEF Turn, Sender
<1>12. \A q \in Programs : Free(queue'[q], Requests(r))
  BY <1>2, <1>4
<1>13. Free(queue'[r], Notices)
  BY <1>2, <1>4
<1>14. Lone(r)'
  <2>1. \A q \in Programs : Single(queue'[q], Requests(r))
    BY <1>12 DEF Single, Free
  <2>2. Single(queue'[r], Notices) /\ act'[r].pc \notin Taking
    BY <1>2, <1>11, <1>13 DEF Single, Free
  <2> QED
    BY <1>11, <1>12, <1>13, <2>1, <2>2, Zenon DEF Lone
<1>15. Undeleted(x, r)'
  BY <1>2, <1>4 DEF Undeleted
<1>16. Listens(r)'
  <2>1. \A q \in Programs : Behind(queue'[q], Requests(r), {Deleted(r)})
    BY <1>12 DEF Behind, Free
  <2>2. \A q \in Programs : "property" \in selected'[q][r] =>
            act'[q].peer = r /\ act'[q].pc \in Heard
    BY <1>5, <1>9, <1>11 DEF Listens
  <2>3. Single(queue'[x], {Deleted(r)})
    BY <1>15 DEF Single, Undeleted, Free
  <2> QED
    BY <1>11, <2>1, <2>2, <2>3 DEF Listens
<1>17. Phases(r)'
  <2>1. a.type \in Kinds /\ maxChunk[x] \in 1 .. MaxChunk /\ MaxChunk \in Nat
    BY <1>1, SelectionsAssumption DEF Activities, Types
  <2>2. Length[a.type] \in Nat
    BY <2>1, ContentsTypes
  <2>3. a.left <= Length[a.type] /\ a.chunk >= 1
    BY <2>1, <2>2
  <2>4. Phase(x, r)'
    BY <1>5, <1>15, <2>3 DEF Phase
  <2> QED
    BY <1>11, <2>4 DEF Phases
<1>18. Mine(r)'
  <2> SUFFICES ASSUME act[r].pc \in Asking
               PROVE  Mine(r)'
    BY <1>11 DEF Mine
  <2>1. /\ ~ act'[r].ok /\ act'[r].pc \notin {"discard", "fetch"}
        /\ act'[r].pc \in {"asked", "discard", "fetch", "sender"} => act'[r].data = <<>>
    BY <1>2, <1>11 DEF Mine, Taking
  <2>2. \A q \in Programs : Sender(q, r)' =>
          q = asked'[r] /\ act'[q].sel = act'[r].sel /\ act'[q].type = act'[r].type
    BY <1>2, <1>3, <1>5, <1>11
  <2> QED
    BY <1>12, <1>13, <2>1, <2>2 DEF Mine, Free
<1>19. Transfer(r)'
  BY <1>1, <1>2, <1>11, TransferAside
<1> QED
  BY <1>6, <1>7, <1>8, <1>10, <1>14, <1>16, <1>17, <1>18, <1>19 DEF Inv, Turn

\* What x does with the first event: a is what it begins for r.
Accepts(x, r, a) ==
    /\ queue' = [queue EXCEPT ![x] = Tail(@)] /\ act' = [act EXCEPT ![x] = a]
    /\ a \in Activities /\ a.pc \in {"whole", "announce"} /\ a.peer = r
    /\ a.sel = Head(queue[x]).sel /\ a.type = Head(queue[x]).type
    /\ a.left = Length[a.type] /\ a.chunk = maxChunk[x] /\ a.failed = FALSE
    /\ a.pc = "announce" => ~ (Length[a.type] <= maxChunk[x])

\* x ignores the first event, refuses the request in it, or begins to send.
LEMMA DispatchTakes ==
    ASSUME Inv, NEW x \in Programs, Dispatch(x)
    PROVE  /\ act[x].pc = "idle" /\ queue[x] # <<>>
           /\ UNCHANGED <<owner, prop, selected, maxChunk, alive, asked, faults>>
           /\ \/ queue' = [queue EXCEPT ![x] = Tail(@)] /\ UNCHANGED <<act, excused>>
              \/ /\ Head(queue[x]).is = "SelectionRequest" /\ Head(queue[x]).from \in Programs
                 /\ \/ Refuses(x, Head(queue[x]).from) /\ UNCHANGED act
                    \/ \E a : Accepts(x, Head(queue[x]).from, a) /\ UNCHANGED excused
<1> DEFINE e == Head(queue[x])
           r == e.from
           rest == [queue EXCEPT ![x] = Tail(@)]
           a == [Idle EXCEPT !.pc = IF Length[e.type] <= maxChunk[x] THEN "whole" ELSE "announce",
                             !.peer = r, !.sel = e.sel, !.type = e.type,
                             !.left = Length[e.type], !.chunk = maxChunk[x]]
<1>1. /\ Types /\ queue \in Queues /\ queue[x] \in Seq(Events)
  BY InvParts DEF Queues
<1>2. /\ act[x].pc = "idle" /\ queue[x] # <<>>
      /\ UNCHANGED <<owner, prop, selected, maxChunk, alive, asked, faults>>
      /\ \/ queue' = rest /\ UNCHANGED <<act, excused>>
         \/ /\ e.is = "SelectionRequest"
            /\ queue' = Post(rest, {r}, SelectionNotify(e.sel, e.type, FALSE))
            /\ excused' = [excused EXCEPT ![r] = TRUE]
            /\ UNCHANGED act
         \/ /\ e.is = "SelectionRequest"
            /\ queue' = rest /\ act' = [act EXCEPT ![x] = a] /\ UNCHANGED excused
  BY DEF Dispatch, server
<1>3. e.is = "SelectionRequest" => r \in Programs /\ e.sel \in Sels /\ e.type \in Kinds
  <2>1. e \in Events
    BY <1>1, <1>2, TailRemoves
  <2> HIDE DEF e
  <2> QED
    BY <2>1, EventKinds
<1>4. CASE queue' = rest /\ UNCHANGED <<act, excused>>
  BY <1>2, <1>4
<1>5. CASE /\ e.is = "SelectionRequest"
           /\ queue' = Post(rest, {r}, SelectionNotify(e.sel, e.type, FALSE))
           /\ excused' = [excused EXCEPT ![r] = TRUE]
           /\ UNCHANGED act
  BY <1>2, <1>3, <1>5 DEF Refuses
<1>6. CASE /\ e.is = "SelectionRequest"
           /\ queue' = rest /\ act' = [act EXCEPT ![x] = a] /\ UNCHANGED excused
  <2> DEFINE pc == IF Length[e.type] <= maxChunk[x] THEN "whole" ELSE "announce"
             len == Length[e.type]
  <2>1. r \in Programs /\ e.sel \in Sels /\ e.type \in Kinds
    BY <1>3, <1>6
  <2>2. len \in Nat /\ maxChunk[x] \in 0 .. MaxChunk
    <3>1. maxChunk[x] \in 1 .. MaxChunk /\ MaxChunk \in Nat
      BY <1>1, SelectionsAssumption DEF Types
    <3> HIDE DEF e
    <3> QED
      BY <2>1, <3>1, ContentsTypes
  <2>3. pc \in {"whole", "announce"} /\ (pc = "announce" => ~ (len <= maxChunk[x]))
    OBVIOUS
  <2>4. a = [Idle EXCEPT !.pc = pc, !.peer = r, !.sel = e.sel, !.type = e.type,
                         !.left = len, !.chunk = maxChunk[x]]
    BY Zenon DEF pc, len
  <2>5. /\ a \in Activities /\ a.pc = pc /\ a.peer = r /\ a.sel = e.sel /\ a.type = e.type
        /\ a.left = len /\ a.chunk = maxChunk[x] /\ a.failed = FALSE
    <3> HIDE DEF e, pc, len, a
    <3>1. pc \in Sending
      BY <2>3 DEF Sending
    <3>2. Idle \in Activities /\ Idle.failed = FALSE
      BY IdleTypes DEF Idle
    <3> QED
      BY <2>1, <2>2, <2>4, <3>1, <3>2 DEF Activities
  <2> HIDE DEF pc, a
  <2>6. Accepts(x, r, a)
    BY <1>6, <2>3, <2>5 DEF Accepts
  <2> QED
    BY <1>2, <1>6, <2>1, <2>6
<1> QED
  BY <1>2, <1>4, <1>5, <1>6

\* x takes the first event in its event loop.
LEMMA DispatchStep ==
    ASSUME Inv, NEW x \in Programs, Dispatch(x)
    PROVE  Inv'
<1>1. /\ act[x].pc = "idle" /\ queue[x] # <<>>
      /\ UNCHANGED <<owner, prop, selected, maxChunk, alive, asked, faults>>
  BY DispatchTakes
<1>2. CASE queue' = [queue EXCEPT ![x] = Tail(@)] /\ UNCHANGED <<act, excused>>
  BY <1>1, <1>2, IgnoreStep
<1>3. ASSUME NEW r \in Programs, r = Head(queue[x]).from,
             Head(queue[x]).is = "SelectionRequest", Refuses(x, r), UNCHANGED act
      PROVE  Inv'
  BY <1>1, <1>3, RefuseStep
<1>4. ASSUME NEW r \in Programs, r = Head(queue[x]).from,
             Head(queue[x]).is = "SelectionRequest", NEW a, Accepts(x, r, a), UNCHANGED excused
      PROVE  Inv'
  <2>1. /\ queue' = [queue EXCEPT ![x] = Tail(@)] /\ act' = [act EXCEPT ![x] = a]
        /\ a \in Activities /\ a.pc \in {"whole", "announce"} /\ a.peer = r
        /\ a.sel = Head(queue[x]).sel /\ a.type = Head(queue[x]).type
        /\ a.left = Length[a.type] /\ a.chunk = maxChunk[x] /\ a.failed = FALSE
        /\ UNCHANGED <<owner, prop, selected, maxChunk, alive, asked, excused, faults>>
    BY <1>1, <1>4 DEF Accepts
  <2> QED
    BY <1>1, <1>4, <2>1, AcceptStep
<1> QED
  BY <1>2, <1>3, <1>4, DispatchTakes

-----------------------------------------------------------------------------
(* The end of a program, the beginning, and what follows from the          *)
(* invariant.                                                              *)

\* x ends.
LEMMA DieStep ==
    ASSUME Inv, NEW x \in Programs, Die(x)
    PROVE  Inv'
<1> DEFINE to == {q \in Programs : "structure" \in selected[q][x]}
           new == {Destroyed(x)}
           q1 == Post(queue, to, Destroyed(x))
<1>1. /\ Types /\ Graves /\ Peers /\ queue \in Queues
      /\ \A p \in Programs : Turn(p) /\ Transfer(p)
  BY InvParts
<1>2. /\ alive[x] /\ faults' = [faults EXCEPT !.deaths = @ + 1]
      /\ alive' = [alive EXCEPT ![x] = FALSE]
      /\ queue' = [q1 EXCEPT ![x] = <<>>]
      /\ prop' = [prop EXCEPT ![x] = NoProperty]
      /\ act' = [act EXCEPT ![x] = Idle]
      /\ asked' = [asked EXCEPT ![x] = None]
      /\ maxChunk' = maxChunk
      /\ excused' \in [Programs -> BOOLEAN]
  BY DEF Die
<1>3. /\ owner' = [s \in Selections |-> IF owner[s] = x THEN None ELSE owner[s]]
      /\ selected' = [q \in Programs |-> [r \in Programs |->
                         IF x \in {q, r} THEN {} ELSE selected[q][r]]]
  BY DEF Die
<1> HIDE DEF to
<1>4. /\ q1 \in Queues
      /\ \A q \in Programs :
            /\ From(q1[q], queue[q], IF q \in to /\ alive[q] THEN new ELSE {})
            /\ ~ (q \in to /\ alive[q]) => q1[q] = queue[q]
  <2>1. Destroyed(x) \in Events
    BY EventKinds
  <2> QED
    BY <1>1, <2>1, PostSends
<1>5. /\ \A p \in Programs : Quiet(p, to, new)
      /\ \A w \in Programs : w # x => new \cap {Destroyed(w)} = {}
      /\ \A w \in Programs : new \cap Requests(w) = {}
      /\ new \cap Notices = {} /\ \A w \in Programs : new \cap {Deleted(w)} = {}
  BY Apart DEF Quiet
<1> HIDE DEF q1, new
<1>6. /\ queue' \in Queues /\ Sends(to, new)
      /\ queue'[x] = <<>>
      /\ \A q \in Programs : ~ alive[q] /\ q # x => queue'[q] = queue[q]
  <2>1. \A E : From(<<>>, queue[x], E)
    <3>1. queue[x] \in Seq(Events)
      BY <1>1 DEF Queues
    <3> QED
      BY <3>1, FromEmpty
  <2> QED
    BY <1>2, <1>4, <2>1 DEF Queues, Sends
<1>7. /\ act' \in [Programs -> Activities] /\ act'[x] = Idle
      /\ \A q \in Programs : q # x => act'[q] = act[q]
  <2>1. Idle \in Activities /\ act \in [Programs -> Activities]
    BY <1>1, IdleTypes DEF Types
  <2> QED
    BY <1>2, <2>1, PutTypes
<1>8. /\ prop' \in [Programs -> Properties] /\ prop'[x] = NoProperty
      /\ \A p \in Programs : p # x => prop'[p] = prop[p]
      /\ alive' \in [Programs -> BOOLEAN] /\ ~ alive'[x]
      /\ \A p \in Programs : p # x => alive'[p] = alive[p]
      /\ asked' \in [Programs -> Programs \cup {None}]
      /\ \A p \in Programs : p # x => asked'[p] = asked[p]
  <2>1. NoProperty \in Properties
    BY DEF NoProperty, Properties
  <2> QED
    BY <1>1, <1>2, <2>1 DEF Types
<1>9. /\ owner' \in [Selections -> Programs \cup {None}]
      /\ \A s \in Selections : owner'[s] # x /\ (owner'[s] = owner[s] \/ owner'[s] = None)
      /\ None # x
  <2>1. None \notin Programs
    BY SelectionsAssumption
  <2> QED
    BY <1>1, <1>3, <2>1 DEF Types
<1>10. /\ selected' \in [Programs -> [Programs -> SUBSET {"property", "structure"}]]
       /\ \A q, p \in Programs : selected'[q][p] = IF x \in {q, p} THEN {} ELSE selected[q][p]
  BY <1>1, <1>3 DEF Types
<1>11. Types'
  <2>1. faults' \in [deaths : Nat, allocErrors : Nat]
    BY <1>1, <1>2, FaultTypes
  <2> QED
    BY <1>1, <1>2, <1>6, <1>7, <1>8, <1>9, <1>10, <2>1 DEF Types, Queues
<1>12. Graves'
  <2>1. \A s \in Selections : owner'[s] # None => alive'[owner'[s]]
    BY <1>1, <1>8, <1>9 DEF Graves, Types
  <2>2. ASSUME NEW p \in Programs, NEW w \in Programs, alive'[w]
        PROVE  Free(queue'[p], {Destroyed(w)})
    <3>1. w # x /\ Free(queue[p], {Destroyed(w)}) /\ new \cap {Destroyed(w)} = {}
      BY <1>1, <1>5, <1>8, <2>2 DEF Graves
    <3> QED
      BY <1>1, <1>6, <3>1, QueueKept
  <2>3. ASSUME NEW p \in Programs, ~ alive'[p]
        PROVE  /\ act'[p] = Idle /\ queue'[p] = <<>> /\ prop'[p] = NoProperty
               /\ \A q \in Programs : selected'[q][p] = {}
    <3>1. CASE p = x
      BY <1>6, <1>7, <1>8, <1>10, <3>1
    <3>2. CASE p # x
      BY <1>1, <1>6, <1>7, <1>8, <1>10, <2>3, <3>2 DEF Graves
    <3> QED
      BY <3>1, <3>2
  <2> QED
    BY <2>1, <2>2, <2>3 DEF Graves
<1>13. Peers'
  <2>1. ASSUME NEW p \in Programs
        PROVE  /\ act'[p].pc \in Sending \cup {"finish"} \cup Watching =>
                     act'[p].peer \in Programs \ {p}
               /\ act'[p].pc \in Asking =>
                     act'[p].sel \in Selections /\ owner'[act'[p].sel] # p
    <3>1. CASE p = x
      BY <1>7, <3>1, IdleTypes DEF Asking, Sending, Watching
    <3>2. CASE p # x
      <4>1. act'[p] = act[p]
        BY <1>7, <3>2
      <4>2. \A s \in Selections : owner[s] # p => owner'[s] # p
        BY <1>9, SelectionsAssumption
      <4> QED
        BY <1>1, <4>1, <4>2 DEF Peers
    <3> QED
      BY <3>1, <3>2
  <2> QED
    BY <2>1 DEF Peers
<1>14. /\ \A q, p \in Programs : Sender(q, p)' => q # x /\ Sender(q, p) /\ act'[q] = act[q]
       /\ \A q, p \in Programs : "property" \in selected'[q][p] =>
             q # x /\ p # x /\ "property" \in selected[q][p] /\ act'[q] = act[q]
       /\ act'[x].pc = "idle"
  BY <1>7, <1>10, IdleTypes DEF Sender, Sending
<1>15. ASSUME NEW p \in Programs, p # x
       PROVE  Turn(p)' /\ Transfer(p)'
  <2>1. Calm(p)
    BY <1>7, <1>8, <1>14, <1>15 DEF Calm
  <2> QED
    BY <1>1, <1>5, <1>6, <2>1, CalmKeeps
<1>16. Lone(x)'
  <2>1. \A q \in Programs : Sender(q, x)' =>
            Sender(q, x) /\ (act'[q].pc \in Early => act[q].pc \in Early)
    BY <1>14
  <2>2. act'[x].pc \in Taking => act[x].pc \in Taking
    BY <1>14 DEF Taking
  <2>3. Lone(x)
    BY <1>1 DEF Turn
  <2> QED
    BY <1>1, <1>5, <1>6, <2>1, <2>2, <2>3, LoneKept
<1>17. Listens(x)'
  <2>1. \A q \in Programs : Sender(q, x)' => Sender(q, x)
    BY <1>14
  <2>2. \A q \in Programs : "property" \in selected'[q][x] =>
            "property" \in selected[q][x] /\ act'[q].peer = x /\ act'[q].pc \in Heard
    BY <1>14
  <2>3. Listens(x)
    BY <1>1 DEF Turn
  <2> QED
    BY <1>1, <1>5, <1>6, <2>1, <2>2, <2>3, ListensKept
<1>18. Phases(x)'
  <2> SUFFICES ASSUME NEW q \in Programs, Sender(q, x)'
               PROVE  Phase(q, x)'
    BY DEF Phases
  <2>1. act'[q] = act[q] /\ Phase(q, x)
    BY <1>1, <1>14 DEF Turn, Phases
  <2>2. Undeleted(q, x) => Undeleted(q, x)'
    <3>1. new \cap {Deleted(x)} = {}
      BY <1>5
    <3>2. Free(queue[q], {Deleted(x)}) => Free(queue'[q], {Deleted(x)})
      BY <1>1, <1>6, <3>1, QueueKept
    <3> QED
      BY <3>2 DEF Undeleted
  <2> QED
    BY <1>8, <2>1, <2>2 DEF Phase
<1>19. Mine(x)' /\ Transfer(x)'
  BY <1>14 DEF Mine, Transfer, Partly, Answers, News, InChunks, Asking, Ending
<1> QED
  BY <1>11, <1>12, <1>13, <1>15, <1>16, <1>17, <1>18, <1>19 DEF Inv, Turn

\* The invariant holds at the start.
LEMMA InvInit ==
    ASSUME Init
    PROVE  Inv
<1>1. /\ owner = [s \in Selections |-> None]
      /\ prop = [p \in Programs |-> NoProperty]
      /\ selected = [p \in Programs |-> [q \in Programs |-> {}]]
      /\ queue = [p \in Programs |-> <<>>]
      /\ act = [p \in Programs |-> Idle]
      /\ maxChunk = [p \in Programs |-> MaxChunk]
      /\ alive = [p \in Programs |-> TRUE]
      /\ asked = [p \in Programs |-> None]
      /\ excused = [p \in Programs |-> FALSE]
      /\ faults = [deaths |-> 0, allocErrors |-> 0]
  BY DEF Init
<1>2. /\ Idle \in Activities /\ Idle.pc = "idle" /\ Idle.peer = None
      /\ NoProperty \in Properties
      /\ <<>> \in Seq(Events) /\ DOMAIN <<>> = {}
      /\ MaxChunk \in 1 .. MaxChunk
  <2>1. MaxChunk \in Nat /\ MaxChunk # 0
    BY SelectionsAssumption
  <2>2. MaxChunk \in 1 .. MaxChunk
    BY <2>1
  <2>3. NoProperty \in Properties
    BY DEF NoProperty, Properties
  <2>4. <<>> \in Seq(Events) /\ DOMAIN <<>> = {}
    OBVIOUS
  <2> QED
    BY <2>2, <2>3, <2>4, IdleTypes
<1>3. Types
  BY <1>1, <1>2 DEF Types
<1>4. Graves /\ Peers
  BY <1>1, <1>2 DEF Graves, Peers, Free, Sending, Watching, Asking
<1>5. ASSUME NEW p \in Programs
      PROVE  Turn(p) /\ Transfer(p)
  <2>1. \A q \in Programs : queue[q] = <<>> /\ act[q].pc = "idle" /\ selected[q][p] = {}
    BY <1>1, <1>2
  <2>2. \A q \in Programs : \A E : Free(queue[q], E) /\ Single(queue[q], E)
                              /\ \A F : Behind(queue[q], E, F)
    BY <1>2, <2>1 DEF Free, Single, Behind
  <2>3. \A q, r \in Programs : ~ Sender(q, r)
    BY <1>1, <1>2 DEF Sender, Sending
  <2>4. Lone(p)
    BY <2>1, <2>2, <2>3 DEF Lone, Taking
  <2>5. Listens(p)
    BY <2>1, <2>2, <2>3 DEF Listens
  <2>6. Phases(p) /\ Mine(p) /\ Transfer(p)
    BY <2>1, <2>3 DEF Phases, Mine, Transfer, Partly, Answers, News, Asking, InChunks, Ending
  <2> QED
    BY <2>4, <2>5, <2>6 DEF Turn
<1> QED
  BY <1>3, <1>4, <1>5 DEF Inv

\* It holds while nothing happens.
LEMMA InvStutter ==
    ASSUME Inv, UNCHANGED vars
    PROVE  Inv'
<1>1. /\ Types /\ Graves /\ Peers /\ queue \in Queues
      /\ \A p \in Programs : Turn(p) /\ Transfer(p)
  BY InvParts
<1>2. UNCHANGED <<owner, prop, selected, queue, act, maxChunk, alive, asked, excused, faults>>
  BY DEF vars, server, history
<1>3. queue' \in Queues /\ Sends({}, {})
  BY <1>1, <1>2, UnchangedSends
<1>4. Types' /\ Graves' /\ Peers'
  BY <1>1, <1>2 DEF Types, Graves, Peers
<1>5. \A p \in Programs : Calm(p) /\ Quiet(p, {}, {})
  BY <1>2 DEF Calm, Quiet, Sender
<1>6. \A p \in Programs : Turn(p)' /\ Transfer(p)'
  BY <1>1, <1>3, <1>5, CalmKeeps
<1> QED
  BY <1>4, <1>6 DEF Inv

\* Every step keeps it.
LEMMA InvNext ==
    ASSUME ~ Overlaps, Inv, [Next]_vars
    PROVE  Inv'
<1>1. CASE UNCHANGED vars
  BY <1>1, InvStutter
<1>2. ASSUME NEW x \in Askers, NEW s \in Selections, NEW t \in DOMAIN Length, Request(x, s, t)
      PROVE  Inv'
  <2>1. x \in Programs /\ t \in Kinds
    BY SelectionsAssumption DEF Kinds
  <2> QED
    BY <1>2, <2>1, RequestStep DEF Kinds
<1>3. ASSUME NEW x \in Owners, NEW s \in Selections, BecomeOwner(x, s)
      PROVE  Inv'
  <2>1. x \in Programs
    BY SelectionsAssumption
  <2> QED
    BY <1>3, <2>1, BecomeOwnerStep
<1>4. ASSUME NEW x \in Programs, Ask(x)
      PROVE  Inv'
  BY <1>4, NotifiedStep, DiscardStep, FetchStep, FindSenderStep, SelectSenderStep, SenderGoneStep,
     ChunkThereStep, ReadChunkStep, UnselectStep, ReturnStep DEF Ask
<1>5. ASSUME NEW x \in Programs, Answer(x)
      PROVE  Inv'
  BY <1>5, SendWholeStep, SendNotifyStep, AnnounceStep, WaitStep, SendChunkStep, SendEndStep,
     FinishStep DEF Answer
<1>6. ASSUME NEW x \in Programs, Dispatch(x) \/ GiveUp(x) \/ Die(x)
      PROVE  Inv'
  BY <1>6, DispatchStep, GiveUpAskingStep, FinishStep, DieStep DEF GiveUp
<1> QED
  BY <1>1, <1>2, <1>3, <1>4, <1>5, <1>6 DEF Next

\* As long as nobody asks while an earlier request is answered, the request of each program is
\* in one place, and what it has received, what is in its property, and what is still to be
\* sent are together what it asked for.
THEOREM Invariance == ~ Overlaps => (Spec => []Inv)
<1> SUFFICES ASSUME ~ Overlaps
             PROVE  Spec => []Inv
  OBVIOUS
<1>1. Init => Inv
  BY InvInit
<1>2. Inv /\ [Next]_vars => Inv'
  BY InvNext
<1> QED
  BY <1>1, <1>2, PTL DEF Spec

\* The queues, properties and activities of all programs keep their types; a program that
\* sends or receives in chunks has another one on the other side.
THEOREM TypesCorrect == ~ Overlaps => (Spec => []TypeOK)
<1> SUFFICES ASSUME ~ Overlaps
             PROVE  Spec => []TypeOK
  OBVIOUS
<1>1. Inv => TypeOK
  BY DEF Inv, Types, Graves, Peers, TypeOK, Activities, Properties, Sending, Watching, Asking, Ending
<1> QED
  BY <1>1, Invariance, PTL

\* GetData and GetAvailableTypes of JXSelectionManager return all the data of the program
\* that was asked or none, for any number of programs, data of any length, any chunks,
\* deaths, time-outs and lack of memory.
THEOREM AllOrNothing == ~ Overlaps => (Spec => []WholeOrNothing)
<1> SUFFICES ASSUME ~ Overlaps
             PROVE  Spec => []WholeOrNothing
  OBVIOUS
<1>1. Inv => WholeOrNothing
  BY DEF Inv, Transfer, Answers, Ending, WholeOrNothing
<1> QED
  BY <1>1, Invariance, PTL

-----------------------------------------------------------------------------
(* No request fails without a reason.                                      *)

\* Nothing p is told is new.
Untold(p) ==
    \A k \in DOMAIN queue'[p] : queue'[p][k] \in Notices =>
        \E j \in DOMAIN queue[p] : queue[p][j] = queue'[p][k]

\* Nobody is told anything if no notice is sent.
LEMMA SendsUntold ==
    ASSUME queue \in Queues, queue' \in Queues, NEW to, NEW E, Sends(to, E), E \cap Notices = {}
    PROVE  \A p \in Programs : Untold(p)
<1> SUFFICES ASSUME NEW p \in Programs
             PROVE  Untold(p)
  OBVIOUS
<1> QED
  BY FoundKept DEF Untold

\* Nor if no queue changes.
LEMMA SameUntold ==
    ASSUME queue' = queue
    PROVE  \A p \in Programs : Untold(p)
BY DEF Untold

\* Nor if an event is taken.
LEMMA TakenUntold ==
    ASSUME Inv, NEW x \in Programs, NEW k \in DOMAIN queue[x],
           queue' = [queue EXCEPT ![x] = RemoveAt(@, k)]
    PROVE  \A p \in Programs : Untold(p)
<1>1. queue \in Queues
  BY InvParts
<1>2. queue' \in Queues /\ Sends({}, {})
  BY <1>1, RemovedSends
<1>3. {} \cap Notices = {}
  OBVIOUS
<1> QED
  BY <1>1, <1>2, <1>3, SendsUntold

\* x goes on with its own request.
AskerMove(x) ==
    /\ act'[x].pc \in Asking \cup Ending
    /\ act'[x].pc \in Asking =>
         act[x].pc \in Asking /\ act'[x].sel = act[x].sel /\ act'[x].type = act[x].type
    /\ \A p \in Programs : Untold(p)
    /\ \A p \in Programs : p # x => act'[p] = act[p] /\ prop'[p] = prop[p]
    /\ prop'[x].kind = "INCR" => prop[x].kind = "INCR"
    /\ UNCHANGED <<owner, alive>>

\* No reason is needed after a step of x with its own request that does not end it, or only
\* with the data.
LEMMA AskerReasons ==
    ASSUME NEW x \in Programs, Reasons, AskerMove(x), excused' = excused,
           act'[x].pc \in Ending => act'[x].ok \/ excused[x],
           act'[x].pc \in Asking /\ ~ excused[x] => Ready(x)'
    PROVE  Reasons'
<1> SUFFICES ASSUME NEW p \in Programs
             PROVE  Excuses(p)'
  BY DEF Reasons
<1>1. Excuses(p)
  BY DEF Reasons
<1>2. \A q \in Programs : Sender(q, p)' => Sender(q, p) /\ act'[q] = act[q]
  BY DEF AskerMove, Sender, Sending, Asking, Ending
<1>3. Fits(p) => Fits(p)'
  BY <1>2 DEF Fits
<1>4. Untold(p)
  BY DEF AskerMove
<1>5. CASE p = x
  <2>1. Granted(x) /\ act'[x].pc \in Asking => Granted(x)'
    BY <1>4, <1>5 DEF Granted, Untold, AskerMove
  <2> QED
    BY <1>1, <1>3, <1>5, <2>1 DEF Excuses, AskerMove
<1>6. CASE p # x
  <2>1. act'[p] = act[p] /\ prop'[p] = prop[p] /\ UNCHANGED <<owner, alive>>
    BY <1>6 DEF AskerMove
  <2>2. Granted(p) => Granted(p)'
    BY <1>4, <2>1 DEF Granted, Untold
  <2>3. Ready(p) => Ready(p)'
    BY <2>1 DEF Ready
  <2> QED
    BY <1>1, <1>3, <2>1, <2>2, <2>3 DEF Excuses
<1> QED
  BY <1>5, <1>6

\* Refused, x had a reason to be; and only what is large was announced.
LEMMA NotifiedReasons ==
    ASSUME Inv, Reasons, NEW x \in Programs, Notified(x)
    PROVE  Reasons'
<1>1. /\ Types /\ queue \in Queues /\ act[x] \in Activities
      /\ \A p \in Programs : Turn(p) /\ Transfer(p)
  BY InvParts DEF Types
<1>2. PICK k \in DOMAIN queue[x] :
        /\ queue[x][k] \in Notices
        /\ queue' = [queue EXCEPT ![x] = RemoveAt(@, k)]
        /\ act' = [act EXCEPT ![x].pc =
              IF ~ (queue[x][k].ok /\ queue[x][k].sel = act[x].sel /\ queue[x][k].type = act[x].type)
              THEN "return" ELSE IF queue[x][k].type = TypeList THEN "fetch" ELSE "discard"]
  BY NotifiedTakes
<1>3. /\ act[x].pc = "asked" /\ act[x].pc \in Asking
      /\ UNCHANGED <<owner, prop, alive, excused>>
  BY DEF Notified, server, history, Asking
<1>4. /\ act'[x].pc \in {"return", "fetch", "discard"}
      /\ act'[x].pc = "return" =>
           ~ (queue[x][k].ok /\ queue[x][k].sel = act[x].sel /\ queue[x][k].type = act[x].type)
      /\ act'[x].sel = act[x].sel /\ act'[x].type = act[x].type
      /\ \A p \in Programs : p # x => act'[p] = act[p]
  BY <1>1, <1>2 DEF Types, Activities
<1>5. queue[x][k].sel = act[x].sel /\ queue[x][k].type = act[x].type
  BY <1>1, <1>2, <1>3 DEF Turn, Mine
<1>6. ~ excused[x] => queue[x][k].ok /\ (prop[x].kind = "INCR" => Large(act[x].type))
  BY <1>2, <1>3 DEF Reasons, Excuses, Granted
<1>7. AskerMove(x)
  <2>1. \A p \in Programs : Untold(p)
    BY <1>2, TakenUntold
  <2> QED
    BY <1>3, <1>4, <2>1 DEF AskerMove, Asking, Ending
<1>8. act'[x].pc \in Ending => act'[x].ok \/ excused[x]
  BY <1>4, <1>5, <1>6 DEF Ending
<1>9. act'[x].pc \in Asking /\ ~ excused[x] => Ready(x)'
  BY <1>3, <1>4, <1>6 DEF Ready, InChunks, Asking
<1> QED
  BY <1>3, <1>7, <1>8, <1>9, AskerReasons

\* To throw events away is no failure.
LEMMA DiscardReasons ==
    ASSUME Inv, Reasons, NEW x \in Programs, Discard(x)
    PROVE  Reasons'
<1>1. /\ Types /\ queue \in Queues /\ act[x] \in Activities
  BY InvParts DEF Types
<1>2. /\ act[x].pc = "discard" /\ act[x].pc \in Asking
      /\ UNCHANGED <<owner, prop, alive, excused>>
  BY DEF Discard, server, history, Asking
<1>3. /\ act'[x].pc \in {"discard", "fetch"}
      /\ act'[x].sel = act[x].sel /\ act'[x].type = act[x].type
      /\ \A p \in Programs : p # x => act'[p] = act[p]
  <2>1. act' = act \/ act' = [act EXCEPT ![x].pc = "fetch"]
    BY DiscardTakes
  <2> QED
    BY <1>1, <1>2, <2>1 DEF Types, Activities
<1>4. \A p \in Programs : Untold(p)
  BY DiscardTakes, SameUntold, TakenUntold
<1>5. AskerMove(x)
  BY <1>2, <1>3, <1>4 DEF AskerMove, Asking
<1>6. act'[x].pc \notin Ending
  BY <1>3 DEF Ending
<1>7. act'[x].pc \in Asking /\ ~ excused[x] => Ready(x)'
  BY <1>2, <1>3 DEF Reasons, Excuses, Ready, InChunks
<1> QED
  BY <1>2, <1>5, <1>6, <1>7, AskerReasons

\* A program that takes the value of its property is not told of that.
LEMMA DeletedUntold ==
    ASSUME Inv, NEW x \in Programs, DeleteProperty(x)
    PROVE  /\ \A p \in Programs : Untold(p)
           /\ \A p \in Programs : p # x => prop'[p] = prop[p]
           /\ prop'[x] = NoProperty
<1>1. queue \in Queues /\ prop \in [Programs -> Properties]
  BY InvParts DEF Types
<1> DEFINE to == {q \in Programs : "property" \in selected[q][x]}
<1>2. /\ queue' \in Queues /\ Sends(to, {Deleted(x)})
      /\ \A p \in Programs : p # x => prop'[p] = prop[p]
      /\ prop'[x] = NoProperty
  BY <1>1, DeletedSends
<1> HIDE DEF to
<1>3. {Deleted(x)} \cap Notices = {}
  BY Apart
<1> QED
  BY <1>1, <1>2, <1>3, SendsUntold

\* x finds the data, or the announcement of something large.
LEMMA FetchReasons ==
    ASSUME Inv, Reasons, NEW x \in Programs, Fetch(x)
    PROVE  Reasons'
<1> DEFINE mismatch == prop[x].kind = "INCR" /\ act[x].type = TypeList
<1>1. /\ Types /\ queue \in Queues /\ act[x] \in Activities /\ Turn(x)
  BY InvParts DEF Types
<1>2. /\ act[x].pc = "fetch" /\ act[x].pc \in Asking
      /\ IF mismatch THEN UNCHANGED <<prop, queue>> ELSE DeleteProperty(x)
      /\ UNCHANGED <<owner, alive, excused>>
  BY DEF Fetch, history, Asking
<1>3. /\ act'[x].pc \in {"return", "sender"}
      /\ act'[x].sel = act[x].sel /\ act'[x].type = act[x].type
      /\ act'[x].pc = "return" => \/ act'[x].ok \/ mismatch
                                  \/ prop[x].kind \notin {"INCR", "data"}
      /\ act'[x].pc = "sender" => prop[x].kind = "INCR"
      /\ \A p \in Programs : p # x => act'[p] = act[p]
  BY <1>1 DEF Fetch, Go, Types, Activities
<1>4. prop[x].kind \in {"INCR", "data"}
  <2>1. Offered(x)
    BY <1>1, <1>2 DEF Turn, Mine
  <2> QED
    BY <2>1 DEF Offered, Incr, Data
<1>5. ~ excused[x] => Ready(x)
  BY <1>2 DEF Reasons, Excuses
<1>6. AskerMove(x)
  <2>1. CASE mismatch
    <3>1. \A p \in Programs : Untold(p)
      BY <1>2, <2>1, SameUntold
    <3> QED
      BY <1>2, <1>3, <2>1, <3>1 DEF AskerMove, Asking, Ending
  <2>2. CASE ~ mismatch
    <3>1. /\ \A p \in Programs : Untold(p)
          /\ \A p \in Programs : p # x => prop'[p] = prop[p]
          /\ prop'[x].kind # "INCR"
      BY <1>2, <2>2, DeletedUntold DEF NoProperty
    <3> QED
      BY <1>2, <1>3, <3>1 DEF AskerMove, Asking, Ending
  <2> QED
    BY <2>1, <2>2
<1>7. act'[x].pc \in Ending => act'[x].ok \/ excused[x]
  BY <1>2, <1>3, <1>4, <1>5 DEF Ready, Large, Ending
<1>8. act'[x].pc \in Asking /\ ~ excused[x] => Ready(x)'
  BY <1>2, <1>3, <1>5 DEF Ready, Asking
<1> QED
  BY <1>2, <1>6, <1>7, <1>8, AskerReasons

\* Some program owns the selection, as its end would be a reason to fail.
LEMMA FindSenderReasons ==
    ASSUME Inv, Reasons, NEW x \in Programs, FindSender(x)
    PROVE  Reasons'
<1>1. Types /\ Graves /\ Peers /\ act[x] \in Activities
  BY InvParts DEF Types
<1>2. /\ act[x].pc = "sender" /\ act[x].pc \in Asking
      /\ act' = IF owner[act[x].sel] = None THEN [act EXCEPT ![x].pc = "return"]
                ELSE [act EXCEPT ![x].pc = "select", ![x].peer = owner[act[x].sel]]
      /\ UNCHANGED <<owner, prop, queue, alive, excused>>
  BY DEF FindSender, server, history, Asking
<1>3. /\ act'[x].pc = IF owner[act[x].sel] = None THEN "return" ELSE "select"
      /\ act'[x].pc = "select" => act'[x].peer = owner[act[x].sel]
      /\ act'[x].sel = act[x].sel /\ act'[x].type = act[x].type
      /\ \A p \in Programs : p # x => act'[p] = act[p]
  BY <1>1, <1>2 DEF Types, Activities
<1>4. owner[act[x].sel] # None => alive[owner[act[x].sel]]
  BY <1>1, <1>2 DEF Graves, Peers
<1>5. ~ excused[x] => owner[act[x].sel] # None /\ Ready(x)
  BY <1>2 DEF Reasons, Excuses
<1>6. AskerMove(x)
  BY <1>2, <1>3, SameUntold DEF AskerMove, Asking, Ending
<1>7. act'[x].pc \in Ending => act'[x].ok \/ excused[x]
  BY <1>3, <1>5 DEF Ending
<1>8. act'[x].pc \in Asking /\ ~ excused[x] => Ready(x)'
  BY <1>2, <1>3, <1>4, <1>5 DEF Ready, InChunks, Asking
<1> QED
  BY <1>2, <1>6, <1>7, <1>8, AskerReasons

\* Steps of x from one wait to another.
LEMMA OnReasons ==
    ASSUME Inv, Reasons, NEW x \in Programs,
           act[x].pc \in Asking, NEW pc \in {"receive", "read"}, act' = [act EXCEPT ![x].pc = pc],
           act[x].pc \in {"select", "receive"},
           \A p \in Programs : Untold(p),
           UNCHANGED <<owner, prop, alive, excused>>
    PROVE  Reasons'
<1>1. Types /\ act[x] \in Activities
  BY InvParts DEF Types
<1>2. /\ act'[x].pc = pc
      /\ act'[x].sel = act[x].sel /\ act'[x].type = act[x].type /\ act'[x].peer = act[x].peer
      /\ \A p \in Programs : p # x => act'[p] = act[p]
  BY <1>1 DEF Types, Activities
<1>3. AskerMove(x)
  BY <1>2 DEF AskerMove, Asking
<1>4. act'[x].pc \notin Ending
  BY <1>2 DEF Ending
<1>5. act'[x].pc \in Asking /\ ~ excused[x] => Ready(x)'
  BY <1>2 DEF Reasons, Excuses, Ready, InChunks
<1> QED
  BY <1>3, <1>4, <1>5, AskerReasons

\* x listens.
LEMMA SelectReasons ==
    ASSUME Inv, Reasons, NEW x \in Programs, SelectSender(x)
    PROVE  Reasons'
<1> DEFINE pc == "receive"
<1>1. /\ act[x].pc \in Asking /\ pc \in {"receive", "read"}
      /\ act' = [act EXCEPT ![x].pc = pc] /\ act[x].pc \in {"select", "receive"}
      /\ UNCHANGED <<owner, prop, queue, alive, excused>>
  BY DEF SelectSender, Go, history, Asking
<1>2. \A p \in Programs : Untold(p)
  BY <1>1, SameUntold
<1> HIDE DEF pc
<1> QED
  BY <1>1, <1>2, OnReasons

\* A chunk is there.
LEMMA ChunkThereReasons ==
    ASSUME Inv, Reasons, NEW x \in Programs, ChunkThere(x)
    PROVE  Reasons'
<1> DEFINE pc == "read"
<1>1. /\ act[x].pc \in Asking /\ pc \in {"receive", "read"}
      /\ act' = [act EXCEPT ![x].pc = pc] /\ act[x].pc \in {"select", "receive"}
      /\ UNCHANGED <<owner, prop, alive, excused>>
  BY DEF ChunkThere, Go, server, history, Asking
<1>2. \A p \in Programs : Untold(p)
  BY ChunkThereTakes, TakenUntold
<1> HIDE DEF pc
<1> QED
  BY <1>1, <1>2, OnReasons

\* A sender whose end x hears of is dead; that is a reason.
LEMMA SenderGoneReasons ==
    ASSUME Inv, Reasons, NEW x \in Programs, SenderGone(x)
    PROVE  Reasons'
<1>1. Types /\ Graves /\ Peers /\ act[x] \in Activities
  BY InvParts DEF Types
<1>2. PICK k \in DOMAIN queue[x] :
        /\ queue[x][k] = Destroyed(act[x].peer)
        /\ queue' = [queue EXCEPT ![x] = RemoveAt(@, k)]
        /\ act' = [act EXCEPT ![x] = [act[x] EXCEPT !.pc = "unselect"]]
  BY SenderGoneTakes
<1>3. /\ act[x].pc = "receive" /\ act[x].pc \in Asking
      /\ UNCHANGED <<owner, prop, alive, excused>>
  BY DEF SenderGone, server, history, Asking
<1>4. /\ act'[x].pc = "unselect"
      /\ \A p \in Programs : p # x => act'[p] = act[p]
  BY <1>1, <1>2 DEF Types, Activities
<1>5. ~ alive[act[x].peer]
  <2>1. act[x].peer \in Programs
    BY <1>1, <1>3 DEF Peers, Watching
  <2> QED
    BY <1>1, <1>2, <2>1 DEF Graves, Free
<1>6. excused[x]
  BY <1>3, <1>5 DEF Reasons, Excuses, Ready
<1>7. AskerMove(x)
  <2>1. \A p \in Programs : Untold(p)
    BY <1>2, TakenUntold
  <2> QED
    BY <1>3, <1>4, <2>1 DEF AskerMove, Asking, Ending
<1>8. act'[x].pc \in Asking /\ ~ excused[x] => Ready(x)'
  BY <1>6
<1> QED
  BY <1>3, <1>6, <1>7, <1>8, AskerReasons

\* An empty chunk comes only after some data, as only large data go in chunks.
LEMMA ReadChunkReasons ==
    ASSUME Inv, Reasons, NEW x \in Programs, ReadChunk(x)
    PROVE  Reasons'
<1> DEFINE last == [act[x] EXCEPT !.pc = "unselect", !.ok = act[x].data # <<>>]
           more == [act[x] EXCEPT !.pc = "receive", !.data = act[x].data \o prop[x].units]
           a == IF prop[x].units = <<>> THEN last ELSE more
           t == act[x].type
           got == Len(act[x].data)
<1>1. /\ Types /\ act[x] \in Activities /\ Partly(x) /\ News(x)
  BY InvParts DEF Types, Transfer
<1>2. /\ act[x].pc = "read" /\ act[x].pc \in Asking /\ prop[x] # NoProperty /\ DeleteProperty(x)
      /\ UNCHANGED <<owner, alive, excused>>
  BY <1>1 DEF ReadChunk, history, News, Asking
<1>3. act' = [act EXCEPT ![x] = a]
  BY <1>2 DEF ReadChunk
<1>4. /\ a.pc = IF prop[x].units = <<>> THEN "unselect" ELSE "receive"
      /\ a.sel = act[x].sel /\ a.type = t /\ a.peer = act[x].peer
      /\ prop[x].units = <<>> => a.ok = (act[x].data # <<>>)
  <2>1. /\ last.pc = "unselect" /\ last.sel = act[x].sel /\ last.type = t
        /\ last.peer = act[x].peer /\ last.ok = (act[x].data # <<>>)
    BY <1>1 DEF Activities
  <2>2. /\ more.pc = "receive" /\ more.sel = act[x].sel /\ more.type = t
        /\ more.peer = act[x].peer
    BY <1>1 DEF Activities
  <2> HIDE DEF last, more
  <2> QED
    BY <2>1, <2>2
<1> HIDE DEF a
<1>5. act'[x] = a /\ \A p \in Programs : p # x => act'[p] = act[p]
  BY <1>1, <1>3 DEF Types
<1>6. /\ \A p \in Programs : Untold(p)
      /\ \A p \in Programs : p # x => prop'[p] = prop[p]
      /\ prop'[x].kind # "INCR"
  BY <1>2, DeletedUntold DEF NoProperty
<1>7. ~ excused[x] => Ready(x) /\ Large(t)
  BY <1>2 DEF Reasons, Excuses, Ready, InChunks
<1>8. prop[x].units = <<>> => got = Length[t]
  <2> SUFFICES ASSUME NEW m \in 1 .. Length[t], prop[x] = Data(Units(asked[x], t, got, m)),
                      prop[x].units = <<>>
               PROVE  FALSE
    BY <1>1, <1>2 DEF Partly, Got, InChunks
  <2>1. Units(asked[x], t, got, m) = <<>>
    BY DEF Data
  <2>2. DOMAIN Units(asked[x], t, got, m) = 1 .. m /\ 1 \in 1 .. m
    BY DEF Units
  <2> QED
    BY <2>1, <2>2
<1>9. prop[x].units = <<>> => a.ok \/ excused[x]
  <2> SUFFICES ASSUME prop[x].units = <<>>, ~ excused[x]
               PROVE  act[x].data # <<>>
    BY <1>4
  <2>1. got = Length[t] /\ Length[t] >= 1
    BY <1>7, <1>8 DEF Large
  <2> QED
    BY <2>1
<1>10. AskerMove(x)
  BY <1>2, <1>4, <1>5, <1>6 DEF AskerMove, Asking, Ending
<1>11. act'[x].pc \in Ending => act'[x].ok \/ excused[x]
  BY <1>4, <1>5, <1>9 DEF Ending
<1>12. act'[x].pc \in Asking /\ ~ excused[x] => Ready(x)'
  BY <1>2, <1>4, <1>5, <1>7 DEF Ready, Asking, InChunks
<1> QED
  BY <1>2, <1>10, <1>11, <1>12, AskerReasons

\* x is about to return.
LEMMA UnselectReasons ==
    ASSUME Inv, Reasons, NEW x \in Programs, Unselect(x)
    PROVE  Reasons'
<1>1. Types /\ act[x] \in Activities
  BY InvParts DEF Types
<1>2. /\ act[x].pc = "unselect" /\ act' = [act EXCEPT ![x].pc = "return"]
      /\ UNCHANGED <<owner, prop, queue, alive, excused>>
  BY DEF Unselect, Go, history
<1>3. /\ act'[x].pc = "return" /\ act'[x].ok = act[x].ok
      /\ \A p \in Programs : p # x => act'[p] = act[p]
  BY <1>1, <1>2 DEF Types, Activities
<1>4. AskerMove(x)
  BY <1>2, <1>3, SameUntold DEF AskerMove, Asking, Ending
<1>5. act'[x].ok \/ excused[x]
  BY <1>2, <1>3 DEF Reasons, Excuses, Ending
<1>6. act'[x].pc \notin Asking
  BY <1>3 DEF Asking
<1> QED
  BY <1>2, <1>4, <1>5, <1>6, AskerReasons

\* What other programs do, and what becomes of p.
Eased(p) ==
    /\ act'[p].pc \in Asking \cup Ending => act'[p] = act[p] /\ (excused[p] => excused'[p])
    /\ act'[p].pc \in Asking /\ ~ excused'[p] =>
         /\ Untold(p)
         /\ prop'[p].kind = "INCR" => prop[p].kind = "INCR"
         /\ owner[act[p].sel] # None => owner'[act[p].sel] # None
         /\ act[p].pc \in Watching /\ alive[act[p].peer] => alive'[act[p].peer]
         /\ \A q \in Programs : Sender(q, p)' /\ act'[q].pc \notin {"whole", "notify"} =>
               \/ Large(act'[q].type)
               \/ Sender(q, p) /\ act[q].pc \notin {"whole", "notify"} /\ act'[q].type = act[q].type

\* If all p needs to succeed is left as it was, or it got a reason, then none is missing.
LEMMA EasedKeeps ==
    ASSUME NEW p \in Programs, Eased(p), Excuses(p)
    PROVE  Excuses(p)'
<1>1. CASE act'[p].pc \notin Asking \cup Ending
  BY <1>1 DEF Excuses
<1>2. CASE act'[p].pc \in Asking \cup Ending
  <2>1. act'[p] = act[p] /\ (excused[p] => excused'[p])
    BY <1>2 DEF Eased
  <2>2. ASSUME act'[p].pc \in Asking, ~ excused'[p]
        PROVE  owner'[act[p].sel] # None /\ Fits(p)' /\ Granted(p)' /\ Ready(p)'
    <3>1. owner[act[p].sel] # None /\ Fits(p) /\ Granted(p) /\ Ready(p)
      BY <2>1, <2>2 DEF Excuses
    <3>2. Fits(p)'
      BY <2>1, <2>2, <3>1 DEF Eased, Fits
    <3>3. Granted(p)'
      BY <2>1, <2>2, <3>1 DEF Eased, Granted, Untold
    <3>4. Ready(p)'
      BY <2>1, <2>2, <3>1 DEF Eased, Ready, Watching
    <3> QED
      BY <2>1, <2>2, <3>1, <3>2, <3>3, <3>4 DEF Eased
  <2> QED
    BY <2>1, <2>2 DEF Excuses
<1> QED
  BY <1>1, <1>2

\* A new owner is an owner.
LEMMA BecomeOwnerReasons ==
    ASSUME Inv, Reasons, NEW x \in Programs, NEW s \in Selections, BecomeOwner(x, s)
    PROVE  Reasons'
<1>1. Types /\ Peers
  BY InvParts
<1>2. /\ owner' = [owner EXCEPT ![s] = x]
      /\ UNCHANGED <<prop, queue, act, alive, excused>>
  BY DEF BecomeOwner, history
<1>3. \A s1 \in Selections : owner[s1] # None => owner'[s1] # None
  BY <1>1, <1>2, SelectionsAssumption DEF Types
<1>4. \A p \in Programs : Eased(p)
  BY <1>1, <1>2, <1>3, SameUntold DEF Eased, Sender, Peers
<1> QED
  BY <1>4, EasedKeeps DEF Reasons

\* The next request begins without a reason to fail.
LEMMA ReturnReasons ==
    ASSUME Inv, Reasons, NEW x \in Programs, Return(x)
    PROVE  Reasons'
<1>1. Types /\ act \in [Programs -> Activities] /\ excused \in [Programs -> BOOLEAN]
  BY InvParts DEF Types
<1>2. /\ act' = [act EXCEPT ![x] = Idle] /\ excused' = [excused EXCEPT ![x] = FALSE]
      /\ UNCHANGED <<owner, prop, queue, alive>>
  BY DEF Return, server
<1>3. /\ act'[x].pc = "idle"
      /\ \A p \in Programs : p # x => act'[p] = act[p] /\ excused'[p] = excused[p]
  BY <1>1, <1>2, IdleTypes
<1>4. ASSUME NEW p \in Programs
      PROVE  Eased(p)
  <2>1. \A q \in Programs : Sender(q, p)' => Sender(q, p) /\ act'[q] = act[q]
    BY <1>3 DEF Sender, Sending
  <2> QED
    BY <1>2, <1>3, <2>1, SameUntold DEF Eased, Asking, Ending
<1> QED
  BY <1>4, EasedKeeps DEF Reasons

\* To run out of time is a reason.
LEMMA GiveUpAskingReasons ==
    ASSUME Inv, Reasons, NEW x \in Programs, GiveUpAsking(x)
    PROVE  Reasons'
<1>1. Types /\ act \in [Programs -> Activities] /\ excused \in [Programs -> BOOLEAN]
  BY InvParts DEF Types
<1>2. /\ act' = [act EXCEPT ![x].pc = IF act[x].pc = "asked" THEN "return" ELSE "unselect"]
      /\ excused' = [excused EXCEPT ![x] = TRUE]
      /\ UNCHANGED <<owner, prop, queue, alive>>
  BY DEF GiveUpAsking, Go, server
<1>3. /\ act'[x].pc \in Ending /\ excused'[x]
      /\ \A p \in Programs : p # x => act'[p] = act[p] /\ excused'[p] = excused[p]
  BY <1>1, <1>2 DEF Activities, Ending
<1>4. ASSUME NEW p \in Programs, p # x
      PROVE  Eased(p)
  <2>1. \A q \in Programs : Sender(q, p)' => Sender(q, p) /\ act'[q] = act[q]
    BY <1>3 DEF Sender, Sending, Ending
  <2> QED
    BY <1>2, <1>3, <1>4, <2>1, SameUntold DEF Eased
<1>5. Excuses(x)'
  BY <1>3 DEF Excuses
<1> QED
  BY <1>4, <1>5, EasedKeeps DEF Reasons

\* No owner is a reason; else nobody has refused the new request.
LEMMA RequestReasons ==
    ASSUME ~ Overlaps, Inv, Reasons,
           NEW x \in Programs, NEW s \in Selections, NEW t \in Kinds, Request(x, s, t)
    PROVE  Reasons'
<1> DEFINE a == [Idle EXCEPT !.pc = "asked", !.sel = s, !.type = t]
<1>1. /\ Types /\ queue \in Queues /\ act \in [Programs -> Activities]
      /\ excused \in [Programs -> BOOLEAN] /\ owner \in [Selections -> Programs \cup {None}]
  BY InvParts DEF Types
<1>2. /\ ~ Answering(x)
      /\ act' = [act EXCEPT ![x] = a]
      /\ queue' = IF owner[s] = None THEN Post(queue, {x}, SelectionNotify(s, t, FALSE))
                  ELSE Post(queue, {owner[s]}, SelectionRequest(x, s, t))
      /\ excused' = [excused EXCEPT ![x] = owner[s] = None]
      /\ UNCHANGED <<owner, prop, alive>>
  BY DEF Request, server
<1>3. a \in Activities /\ a.pc = "asked" /\ a.sel = s /\ a.type = t
  BY IdleTypes DEF Sels, Idle
<1> HIDE DEF a
<1>4. /\ act'[x] = a /\ \A p \in Programs : p # x => act'[p] = act[p] /\ excused'[p] = excused[p]
      /\ excused'[x] = (owner[s] = None)
  BY <1>1, <1>2
<1>5. \A p \in Programs : p # x \/ ~ excused'[p] => Untold(p)
  <2>1. CASE owner[s] = None
    <3> DEFINE n == SelectionNotify(s, t, FALSE)
               to == {x}
    <3>1. n \in Events
      BY EventKinds DEF Sels
    <3>2. queue' = Post(queue, to, n)
      BY <1>2, <2>1
    <3> HIDE DEF n, to
    <3>3. \A q \in Programs : ~ (q \in to /\ alive[q]) => queue'[q] = queue[q]
      BY <1>1, <3>1, <3>2, PostedSends
    <3>4. \A q \in Programs : q # x => queue'[q] = queue[q]
      BY <3>3 DEF to
    <3> QED
      BY <1>4, <2>1, <3>4 DEF Untold
  <2>2. CASE owner[s] # None
    <3> DEFINE e == SelectionRequest(x, s, t)
               to == {owner[s]}
    <3>1. e \in Events /\ {e} \cap Notices = {}
      BY EventKinds, Apart DEF Sels
    <3>2. queue' = Post(queue, to, e)
      BY <1>2, <2>2
    <3> HIDE DEF e, to
    <3>3. queue' \in Queues /\ Sends(to, {e})
      BY <1>1, <3>1, <3>2, PostedSends
    <3> QED
      BY <1>1, <3>1, <3>3, SendsUntold
  <2> QED
    BY <2>1, <2>2
<1>6. ASSUME NEW p \in Programs
      PROVE  \A q \in Programs : Sender(q, p)' => Sender(q, p) /\ act'[q] = act[q]
  BY <1>3, <1>4 DEF Sender, Sending
<1>7. ASSUME NEW p \in Programs, p # x
      PROVE  Eased(p)
  BY <1>2, <1>4, <1>5, <1>6, <1>7 DEF Eased
<1>8. Excuses(x)'
  <2> SUFFICES ASSUME ~ excused'[x]
               PROVE  owner'[s] # None /\ Fits(x)' /\ Granted(x)' /\ Ready(x)'
    BY <1>3, <1>4 DEF Excuses, Ending
  <2>1. \A q \in Programs : ~ Sender(q, x)'
    BY <1>2, <1>6 DEF Answering, Sender
  <2>2. \A j \in DOMAIN queue[x] : queue[x][j] \notin Notices
    BY <1>2, EventKinds DEF Answering
  <2>3. \A j \in DOMAIN queue'[x] : queue'[x][j] \notin Notices
    BY <1>5, <2>2 DEF Untold
  <2> QED
    BY <1>2, <1>3, <1>4, <2>1, <2>3 DEF Fits, Granted, Ready, InChunks
<1> QED
  BY <1>7, <1>8, EasedKeeps DEF Reasons

\* x goes on with sending.
SenderGoes(x) ==
    /\ act'[x].pc \in Sending \cup {"idle", "finish"}
    /\ act'[x].pc \in Sending =>
         act[x].pc \in Sending /\ act'[x].peer = act[x].peer /\ act'[x].type = act[x].type
    /\ \A p \in Programs : p # x => act'[p] = act[p]
    /\ \A p \in Programs : excused[p] => excused'[p]
    /\ \A p \in Programs : p # act[x].peer => Untold(p) /\ prop'[p] = prop[p]
    /\ UNCHANGED <<owner, alive>>

\* A step of a sender concerns only the program it sends to.
LEMMA SenderEased ==
    ASSUME NEW x \in Programs, SenderGoes(x)
    PROVE  \A p \in Programs : p # act[x].peer => Eased(p)
<1> SUFFICES ASSUME NEW p \in Programs, p # act[x].peer
             PROVE  Eased(p)
  OBVIOUS
<1>1. \A q \in Programs : Sender(q, p)' => Sender(q, p) /\ act'[q] = act[q]
  BY DEF SenderGoes, Sender
<1>2. act'[p].pc \in Asking \cup Ending => act'[p] = act[p]
  BY DEF SenderGoes, Sending, Asking, Ending
<1> QED
  BY <1>1, <1>2 DEF SenderGoes, Eased

\* It leaves that program what it needs if it neither tells it anything, nor announces
\* anything, nor turns to chunks.
LEMMA SenderReasons ==
    ASSUME Reasons, NEW x \in Programs, NEW r \in Programs, r = act[x].peer, SenderGoes(x), r # x,
           ~ excused'[r] /\ act[r].pc \in Asking =>
               /\ Untold(r)
               /\ prop'[r].kind = "INCR" => prop[r].kind = "INCR"
               /\ act'[x].pc \notin {"idle", "finish", "whole", "notify"} =>
                     act[x].pc \notin {"whole", "notify"}
    PROVE  Reasons'
<1>1. act'[r] = act[r] /\ (excused[r] => excused'[r]) /\ UNCHANGED <<owner, alive>>
  BY DEF SenderGoes
<1>2. ASSUME NEW q \in Programs, Sender(q, r)', act'[q].pc \notin {"whole", "notify"},
             ~ excused'[r], act[r].pc \in Asking
      PROVE  Sender(q, r) /\ act[q].pc \notin {"whole", "notify"} /\ act'[q].type = act[q].type
  <2>1. CASE q = x
    <3>1. act'[x].pc \in Sending /\ act'[x].pc \notin {"idle", "finish"}
      BY <1>2, <2>1 DEF Sender, Sending
    <3> QED
      BY <1>2, <2>1, <3>1 DEF Sender, SenderGoes
  <2>2. CASE q # x
    BY <1>2, <2>2 DEF Sender, SenderGoes
  <2> QED
    BY <2>1, <2>2
<1>3. Eased(r)
  BY <1>1, <1>2 DEF Eased
<1>4. \A p \in Programs : Eased(p)
  BY <1>3, SenderEased
<1> QED
  BY <1>4, EasedKeeps DEF Reasons

\* A new value is no notice.
LEMMA ChangedUntold ==
    ASSUME Inv, NEW w \in Programs, NEW v \in Properties, ChangeProperty(w, v)
    PROVE  /\ \A p \in Programs : Untold(p)
           /\ \A p \in Programs : p # w => prop'[p] = prop[p]
           /\ prop'[w] = v \/ prop'[w] = prop[w]
<1> DEFINE to == {w}
           E == {NewValue}
<1>1. Types /\ queue \in Queues
  BY InvParts
<1>2. /\ queue' \in Queues /\ Sends(to, E)
      /\ \A p \in Programs : p # w => prop'[p] = prop[p]
      /\ prop'[w] = v \/ prop'[w] = prop[w]
  BY <1>1, ChangedSends
<1>3. E \cap Notices = {}
  BY Apart
<1> HIDE DEF to, E
<1> QED
  BY <1>1, <1>2, <1>3, SendsUntold

\* SendData1 of some data.
LEMMA SendReasons ==
    ASSUME Inv, Reasons, NEW x \in Programs, act[x].pc \in {"whole", "send"},
           NEW units \in Seq(Unit), NEW sent, NEW gone, NEW failed,
           SendData1(x, units, sent, gone, failed),
           sent.pc \in {"notify", "sent", "finish"},
           sent.pc \in Sending => sent.peer = act[x].peer /\ sent.type = act[x].type,
           gone.pc \in Sending \cup {"idle", "finish"},
           gone.pc \in Sending => gone.peer = act[x].peer /\ gone.type = act[x].type,
           failed.pc \in Sending \cup {"idle", "finish"},
           failed.pc \in Sending => failed.peer = act[x].peer /\ failed.type = act[x].type,
           sent.pc = "sent" => act[x].pc = "send",
           UNCHANGED <<owner, alive>>
    PROVE  Reasons'
<1>1. Types /\ Graves /\ act \in [Programs -> Activities] /\ excused \in [Programs -> BOOLEAN]
  BY InvParts DEF Types
<1>2. PICK r \in Programs : r = act[x].peer
  BY SenderIs DEF Sending
<1>3. r # x /\ act[x].pc \in Sending
  <2>1. act[x].pc \in Sending
    BY DEF Sending
  <2> QED
    BY <1>2, <2>1, SenderIs
<1>4. CASE /\ alive[r] /\ ChangeProperty(r, Data(units))
           /\ act' = [act EXCEPT ![x] = sent] /\ excused' = excused
  <2>1. act'[x] = sent /\ \A p \in Programs : p # x => act'[p] = act[p]
    BY <1>1, <1>4
  <2> DEFINE v == Data(units)
  <2>2. v \in Properties /\ v.kind = "data"
    BY DEF Properties, Data
  <2>3. ChangeProperty(r, v)
    BY <1>4
  <2> HIDE DEF v
  <2>4. /\ \A p \in Programs : Untold(p)
        /\ \A p \in Programs : p # r => prop'[p] = prop[p]
        /\ prop'[r] = v \/ prop'[r] = prop[r]
    BY <2>2, <2>3, ChangedUntold
  <2>5. SenderGoes(x)
    BY <1>2, <1>3, <1>4, <2>1, <2>4 DEF SenderGoes, Sending
  <2>6. prop'[r].kind = "INCR" => prop[r].kind = "INCR"
    BY <2>2, <2>4
  <2>7. act'[x].pc \notin {"idle", "finish", "whole", "notify"} => act[x].pc \notin {"whole", "notify"}
    BY <2>1
  <2> QED
    BY <1>2, <1>3, <2>4, <2>5, <2>6, <2>7, SenderReasons
<1>5. CASE /\ ~ alive[r] /\ act' = [act EXCEPT ![x] = gone]
           /\ UNCHANGED <<prop, queue, excused>>
  <2>1. act'[x] = gone /\ \A p \in Programs : p # x => act'[p] = act[p]
    BY <1>1, <1>5
  <2>2. SenderGoes(x)
    BY <1>3, <1>5, <2>1, SameUntold DEF SenderGoes
  <2>3. act[r].pc \notin Asking
    BY <1>1, <1>5, IdleTypes DEF Graves, Asking
  <2> QED
    BY <1>2, <1>3, <2>2, <2>3, SenderReasons
<1>6. CASE /\ act' = [act EXCEPT ![x] = failed]
           /\ excused' = [excused EXCEPT ![r] = TRUE] /\ UNCHANGED <<prop, queue>>
  <2>1. act'[x] = failed /\ \A p \in Programs : p # x => act'[p] = act[p]
    BY <1>1, <1>6
  <2>2. excused'[r] /\ \A p \in Programs : excused[p] => excused'[p]
    BY <1>1, <1>6
  <2>3. SenderGoes(x)
    BY <1>3, <1>6, <2>1, <2>2, SameUntold DEF SenderGoes
  <2> QED
    BY <1>2, <1>3, <2>2, <2>3, SenderReasons
<1> QED
  BY <1>2, <1>4, <1>5, <1>6 DEF SendData1

\* x cannot send all at once only if the other program is gone or there is no memory.
LEMMA SendWholeReasons ==
    ASSUME Inv, Reasons, NEW x \in Programs, SendWhole(x)
    PROVE  Reasons'
<1> DEFINE units == Contents(x, act[x].type)
           sent == [act[x] EXCEPT !.pc = "notify"]
           failed == [act[x] EXCEPT !.pc = "announce"]
<1>1. act[x] \in Activities /\ act[x].type \in Kinds
  BY InvParts DEF Types, Activities
<1>2. act[x].pc \in {"whole", "send"} /\ UNCHANGED <<owner, alive>>
  BY DEF SendWhole
<1>3. /\ sent.pc = "notify" /\ sent.peer = act[x].peer /\ sent.type = act[x].type
      /\ failed.pc = "announce" /\ failed.peer = act[x].peer /\ failed.type = act[x].type
  BY <1>1 DEF Activities
<1>4. SendData1(x, units, sent, failed, failed)
  BY DEF SendWhole
<1>5. units \in Seq(Unit)
  <2> DEFINE t == act[x].type
             len == Length[t]
             z == 0
  <2>1. len \in Nat /\ z \in Nat /\ t \in Kinds /\ units = Units(x, t, z, len)
    BY <1>1, ContentsTypes DEF Contents
  <2> HIDE DEF len, z, t, units
  <2> QED
    BY <2>1, UnitsTypes
<1> HIDE DEF units, sent, failed
<1>6. /\ sent.pc \in {"notify", "sent", "finish"} /\ failed.pc \in Sending \cup {"idle", "finish"}
      /\ sent.pc = "sent" => act[x].pc = "send"
  BY <1>3 DEF Sending
<1> QED
  BY <1>2, <1>3, <1>4, <1>5, <1>6, SendReasons

\* The same of a chunk.
LEMMA SendChunkReasons ==
    ASSUME Inv, Reasons, NEW x \in Programs, SendChunk(x)
    PROVE  Reasons'
<1> DEFINE t == act[x].type
           size == ChunkSize(x)
           from == Length[t] - act[x].left
           half == maxChunk[x] \div 2
           units == Units(x, t, from, size)
           sent == [act[x] EXCEPT !.pc = "sent", !.chunk = size]
           smaller == [act[x] EXCEPT !.pc = "sent", !.chunk = half, !.failed = TRUE]
           failed == IF maxChunk[x] > 1 THEN smaller ELSE Idle
           gone == Idle
<1>1. /\ act[x].pc \in {"whole", "send"} /\ act[x].pc = "send" /\ act[x].left > 0
      /\ SendData1(x, units, sent, gone, failed)
      /\ UNCHANGED <<owner, alive>>
  BY DEF SendChunk
<1>2. act[x] \in Activities /\ t \in Kinds /\ act[x].pc \in Sending /\ Phase(x, act[x].peer)
  <2>1. act[x].pc \in Sending
    BY <1>1 DEF Sending
  <2> QED
    BY <2>1, SenderIs
<1>3. units \in Seq(Unit)
  <2>1. /\ act[x].left \in Nat /\ act[x].chunk \in Nat /\ Length[t] \in Nat
        /\ act[x].left <= Length[t]
    BY <1>2, ContentsTypes, SelectionsAssumption DEF Activities, Phase
  <2>2. size \in Nat /\ from \in Nat
    BY <2>1 DEF ChunkSize
  <2> HIDE DEF size, from, t
  <2> QED
    BY <1>2, <2>2, UnitsTypes
<1>4. gone.pc = "idle"
  BY DEF Idle
<1>5. /\ sent.pc = "sent" /\ sent.peer = act[x].peer /\ sent.type = t
      /\ smaller.pc = "sent" /\ smaller.peer = act[x].peer /\ smaller.type = t
  <2> HIDE DEF size, half
  <2> QED
    BY <1>2 DEF Activities
<1>6. failed.pc = "idle" \/ (failed.pc = "sent" /\ failed.peer = act[x].peer /\ failed.type = t)
  <2> HIDE DEF smaller
  <2> QED
    BY <1>4, <1>5
<1> HIDE DEF units, sent, failed, gone
<1>7. /\ sent.pc \in {"notify", "sent", "finish"}
      /\ gone.pc \in Sending \cup {"idle", "finish"} /\ gone.pc \notin Sending
      /\ failed.pc \in Sending \cup {"idle", "finish"}
      /\ failed.pc \in Sending => failed.peer = act[x].peer /\ failed.type = act[x].type
  BY <1>4, <1>5, <1>6 DEF Sending
<1> QED
  BY <1>1, <1>3, <1>5, <1>7, SendReasons

\* The same of the end.
LEMMA SendEndReasons ==
    ASSUME Inv, Reasons, NEW x \in Programs, SendEnd(x)
    PROVE  Reasons'
<1> DEFINE units == <<>>
           sent == [act[x] EXCEPT !.pc = "finish"]
           gone == Idle
<1>1. /\ act[x].pc \in {"whole", "send"} /\ act[x].pc = "send"
      /\ SendData1(x, units, sent, gone, sent)
      /\ UNCHANGED <<owner, alive>>
  BY DEF SendEnd
<1>2. units \in Seq(Unit)
  OBVIOUS
<1>3. gone.pc = "idle"
  BY DEF Idle
<1>4. sent.pc = "finish"
  BY InvParts DEF Types, Activities
<1> HIDE DEF units, sent, gone
<1>5. /\ sent.pc \in {"notify", "sent", "finish"} /\ sent.pc \notin Sending /\ sent.pc # "sent"
      /\ sent.pc \in Sending \cup {"idle", "finish"}
      /\ gone.pc \in Sending \cup {"idle", "finish"} /\ gone.pc \notin Sending
  BY <1>3, <1>4 DEF Sending
<1> QED
  BY <1>1, <1>2, <1>5, SendReasons

\* x has sent all.
LEMMA FinishReasons ==
    ASSUME Inv, Reasons, NEW x \in Programs, Finish(x)
    PROVE  Reasons'
<1>1. act \in [Programs -> Activities]
  BY InvParts DEF Types
<1>2. PICK r \in Programs : r = act[x].peer /\ r # x
  <2>1. act[x].pc \in Sending \cup {"finish"}
    BY DEF Finish
  <2> QED
    BY <2>1, SenderIs
<1>3. /\ act' = [act EXCEPT ![x] = Idle]
      /\ UNCHANGED <<owner, prop, queue, alive, excused>>
  BY DEF Finish, history
<1>4. act'[x].pc = "idle" /\ \A p \in Programs : p # x => act'[p] = act[p]
  BY <1>1, <1>3, IdleTypes
<1>5. SenderGoes(x)
  BY <1>3, <1>4, SameUntold DEF SenderGoes, Sending
<1> QED
  BY <1>2, <1>3, <1>4, <1>5, SameUntold, SenderReasons

\* That x runs out of time is a reason for the other program to fail.
LEMMA GiveUpSendingReasons ==
    ASSUME Inv, Reasons, NEW x \in Programs, GiveUpSending(x)
    PROVE  Reasons'
<1>1. act \in [Programs -> Activities] /\ excused \in [Programs -> BOOLEAN]
  BY InvParts DEF Types
<1>2. PICK r \in Programs : r = act[x].peer /\ r # x
  <2>1. act[x].pc \in Sending \cup {"finish"}
    BY DEF GiveUpSending, Sending
  <2> QED
    BY <2>1, SenderIs
<1>3. /\ act' = [act EXCEPT ![x] = Idle]
      /\ excused' = [excused EXCEPT ![r] = TRUE]
      /\ UNCHANGED <<owner, prop, queue, alive>>
  BY <1>2 DEF GiveUpSending
<1>4. /\ act'[x].pc = "idle" /\ \A p \in Programs : p # x => act'[p] = act[p]
      /\ excused'[r] /\ \A p \in Programs : excused[p] => excused'[p]
  BY <1>1, <1>3, IdleTypes
<1>5. SenderGoes(x)
  BY <1>3, <1>4, SameUntold DEF SenderGoes, Sending
<1> QED
  BY <1>2, <1>4, <1>5, SenderReasons

\* x goes on as before.
LEMMA WaitReasons ==
    ASSUME Inv, Reasons, NEW x \in Programs, WaitForPropertyDeleted(x)
    PROVE  Reasons'
<1>1. act \in [Programs -> Activities] /\ act[x] \in Activities
  BY InvParts DEF Types
<1>2. /\ act[x].pc \in {"invited", "sent"} /\ act[x].pc \in Sending
      /\ UNCHANGED <<owner, prop, alive, excused>>
  BY DEF WaitForPropertyDeleted, server, history, Sending
<1>3. PICK r \in Programs : r = act[x].peer /\ r # x
  BY <1>2, SenderIs
<1>4. PICK k \in DOMAIN queue[x] : Found(x, r, k)
  BY <1>3, WaitTakes
<1> DEFINE on == [act[x] EXCEPT !.pc = "send",
                     !.left = IF act[x].pc = "sent" THEN @ - act[x].chunk ELSE @]
<1>5. on.pc = "send" /\ on.peer = r /\ on.type = act[x].type
  BY <1>1, <1>3 DEF Activities
<1>6. /\ act' = [act EXCEPT ![x] = Idle] \/ act' = [act EXCEPT ![x] = on]
      /\ queue' = [queue EXCEPT ![x] = RemoveAt(@, k)]
  BY <1>4 DEF Found
<1>7. \A p \in Programs : Untold(p)
  BY <1>6, TakenUntold
<1> HIDE DEF on
<1>8. /\ \/ act'[x].pc = "idle"
         \/ act'[x].pc = "send" /\ act'[x].peer = r /\ act'[x].type = act[x].type
      /\ \A p \in Programs : p # x => act'[p] = act[p]
  BY <1>1, <1>5, <1>6, IdleTypes
<1>9. SenderGoes(x)
  BY <1>2, <1>3, <1>7, <1>8 DEF SenderGoes, Sending
<1> QED
  BY <1>2, <1>3, <1>7, <1>9, SenderReasons

\* What x announces is large, and the other program has not heard of it yet.
LEMMA AnnounceReasons ==
    ASSUME Inv, Reasons, NEW x \in Programs, Announce(x)
    PROVE  Reasons'
<1>1. act \in [Programs -> Activities] /\ act[x] \in Activities
  BY InvParts DEF Types
<1>2. /\ act[x].pc = "announce" /\ act[x].pc \in Sending /\ act[x].pc \in Early
      /\ act' = [act EXCEPT ![x].pc = "invite"]
      /\ UNCHANGED <<owner, alive, excused>>
  BY DEF Announce, Go, history, Sending, Early
<1>3. PICK r \in Programs : r = act[x].peer /\ r # x
  BY <1>2, SenderIs
<1>4. /\ Sender(x, r) /\ act[x].type \in Kinds
      /\ Lone(r) /\ Mine(r)
  BY <1>2, <1>3, SenderIs, InvParts DEF Turn
<1> DEFINE v == Incr(x, act[x].type)
<1>5. v \in Properties
  BY <1>4, ContentsTypes
<1>6. ChangeProperty(r, v)
  BY <1>3 DEF Announce
<1> HIDE DEF v
<1>7. /\ \A p \in Programs : Untold(p)
      /\ \A p \in Programs : p # r => prop'[p] = prop[p]
  BY <1>5, <1>6, ChangedUntold
<1>8. /\ act'[x].pc = "invite" /\ act'[x].peer = r /\ act'[x].type = act[x].type
      /\ \A p \in Programs : p # x => act'[p] = act[p]
  BY <1>1, <1>2, <1>3 DEF Activities
<1>9. SenderGoes(x)
  BY <1>2, <1>3, <1>7, <1>8 DEF SenderGoes, Sending
<1>10. Free(queue[r], Notices) /\ act[r].pc \notin Taking
  BY <1>2, <1>4 DEF Lone, Early, Late
<1>11. Free(queue'[r], Notices)
  BY <1>7, <1>10 DEF Untold, Free
<1>12. Excuses(r)'
  <2>1. act'[r] = act[r] /\ UNCHANGED <<owner, alive, excused>>
    BY <1>2, <1>3, <1>8
  <2>2. Excuses(r)
    BY DEF Reasons
  <2>3. \A q \in Programs : Sender(q, r)' =>
          Sender(q, r) /\ act'[q].type = act[q].type
            /\ (act'[q].pc \notin {"whole", "notify"} => act[q].pc \notin {"whole", "notify"})
    BY <1>2, <1>3, <1>4, <1>8 DEF Sender
  <2>4. Fits(r) => Fits(r)'
    BY <2>3 DEF Fits
  <2>5. Granted(r)'
    BY <1>11 DEF Granted, Free
  <2>6. Ready(r)'
    BY <1>10, <2>1 DEF Ready, Taking, InChunks
  <2> QED
    BY <2>1, <2>2, <2>4, <2>5, <2>6 DEF Excuses
<1>13. \A p \in Programs : p # r => Eased(p)
  BY <1>3, <1>9, SenderEased
<1> QED
  BY <1>12, <1>13, EasedKeeps DEF Reasons

\* The notice grants the request.
LEMMA SendNotifyReasons ==
    ASSUME Inv, Reasons, NEW x \in Programs, SendNotify(x)
    PROVE  Reasons'
<1>1. PICK r \in Programs : r = act[x].peer /\ r # x
  <2>1. act[x].pc \in Sending
    BY DEF SendNotify, Sending
  <2> QED
    BY <2>1, SenderIs
<1> DEFINE t == act[x].type
           n == SelectionNotify(act[x].sel, t, TRUE)
           on == [act[x] EXCEPT !.pc = "invited"]
           a == IF act[x].pc = "notify" THEN Idle ELSE on
           to == {r}
<1>2. /\ act \in [Programs -> Activities] /\ queue \in Queues
  BY InvParts DEF Types
<1>3. /\ act[x].pc \in {"notify", "invite"} /\ act[x].pc \in Sending /\ act[x].pc \in Early
      /\ queue' = Post(queue, to, n)
      /\ act' = [act EXCEPT ![x] = a]
      /\ UNCHANGED <<owner, prop, alive, excused>>
  BY <1>1 DEF SendNotify, server, history, Sending, Early
<1>4. /\ act[x] \in Activities /\ t \in Kinds /\ act[x].sel \in Sels
      /\ Sender(x, r) /\ Phase(x, r) /\ Lone(r) /\ Mine(r)
  BY <1>1, <1>3, SenderIs, InvParts DEF Activities, Turn
<1>5. /\ act[x].pc = "notify" => a.pc = "idle"
      /\ act[x].pc = "invite" => a.pc = "invited" /\ a.peer = r /\ a.type = t
  <2>1. on.pc = "invited" /\ on.peer = r /\ on.type = t
    BY <1>1, <1>4 DEF Activities
  <2> HIDE DEF on
  <2> QED
    BY <2>1, IdleTypes
<1>6. n \in Events /\ n.ok = TRUE
  BY <1>4, EventKinds DEF SelectionNotify
<1> HIDE DEF n, a, to
<1>7. /\ queue' \in Queues /\ Sends(to, {n})
      /\ \A q \in Programs : ~ (q \in to /\ alive[q]) => queue'[q] = queue[q]
  BY <1>2, <1>3, <1>6, PostedSends
<1>8. /\ act'[x] = a /\ \A p \in Programs : p # x => act'[p] = act[p]
  BY <1>2, <1>3
<1>9. \A q \in Programs : q # r => queue'[q] = queue[q]
  BY <1>7 DEF to
<1>10. SenderGoes(x)
  <2>1. \A p \in Programs : p # r => Untold(p)
    BY <1>9 DEF Untold
  <2> QED
    BY <1>1, <1>3, <1>5, <1>8, <2>1 DEF SenderGoes, Sending
<1>11. Free(queue[r], Notices) /\ act[r].pc \notin Taking
  BY <1>3, <1>4 DEF Lone, Early, Late
<1>12. \A k \in DOMAIN queue'[r] : queue'[r][k] \in Notices => alive[r] /\ queue'[r][k] = n
  <2>1. \A k \in DOMAIN queue'[r] : queue'[r][k] \in Notices =>
          r \in to /\ alive[r] /\ queue'[r][k] \in {n}
    BY <1>2, <1>7, <1>11, FirstSent
  <2> QED
    BY <2>1
<1>13. Excuses(r)'
  <2>1. act'[r] = act[r] /\ prop'[r] = prop[r] /\ UNCHANGED <<owner, alive, excused>>
    BY <1>1, <1>3, <1>8
  <2>2. Excuses(r)
    BY DEF Reasons
  <2>3. \A q \in Programs : Sender(q, r)' =>
          Sender(q, r) /\ act'[q].type = act[q].type
            /\ (act'[q].pc \notin {"whole", "notify"} => act[q].pc \notin {"whole", "notify"})
    BY <1>1, <1>3, <1>5, <1>8 DEF Sender, Sending, t
  <2>4. Fits(r) => Fits(r)'
    BY <2>3 DEF Fits
  <2>5. ASSUME act[r].pc \in Asking, Fits(r)
        PROVE  Granted(r)'
    <3>1. alive[r] /\ prop[r].kind = "INCR" => Large(act[r].type)
      <4>1. t = act[r].type
        BY <1>4, <2>5 DEF Mine, t
      <4>2. CASE act[x].pc = "notify"
        BY <1>4, <4>2 DEF Phase, Data, t
      <4>3. CASE act[x].pc = "invite"
        BY <1>4, <2>5, <4>1, <4>3 DEF Fits, t
      <4> QED
        BY <1>3, <4>2, <4>3
    <3> QED
      BY <1>6, <1>12, <2>1, <3>1 DEF Granted
  <2>6. Ready(r)'
    BY <1>11, <2>1 DEF Ready, Taking, InChunks
  <2> QED
    BY <2>1, <2>2, <2>4, <2>5, <2>6 DEF Excuses
<1>14. \A p \in Programs : p # r => Eased(p)
  BY <1>1, <1>10, SenderEased
<1> QED
  BY <1>13, <1>14, EasedKeeps DEF Reasons

\* A refusal is a reason; and only what does not fit into one chunk, so not the list of
\* types, is sent in chunks.
LEMMA DispatchReasons ==
    ASSUME Length[TypeList] <= 1, Inv, Reasons, NEW x \in Programs, Dispatch(x)
    PROVE  Reasons'
<1> DEFINE tail == Tail(queue[x])
           one == 1
<1>1. /\ Types /\ queue \in Queues /\ queue[x] \in Seq(Events) /\ act \in [Programs -> Activities]
      /\ excused \in [Programs -> BOOLEAN]
  BY InvParts DEF Types, Queues
<1>2. /\ act[x].pc = "idle" /\ queue[x] # <<>>
      /\ UNCHANGED <<owner, prop, maxChunk, alive>>
  BY DispatchTakes
<1>3. /\ one \in DOMAIN queue[x] /\ tail = RemoveAt(queue[x], one) /\ tail \in Seq(Events)
  BY <1>1, <1>2, TailRemoves
<1>4. queue' = [queue EXCEPT ![x] = Tail(@)] => \A p \in Programs : Untold(p)
  <2> SUFFICES ASSUME queue' = [queue EXCEPT ![x] = Tail(@)]
               PROVE  \A p \in Programs : Untold(p)
    OBVIOUS
  <2>1. queue' = [queue EXCEPT ![x] = RemoveAt(@, one)]
    BY <1>3
  <2> HIDE DEF one
  <2> QED
    BY <1>3, <2>1, TakenUntold
<1> HIDE DEF tail, one
<1>5. CASE queue' = [queue EXCEPT ![x] = Tail(@)] /\ UNCHANGED <<act, excused>>
  <2>1. \A p \in Programs : Eased(p)
    BY <1>2, <1>4, <1>5 DEF Eased, Sender
  <2> QED
    BY <2>1, EasedKeeps DEF Reasons
<1>6. ASSUME NEW r \in Programs, Refuses(x, r), UNCHANGED act
      PROVE  Reasons'
  <2> DEFINE n == SelectionNotify(Head(queue[x]).sel, Head(queue[x]).type, FALSE)
             to == {r}
             rest == [queue EXCEPT ![x] = Tail(@)]
  <2>1. queue' = Post(rest, to, n) /\ excused' = [excused EXCEPT ![r] = TRUE]
    BY <1>6 DEF Refuses
  <2>2. excused'[r] /\ \A p \in Programs : excused[p] => excused'[p]
    BY <1>1, <2>1
  <2>3. ASSUME NEW p \in Programs, p # r
        PROVE  Untold(p)
    <3>1. queue'[p] = rest[p]
      BY <2>1, <2>3 DEF Post
    <3>2. rest[p] = IF p = x THEN tail ELSE queue[p]
      BY <1>1, <2>3 DEF Queues, tail
    <3>3. \A k \in DOMAIN tail : \E j \in DOMAIN queue[x] : queue[x][j] = tail[k]
      <4>1. From(tail, queue[x], {})
        BY <1>1, <1>3, FromRemove
      <4> QED
        BY <1>1, <1>3, <4>1, FoundBefore
    <3> HIDE DEF rest
    <3> QED
      BY <3>1, <3>2, <3>3 DEF Untold
  <2>4. ASSUME NEW p \in Programs
        PROVE  Eased(p)
    <3>1. act' = act
      BY <1>6
    <3> HIDE DEF n, to, rest
    <3>2. CASE p = r
      BY <2>2, <3>1, <3>2 DEF Eased
    <3>3. CASE p # r
      BY <1>2, <2>2, <2>3, <3>1, <3>3 DEF Eased, Sender
    <3> QED
      BY <3>2, <3>3
  <2> QED
    BY <2>4, EasedKeeps DEF Reasons
<1>7. ASSUME NEW r, NEW a, Accepts(x, r, a), UNCHANGED excused
      PROVE  Reasons'
  <2>1. /\ act'[x] = a /\ \A p \in Programs : p # x => act'[p] = act[p]
        /\ \A p \in Programs : Untold(p)
        /\ a \in Activities /\ a.pc \in {"whole", "announce"}
        /\ a.pc = "announce" => ~ (Length[a.type] <= maxChunk[x])
    BY <1>1, <1>4, <1>7 DEF Accepts
  <2>2. a.pc = "announce" => Large(a.type)
    <3>1. a.type \in Kinds /\ TypeList \in Kinds
      BY <2>1, SelectionsAssumption DEF Activities, Kinds
    <3>2. maxChunk[x] \in 1 .. MaxChunk /\ MaxChunk \in Nat
      BY <1>1, SelectionsAssumption DEF Types
    <3>3. Length[a.type] \in Nat /\ Length[TypeList] \in Nat
      BY <3>1, ContentsTypes
    <3> QED
      BY <2>1, <3>2, <3>3 DEF Large
  <2>3. ASSUME NEW p \in Programs
        PROVE  Eased(p)
    <3>1. act'[p].pc \in Asking \cup Ending => act'[p] = act[p]
      BY <2>1 DEF Asking, Ending
    <3>2. \A q \in Programs : Sender(q, p)' /\ act'[q].pc \notin {"whole", "notify"} =>
            \/ Large(act'[q].type)
            \/ Sender(q, p) /\ act[q].pc \notin {"whole", "notify"} /\ act'[q].type = act[q].type
      BY <2>1, <2>2 DEF Sender
    <3> QED
      BY <1>2, <1>7, <2>1, <3>1, <3>2 DEF Eased
  <2> QED
    BY <2>3, EasedKeeps DEF Reasons
<1> QED
  BY <1>5, <1>6, <1>7, DispatchTakes

\* The end of the program that was asked, of the sender, or of the owner is a reason.
LEMMA DieReasons ==
    ASSUME Inv, Reasons, NEW x \in Programs, Die(x)
    PROVE  Reasons'
<1> DEFINE to == {q \in Programs : "structure" \in selected[q][x]}
           d == Destroyed(x)
           q1 == Post(queue, to, d)
<1>1. /\ Types /\ Peers /\ queue \in Queues /\ act \in [Programs -> Activities]
      /\ owner \in [Selections -> Programs \cup {None}]
      /\ prop \in [Programs -> Properties] /\ alive \in [Programs -> BOOLEAN]
      /\ excused \in [Programs -> BOOLEAN]
  BY InvParts DEF Types
<1>2. /\ queue' = [q1 EXCEPT ![x] = <<>>]
      /\ prop' = [prop EXCEPT ![x] = NoProperty]
      /\ alive' = [alive EXCEPT ![x] = FALSE]
      /\ act' = [act EXCEPT ![x] = Idle]
  BY DEF Die
<1>3. /\ owner' = [s \in Selections |-> IF owner[s] = x THEN None ELSE owner[s]]
      /\ excused' = [q \in Programs |->
            /\ q # x
            /\ \/ excused[q] \/ x \in {asked[q], act[q].peer}
               \/ act[q].pc \in Asking /\ owner[act[q].sel] = x]
  BY DEF Die
<1> HIDE DEF to
<1>4. /\ act'[x].pc = "idle"
      /\ \A p \in Programs : p # x =>
            act'[p] = act[p] /\ prop'[p] = prop[p] /\ alive'[p] = alive[p]
  BY <1>1, <1>2, IdleTypes
<1>5. ASSUME NEW p \in Programs, p # x
      PROVE  Untold(p)
  <2>1. d \in Events /\ {d} \cap Notices = {}
    BY EventKinds, Apart
  <2> HIDE DEF d
  <2>2. /\ q1 \in Queues
        /\ From(q1[p], queue[p], IF p \in to /\ alive[p] THEN {d} ELSE {})
    BY <1>1, <2>1, PostSends
  <2> HIDE DEF q1
  <2>3. queue'[p] = q1[p] /\ queue[p] \in Seq(Events) /\ q1[p] \in Seq(Events)
    BY <1>1, <1>2, <1>5, <2>2 DEF Queues
  <2>4. ASSUME NEW k \in DOMAIN q1[p], q1[p][k] \in Notices
        PROVE  \E j \in DOMAIN queue[p] : queue[p][j] = q1[p][k]
    <3> DEFINE E == IF p \in to /\ alive[p] THEN {d} ELSE {}
    <3>1. q1[p][k] \notin E
      BY <2>1, <2>4
    <3>2. From(q1[p], queue[p], E)
      BY <2>2
    <3> HIDE DEF E
    <3> QED
      BY <2>3, <3>1, <3>2, FoundBefore
  <2> QED
    BY <2>3, <2>4 DEF Untold
<1>6. ASSUME NEW p \in Programs
      PROVE  Eased(p)
  <2>1. CASE p = x
    BY <1>4, <2>1 DEF Eased, Asking, Ending
  <2>2. CASE p # x
    <3>1. /\ act'[p] = act[p] /\ prop'[p] = prop[p]
          /\ excused[p] => excused'[p]
          /\ ~ excused'[p] => /\ act[p].peer # x
                              /\ act[p].pc \in Asking => owner[act[p].sel] # x
      BY <1>3, <1>4, <2>2
    <3>2. act[p].pc \in Asking /\ ~ excused'[p] /\ owner[act[p].sel] # None =>
             owner'[act[p].sel] # None
      BY <1>1, <1>3, <3>1 DEF Peers
    <3>3. act[p].pc \in Watching /\ ~ excused'[p] /\ alive[act[p].peer] => alive'[act[p].peer]
      BY <1>1, <1>4, <3>1 DEF Peers
    <3>4. \A q \in Programs : Sender(q, p)' => Sender(q, p) /\ act'[q] = act[q]
      BY <1>4 DEF Sender, Sending
    <3> QED
      BY <1>5, <2>2, <3>1, <3>2, <3>3, <3>4 DEF Eased
  <2> QED
    BY <2>1, <2>2
<1> QED
  BY <1>6, EasedKeeps DEF Reasons

\* Every step keeps that no reason is missing.
LEMMA ReasonsNext ==
    ASSUME ~ Overlaps, Length[TypeList] <= 1, Inv, Reasons, [Next]_vars
    PROVE  Reasons'
<1>1. CASE UNCHANGED vars
  <2>1. UNCHANGED <<owner, prop, queue, act, alive, excused>>
    BY <1>1 DEF vars, server, history
  <2>2. \A p \in Programs : Eased(p)
    BY <2>1, SameUntold DEF Eased, Sender
  <2> QED
    BY <2>2, EasedKeeps DEF Reasons
<1>2. ASSUME NEW x \in Askers, NEW s \in Selections, NEW t \in DOMAIN Length, Request(x, s, t)
      PROVE  Reasons'
  <2>1. x \in Programs /\ t \in Kinds
    BY SelectionsAssumption DEF Kinds
  <2> QED
    BY <1>2, <2>1, RequestReasons DEF Kinds
<1>3. ASSUME NEW x \in Owners, NEW s \in Selections, BecomeOwner(x, s)
      PROVE  Reasons'
  <2>1. x \in Programs
    BY SelectionsAssumption
  <2> QED
    BY <1>3, <2>1, BecomeOwnerReasons
<1>4. ASSUME NEW x \in Programs, Ask(x)
      PROVE  Reasons'
  BY <1>4, NotifiedReasons, DiscardReasons, FetchReasons, FindSenderReasons, SelectReasons,
     SenderGoneReasons, ChunkThereReasons, ReadChunkReasons, UnselectReasons, ReturnReasons DEF Ask
<1>5. ASSUME NEW x \in Programs, Answer(x)
      PROVE  Reasons'
  BY <1>5, SendWholeReasons, SendNotifyReasons, AnnounceReasons, WaitReasons, SendChunkReasons,
     SendEndReasons, FinishReasons DEF Answer
<1>6. ASSUME NEW x \in Programs, Dispatch(x) \/ GiveUp(x) \/ Die(x)
      PROVE  Reasons'
  BY <1>6, DispatchReasons, GiveUpAskingReasons, GiveUpSendingReasons, DieReasons DEF GiveUp
<1> QED
  BY <1>1, <1>2, <1>3, <1>4, <1>5, <1>6 DEF Next

\* GetData and GetAvailableTypes fail only if nobody owned the selection, the owner refused, it
\* or a later owner died, there was no memory, or one side ran out of time; provided that the
\* list of types is no more than one unit, as GetAvailableTypes cannot take it in chunks.
THEOREM FailsForAReason ==
    ~ Overlaps /\ Length[TypeList] <= 1 => (Spec => []NoNeedlessFailure)
<1> SUFFICES ASSUME ~ Overlaps, Length[TypeList] <= 1
             PROVE  Spec => []NoNeedlessFailure
  OBVIOUS
<1>1. Spec => []Inv
  BY Invariance
<1>2. Init => Reasons
  <2> SUFFICES ASSUME Init
               PROVE  Reasons
    OBVIOUS
  <2>1. \A p \in Programs : act[p].pc = "idle"
    BY IdleTypes DEF Init
  <2> QED
    BY <2>1 DEF Reasons, Excuses, Asking, Ending
<1>3. Inv /\ Reasons /\ [Next]_vars => Reasons'
  BY ReasonsNext
<1>4. Reasons => NoNeedlessFailure
  BY DEF Reasons, Excuses, NoNeedlessFailure, Ending
<1> QED
  BY <1>1, <1>2, <1>3, <1>4, PTL DEF Spec
=============================================================================
