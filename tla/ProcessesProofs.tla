--------------------------- MODULE ProcessesProofs ---------------------------
(***************************************************************************)
(* Proofs about Processes, for any number of children and objects, any     *)
(* pids, and listeners that nest to any depth.                             *)
(*                                                                         *)
(* BaseInv says that the pid an object holds is its own child's for as     *)
(* long as the kernel knows the number: no signal goes astray.  ToldInv    *)
(* says that whoever a call is yet to tell has not been told, is in no     *)
(* other call, and has a child that is gone; and that nobody whose child   *)
(* is gone has been forgotten.  The exit is heard once because a child is  *)
(* reaped once.                                                            *)
(***************************************************************************)
EXTENDS Processes, CursorLemmas, FiniteSetTheorems

Statuses == Children \cup {Nobody}

Calls == [list : Seq(Objects), i : Nat, status : Statuses, auto : BOOLEAN,
          pc : {"next", "telling"}]

VariableTypes ==
    /\ state \in [Children -> {"unborn", "starting", "running", "zombie", "gone"}]
    /\ number \in [Children -> Nat]
    /\ life \in [Objects -> {"unborn", "alive", "deleted"}]
    /\ pid \in [Objects -> Pids \cup {0}]
    /\ of \in [Objects -> Statuses]
    /\ heard \in [Objects -> Seq(Statuses)]
    /\ autoDelete \in [Objects -> BOOLEAN]

StackTypes ==
    /\ stack \in Seq(Calls) /\ Len(stack) <= MaxDepth
    /\ \A d \in 1 .. Len(stack) :
          /\ stack[d].i <= Len(stack[d].list)
          /\ stack[d].pc = "telling" => stack[d].i >= 1

Types == VariableTypes /\ StackTypes

\* A number is one child's at a time, and whoever holds it is for that child.
KernelOK ==
    /\ \A c \in Children : Has(c) => number[c] \in Pids
    /\ \A c, d \in Children : Has(c) /\ Has(d) /\ number[c] = number[d] => c = d
    /\ \A o \in Alive : \A c \in Children : Has(c) /\ number[c] = pid[o] => of[o] = c
    /\ \A o \in Objects : life[o] = "unborn" => pid[o] = 0 /\ of[o] = Nobody

ListsOK ==
    /\ quitList \cup killList \subseteq Alive
    /\ quitList \cap killList = {}

BaseInv == Types /\ KernelOK /\ ListsOK

\* Call d will tell the object at place k of its list.
ToTell(d, k) == d \in 1 .. Len(stack) /\ k \in stack[d].i + 1 .. Len(stack[d].list)

Waiting(o) == \E d, k \in Nat : ToTell(d, k) /\ stack[d].list[k] = o

\* Whoever is yet to be told has not been told, and is so in one place only.
WaitingOK ==
    \A d, k \in Nat : ToTell(d, k) =>
        /\ heard[stack[d].list[k]] = <<>>
        /\ of[stack[d].list[k]] = stack[d].status
        /\ life[stack[d].list[k]] # "unborn"
        /\ \A e, l \in Nat : ToTell(e, l) /\ stack[e].list[l] = stack[d].list[k] => e = d /\ l = k

\* Whoever is behind the cursor of a call has been told.
ToldOK ==
    \A d \in 1 .. Len(stack) : \A k \in 1 .. stack[d].i : heard[stack[d].list[k]] # <<>>

HeardOK ==
    \A o \in Objects :
        /\ heard[o] = <<>> \/ heard[o] = <<of[o]>>
        /\ life[o] = "unborn" => heard[o] = <<>>

\* The child is gone once an object is told or about to be, and then none is forgotten.
GoneOK ==
    \A o \in Objects : of[o] \in Children =>
        /\ life[o] # "unborn"
        /\ number[of[o]] = pid[o] /\ state[of[o]] # "unborn"
        /\ heard[o] # <<>> \/ Waiting(o) => state[of[o]] = "gone"
        /\ life[o] = "alive" /\ state[of[o]] = "gone" => heard[o] # <<>> \/ Waiting(o)

ToldInv == WaitingOK /\ ToldOK /\ HeardOK /\ GoneOK

AliveInv == \A o \in Objects : Waiting(o) => life[o] = "alive"

-----------------------------------------------------------------------------
(* The calls that are telling objects.                                     *)

\* The running call.
LEMMA TopFacts ==
    ASSUME Types, stack # <<>>
    PROVE  /\ Len(stack) \in Nat /\ Len(stack) >= 1 /\ Len(stack) \in 1 .. Len(stack)
           /\ Top = stack[Len(stack)] /\ Top \in Calls
           /\ Top.i <= Len(Top.list) /\ (Top.pc = "telling" => Top.i >= 1)
           /\ \A d \in 1 .. Len(stack) : stack[d] \in Calls
           /\ \A d \in 1 .. Len(stack) - 1 : d \in 1 .. Len(stack) /\ d # Len(stack)
           /\ \A d \in 1 .. Len(stack) : d = Len(stack) \/ d \in 1 .. Len(stack) - 1
<1>1. /\ Len(stack) \in Nat /\ Len(stack) >= 1
      /\ \A d \in 1 .. Len(stack) : stack[d] \in Calls
  BY LenProperties, ElementOfSeq, EmptySeq DEF Types, StackTypes
<1>2. Len(stack) \in 1 .. Len(stack) /\ Top = stack[Len(stack)]
  BY <1>1 DEF Top, Last
<1>3. Top.i <= Len(Top.list) /\ (Top.pc = "telling" => Top.i >= 1)
  BY <1>2 DEF Types, StackTypes
<1> QED
  BY <1>1, <1>2, <1>3

\* The fields of a call.
LEMMA CallFields ==
    ASSUME NEW f \in Calls
    PROVE  /\ f.list \in Seq(Objects) /\ Len(f.list) \in Nat /\ f.i \in Nat
           /\ f.status \in Statuses /\ f.auto \in BOOLEAN /\ f.pc \in {"next", "telling"}
           /\ \A k \in 1 .. Len(f.list) : f.list[k] \in Objects
BY LenProperties, ElementOfSeq DEF Calls

\* A call begins.
LEMMA TellingShape ==
    ASSUME Types, NEW list \in Seq(Objects), NEW status \in Statuses, Telling(list, status)
    PROVE  /\ stack' \in Seq(Calls) /\ Len(stack') = Len(stack) + 1
           /\ stack'[Len(stack) + 1] = [list |-> list, i |-> 0, status |-> status,
                                         auto |-> FALSE, pc |-> "next"]
           /\ \A d \in 1 .. Len(stack) : stack'[d] = stack[d]
<1> DEFINE f == [list |-> list, i |-> 0, status |-> status, auto |-> FALSE, pc |-> "next"]
<1>1. f \in Calls
  BY DEF Calls
<1>2. stack' = Append(stack, f) /\ stack \in Seq(Calls)
  BY DEF Telling, Types, StackTypes
<1> HIDE DEF f
<1>3. /\ Append(stack, f) \in Seq(Calls) /\ Len(Append(stack, f)) = Len(stack) + 1
      /\ Append(stack, f)[Len(stack) + 1] = f
      /\ \A d \in 1 .. Len(stack) : Append(stack, f)[d] = stack[d]
  BY <1>1, <1>2, AppendProperties
<1>4. /\ stack' \in Seq(Calls) /\ Len(stack') = Len(stack) + 1 /\ stack'[Len(stack) + 1] = f
      /\ \A d \in 1 .. Len(stack) : stack'[d] = stack[d]
  BY <1>2, <1>3
<1> QED
  BY <1>4 DEF f

\* The running call goes on.
LEMMA TopShape ==
    ASSUME Types, stack # <<>>, NEW f \in Calls, stack' = Front(stack) \o <<f>>
    PROVE  /\ stack' \in Seq(Calls) /\ Len(stack') = Len(stack)
           /\ stack'[Len(stack)] = f
           /\ \A d \in 1 .. Len(stack) - 1 : stack'[d] = stack[d]
<1>1. stack \in Seq(Calls)
  BY DEF Types, StackTypes
<1> DEFINE su == Front(stack) \o <<f>>
<1>2. /\ su \in Seq(Calls) /\ Len(su) = Len(stack) /\ su[Len(stack)] = f
      /\ \A d \in 1 .. Len(stack) - 1 : su[d] = stack[d]
  BY <1>1, FrontProperties
<1> HIDE DEF su
<1>3. stack' = su
  BY DEF su
<1> QED
  BY <1>2, <1>3

\* The running call returns.
LEMMA PopShape ==
    ASSUME Types, stack # <<>>, stack' = Front(stack)
    PROVE  /\ stack' \in Seq(Calls) /\ Len(stack') = Len(stack) - 1
           /\ \A d \in 1 .. Len(stack) - 1 : stack'[d] = stack[d]
<1>1. stack \in Seq(Calls) /\ Top \in Calls
  BY TopFacts DEF Types, StackTypes
<1> DEFINE su == Front(stack)
<1>2. /\ su \in Seq(Calls) /\ Len(su) = Len(stack) - 1
      /\ \A d \in 1 .. Len(stack) - 1 : su[d] = stack[d]
  BY <1>1, FrontProperties
<1> HIDE DEF su
<1>3. stack' = su
  BY DEF su
<1> QED
  BY <1>2, <1>3

\* What Tell and Told do to the running call.
LEMMA TellTop ==
    ASSUME NEW f \in Calls, NEW a \in BOOLEAN, NEW g,
           g = [f EXCEPT !.i = @ + 1, !.auto = a, !.pc = "telling"]
    PROVE  /\ g \in Calls
           /\ g.list = f.list /\ g.i = f.i + 1 /\ g.status = f.status /\ g.pc = "telling"
<1> DEFINE f1 == [f EXCEPT !.i = @ + 1]
           f2 == [f1 EXCEPT !.auto = a]
           f3 == [f2 EXCEPT !.pc = "telling"]
<1>1. f.i \in Nat
  BY DEF Calls
<1>2. f1 \in Calls
  BY <1>1 DEF Calls
<1> HIDE DEF f1
<1>3. f2 \in Calls
  BY <1>2 DEF Calls
<1> HIDE DEF f2
<1>4. f3 \in Calls
  BY <1>3 DEF Calls
<1>5. f3 = g
  BY DEF f1, f2
<1> QED
  BY <1>4, <1>5 DEF Calls

\* The call that has told its child goes on to the next one.
LEMMA ToldTop ==
    ASSUME NEW f \in Calls, NEW g, g = [f EXCEPT !.auto = FALSE, !.pc = "next"]
    PROVE  /\ g \in Calls
           /\ g.list = f.list /\ g.i = f.i /\ g.status = f.status /\ g.pc = "next"
<1> DEFINE f1 == [f EXCEPT !.auto = FALSE]
           f2 == [f1 EXCEPT !.pc = "next"]
<1>1. f1 \in Calls
  BY DEF Calls
<1> HIDE DEF f1
<1>2. f2 \in Calls
  BY <1>1 DEF Calls
<1>3. f2 = g
  BY DEF f1
<1> QED
  BY <1>2, <1>3 DEF Calls

\* The list that SamePid makes holds every object of S once.
LEMMA SeqsOfSet ==
    ASSUME NEW S, IsFiniteSet(S), NEW list \in SetToSeqs(S)
    PROVE  /\ list \in Seq(S)
           /\ \A j, k \in 1 .. Len(list) : list[j] = list[k] => j = k
           /\ \A x \in S : \E k \in 1 .. Len(list) : list[k] = x
<1> DEFINE n == Cardinality(S)
<1>1. n \in Nat
  BY FS_CardinalityType
<1>2. list \in [1 .. n -> S] /\ \A j, k \in 1 .. n : j # k => list[j] # list[k]
  BY DEF SetToSeqs
<1> HIDE DEF n
<1>3. list \in Seq(S) /\ Len(list) = n /\ DOMAIN list = 1 .. n
  BY <1>1, <1>2, FunctionIsSeq
<1>4. list \in Injection(1 .. n, S)
  BY <1>2 DEF Injection, IsInjective
<1>5. Cardinality(1 .. n) = n
  BY <1>1, FS_Interval
<1>6. list \in Surjection(1 .. n, S)
  BY <1>4, <1>5, FS_Injection DEF n
<1> QED
  BY <1>2, <1>3, <1>6 DEF Surjection

-----------------------------------------------------------------------------
(* The numbers, the lists and the types.                                   *)

\* A number stays an object's child's when no child is born and no object made.
LEMMA KernelKept ==
    ASSUME KernelOK, UNCHANGED <<number, pid, of>>,
           \A c \in Children : Has(c)' => Has(c),
           \A o \in Objects : life'[o] = life[o] \/ life'[o] = "deleted"
    PROVE  KernelOK'
<1>1. \A c \in Children : Has(c)' => number'[c] \in Pids
  BY DEF KernelOK
<1>2. \A c, d \in Children : Has(c)' /\ Has(d)' /\ number'[c] = number'[d] => c = d
  BY DEF KernelOK
<1>3. \A o \in Alive' : o \in Alive
  BY DEF Alive
<1>4. \A o \in Alive' : \A c \in Children : Has(c)' /\ number'[c] = pid'[o] => of'[o] = c
  BY <1>3 DEF KernelOK
<1>5. \A o \in Objects : life'[o] = "unborn" => pid'[o] = 0 /\ of'[o] = Nobody
  BY DEF KernelOK
<1> QED
  BY <1>1, <1>2, <1>4, <1>5 DEF KernelOK

\* A call that finds its bound keeps the stack in its type.
LEMMA TellingTyped ==
    ASSUME Types, ProcessesAssumption, NEW list \in Seq(Objects), NEW status \in Statuses,
           Telling(list, status), Len(stack) < MaxDepth
    PROVE  StackTypes'
<1> DEFINE n == Len(stack)
           f == [list |-> list, i |-> 0, status |-> status, auto |-> FALSE, pc |-> "next"]
<1>1. /\ stack' \in Seq(Calls) /\ Len(stack') = n + 1 /\ stack'[n + 1] = f
      /\ \A d \in 1 .. n : stack'[d] = stack[d]
  BY TellingShape
<1>2. n \in Nat /\ n + 1 <= MaxDepth /\ Len(list) \in Nat
  BY LenProperties DEF Types, StackTypes, ProcessesAssumption
<1>3. f.i <= Len(f.list) /\ f.pc # "telling"
  BY <1>2
<1>4. \A d \in 1 .. n : stack[d].i <= Len(stack[d].list) /\ (stack[d].pc = "telling" => stack[d].i >= 1)
  BY DEF Types, StackTypes
<1> HIDE DEF n, f
<1>5. \A d \in 1 .. n + 1 : d \in 1 .. n \/ d = n + 1
  BY <1>2
<1>6. \A d \in 1 .. n + 1 : stack'[d].i <= Len(stack'[d].list)
                            /\ (stack'[d].pc = "telling" => stack'[d].i >= 1)
  BY <1>1, <1>3, <1>4, <1>5
<1> QED
  BY <1>1, <1>2, <1>6 DEF StackTypes

\* The running call is replaced by f.
LEMMA TopTyped ==
    ASSUME Types, stack # <<>>, NEW f \in Calls, stack' = Front(stack) \o <<f>>,
           f.i <= Len(f.list), f.pc = "telling" => f.i >= 1
    PROVE  StackTypes'
<1> DEFINE n == Len(stack)
<1>1. /\ stack' \in Seq(Calls) /\ Len(stack') = n /\ stack'[n] = f
      /\ \A d \in 1 .. n - 1 : stack'[d] = stack[d]
  BY TopShape
<1>2. /\ \A d \in 1 .. n - 1 : d \in 1 .. n /\ d # n
      /\ \A d \in 1 .. n : d = n \/ d \in 1 .. n - 1
  BY TopFacts
<1>3. /\ \A d \in 1 .. n : stack[d].i <= Len(stack[d].list) /\ (stack[d].pc = "telling" => stack[d].i >= 1)
      /\ n <= MaxDepth
  BY DEF Types, StackTypes
<1> HIDE DEF n
<1>4. \A d \in 1 .. n : stack'[d].i <= Len(stack'[d].list)
                            /\ (stack'[d].pc = "telling" => stack'[d].i >= 1)
  BY <1>1, <1>2, <1>3
<1> QED
  BY <1>1, <1>3, <1>4 DEF StackTypes

\* Tell keeps the types.
LEMMA TellTyped ==
    ASSUME Types, Tell
    PROVE  StackTypes' /\ heard' \in [Objects -> Seq(Statuses)]
<1> DEFINE o == Top.list[Top.i + 1]
           f == [Top EXCEPT !.i = @ + 1, !.auto = autoDelete[o], !.pc = "telling"]
<1>1. Top \in Calls /\ Top.i < Len(Top.list) /\ stack # <<>>
  BY TopFacts DEF Tell
<1>2. /\ Len(Top.list) \in Nat /\ Top.i \in Nat /\ Top.status \in Statuses
      /\ \A k \in 1 .. Len(Top.list) : Top.list[k] \in Objects
  BY <1>1, CallFields
<1>3. o \in Objects
  BY <1>1, <1>2
<1>4. /\ heard' = [heard EXCEPT ![o] = Append(@, Top.status)]
      /\ stack' = Front(stack) \o <<f>>
  BY DEF Tell
<1> HIDE DEF o
<1>5. autoDelete[o] \in BOOLEAN
  BY <1>3 DEF Types, VariableTypes
<1>6. f \in Calls /\ f.list = Top.list /\ f.i = Top.i + 1
  BY <1>1, <1>5, TellTop
<1> HIDE DEF f
<1>7. f.i <= Len(f.list) /\ f.i >= 1
  BY <1>1, <1>2, <1>6
<1>8. StackTypes'
  BY <1>1, <1>4, <1>6, <1>7, TopTyped
<1>9. heard' \in [Objects -> Seq(Statuses)]
  BY <1>2, <1>4, AppendProperties DEF Types, VariableTypes
<1> QED
  BY <1>8, <1>9

\* Told keeps the types.
LEMMA ToldTyped ==
    ASSUME Types, Told
    PROVE  StackTypes'
<1> DEFINE f == [Top EXCEPT !.auto = FALSE, !.pc = "next"]
<1>1. Top \in Calls /\ Top.i <= Len(Top.list) /\ stack # <<>>
  BY TopFacts DEF Told
<1>2. stack' = Front(stack) \o <<f>>
  BY DEF Told
<1>3. f \in Calls /\ f.list = Top.list /\ f.i = Top.i /\ f.pc = "next"
  BY <1>1, ToldTop
<1> HIDE DEF f
<1>4. f.i <= Len(f.list) /\ f.pc # "telling"
  BY <1>1, <1>3
<1> QED
  BY <1>1, <1>2, <1>3, <1>4, TopTyped

\* AllTold keeps the types.
LEMMA AllToldTyped ==
    ASSUME Types, ProcessesAssumption, AllTold
    PROVE  StackTypes'
<1> DEFINE n == Len(stack)
<1>1. stack # <<>> /\ stack' = Front(stack)
  BY DEF AllTold
<1>2. /\ stack' \in Seq(Calls) /\ Len(stack') = n - 1
      /\ \A d \in 1 .. n - 1 : stack'[d] = stack[d]
  BY <1>1, PopShape
<1>3. n \in Nat /\ n >= 1 /\ \A d \in 1 .. n - 1 : d \in 1 .. n
  BY <1>1, TopFacts
<1>4. /\ \A d \in 1 .. n : stack[d].i <= Len(stack[d].list) /\ (stack[d].pc = "telling" => stack[d].i >= 1)
      /\ n <= MaxDepth
  BY DEF Types, StackTypes
<1> HIDE DEF n
<1>5. n - 1 <= MaxDepth
  BY <1>3, <1>4 DEF ProcessesAssumption
<1>6. \A d \in 1 .. n - 1 : stack'[d].i <= Len(stack'[d].list)
                            /\ (stack'[d].pc = "telling" => stack'[d].i >= 1)
  BY <1>2, <1>3, <1>4
<1> QED
  BY <1>2, <1>5, <1>6 DEF StackTypes

\* The child that the kernel finds for a number.
LEMMA Named1Facts ==
    ASSUME NEW n
    PROVE  /\ Named(n) = {} => Named1(n) = Nobody
           /\ Named(n) # {} => Named1(n) \in Named(n) /\ Named1(n) \in Children
           /\ Named1(n) \in Statuses
<1>1. Named(n) # {} => Named1(n) \in Named(n)
  BY DEF Named1
<1> QED
  BY <1>1 DEF Named1, Named, Statuses

\* Create keeps the base invariant.
LEMMA CreateBase ==
    ASSUME BaseInv, ProcessesAssumption, NEW o \in Objects, NEW c \in Children, NEW n \in Pids,
           Create(o, c, n)
    PROVE  BaseInv'
<1> DEFINE f == [x \in {c} |-> n]
<1>1. /\ state[c] = "unborn" /\ Named(n) = {} /\ \A p \in Alive : pid[p] # n
      /\ state' = [d \in Children |-> IF d \in DOMAIN f THEN "starting" ELSE state[d]]
      /\ number' = [d \in Children |-> IF d \in DOMAIN f THEN f[d] ELSE number[d]]
  BY DEF Create, Fork, Free
<1>2. /\ state' = [d \in Children |-> IF d = c THEN "starting" ELSE state[d]]
      /\ number' = [d \in Children |-> IF d = c THEN n ELSE number[d]]
  BY <1>1
<1>3. /\ life[o] = "unborn"
      /\ life' = [life EXCEPT ![o] = "alive"]
      /\ pid' = [pid EXCEPT ![o] = n] /\ of' = [of EXCEPT ![o] = c]
      /\ UNCHANGED <<autoDelete, heard, stack, killList>> /\ quitList' = quitList \cup {o}
  BY DEF Create, Construct
<1>4. Types /\ KernelOK /\ ListsOK /\ n \in Nat /\ n \in Pids \cup {0}
  BY DEF BaseInv, ProcessesAssumption
<1>5. VariableTypes'
  BY <1>2, <1>3, <1>4 DEF Types, VariableTypes, Statuses
<1>6. StackTypes'
  BY <1>3, <1>4 DEF Types, StackTypes
<1>7. \A d \in Children : Has(d)' => d = c \/ Has(d)
  BY <1>2 DEF Has
<1>8. \A d \in Children : d # c => number'[d] = number[d] /\ (Has(d) => number[d] # n)
  BY <1>1, <1>2 DEF Named
<1>9. number'[c] = n /\ pid'[o] = n /\ of'[o] = c
  BY <1>2, <1>3, <1>4 DEF Types, VariableTypes
<1>10. \A p \in Objects : p # o => life'[p] = life[p] /\ pid'[p] = pid[p] /\ of'[p] = of[p]
  BY <1>3, <1>4 DEF Types, VariableTypes
<1>11. life'[o] = "alive" /\ o \notin Alive /\ Alive' = Alive \cup {o}
  BY <1>3, <1>4 DEF Alive, Types, VariableTypes
<1>12. KernelOK'
  <2>1. \A d \in Children : Has(d)' => number'[d] \in Pids
    BY <1>4, <1>7, <1>8, <1>9 DEF KernelOK
  <2>2. \A d, e \in Children : Has(d)' /\ Has(e)' /\ number'[d] = number'[e] => d = e
    BY <1>4, <1>7, <1>8, <1>9 DEF KernelOK
  <2>3. \A p \in Alive' : \A d \in Children : Has(d)' /\ number'[d] = pid'[p] => of'[p] = d
    <3> SUFFICES ASSUME NEW p \in Alive', NEW d \in Children, Has(d)', number'[d] = pid'[p]
                 PROVE  of'[p] = d
      OBVIOUS
    <3>1. CASE p = o
      <4>1. number'[d] = n
        BY <3>1, <1>9
      <4> QED
        BY <4>1, <3>1, <1>7, <1>8, <1>9
    <3>2. CASE p # o
      <4>1. p \in Alive /\ p \in Objects
        BY <3>2, <1>11 DEF Alive
      <4>2. pid'[p] = pid[p] /\ of'[p] = of[p] /\ pid[p] # n
        BY <3>2, <4>1, <1>10, <1>1
      <4>3. d # c
        BY <4>2, <1>9
      <4> QED
        BY <4>1, <4>2, <4>3, <1>4, <1>7, <1>8 DEF KernelOK
    <3> QED
      BY <3>1, <3>2
  <2>4. \A p \in Objects : life'[p] = "unborn" => pid'[p] = 0 /\ of'[p] = Nobody
    BY <1>4, <1>10, <1>11 DEF KernelOK
  <2> QED
    BY <2>1, <2>2, <2>3, <2>4 DEF KernelOK
<1>13. ListsOK'
  BY <1>3, <1>4, <1>11 DEF ListsOK
<1> QED
  BY <1>5, <1>6, <1>12, <1>13 DEF BaseInv, Types

\* Attach keeps the base invariant.
LEMMA AttachBase ==
    ASSUME BaseInv, NEW o \in Objects, NEW p \in Objects, Attach(o, p)
    PROVE  BaseInv'
<1> DEFINE n == pid[p]
           c == Named1(n)
<1>1. /\ p \in Alive /\ Named(n) # {} /\ UNCHANGED <<state, number>>
      /\ life[o] = "unborn"
      /\ life' = [life EXCEPT ![o] = "alive"]
      /\ pid' = [pid EXCEPT ![o] = n] /\ of' = [of EXCEPT ![o] = c]
      /\ UNCHANGED <<autoDelete, heard, stack, killList>> /\ quitList' = quitList \cup {o}
  BY DEF Attach, Construct, kernelVars
<1>2. c \in Children /\ Has(c) /\ number[c] = n
  BY <1>1, Named1Facts DEF Named
<1>3. Types /\ KernelOK /\ ListsOK /\ n \in Pids \cup {0}
  BY <1>1 DEF BaseInv, Types, VariableTypes
<1> HIDE DEF c, n
<1>5. VariableTypes'
  BY <1>1, <1>2, <1>3 DEF Types, VariableTypes, Statuses
<1>6. StackTypes'
  BY <1>1, <1>3 DEF Types, StackTypes
<1>9. pid'[o] = n /\ of'[o] = c
  BY <1>1, <1>3 DEF Types, VariableTypes
<1>10. \A q \in Objects : q # o => life'[q] = life[q] /\ pid'[q] = pid[q] /\ of'[q] = of[q]
  BY <1>1, <1>3 DEF Types, VariableTypes
<1>11. life'[o] = "alive" /\ o \notin Alive /\ Alive' = Alive \cup {o}
  BY <1>1, <1>3 DEF Alive, Types, VariableTypes
<1>12. KernelOK'
  <2>0. \A d \in Children : (Has(d)' <=> Has(d)) /\ number'[d] = number[d]
    BY <1>1 DEF Has
  <2>1. \A d \in Children : Has(d)' => number'[d] \in Pids
    BY <1>3, <2>0 DEF KernelOK
  <2>2. \A d, e \in Children : Has(d)' /\ Has(e)' /\ number'[d] = number'[e] => d = e
    BY <1>3, <2>0 DEF KernelOK
  <2>3. \A q \in Alive' : \A d \in Children : Has(d)' /\ number'[d] = pid'[q] => of'[q] = d
    <3> SUFFICES ASSUME NEW q \in Alive', NEW d \in Children, Has(d)', number'[d] = pid'[q]
                 PROVE  of'[q] = d
      OBVIOUS
    <3>1. CASE q = o
      BY <3>1, <2>0, <1>2, <1>3, <1>9 DEF KernelOK
    <3>2. CASE q # o
      <4>1. q \in Alive /\ q \in Objects
        BY <3>2, <1>11 DEF Alive
      <4> QED
        BY <4>1, <3>2, <2>0, <1>3, <1>10 DEF KernelOK
    <3> QED
      BY <3>1, <3>2
  <2>4. \A q \in Objects : life'[q] = "unborn" => pid'[q] = 0 /\ of'[q] = Nobody
    BY <1>3, <1>10, <1>11 DEF KernelOK
  <2> QED
    BY <2>1, <2>2, <2>3, <2>4 DEF KernelOK
<1>13. ListsOK'
  BY <1>1, <1>3, <1>11 DEF ListsOK
<1> QED
  BY <1>5, <1>6, <1>12, <1>13 DEF BaseInv, Types

\* The outcomes of CreateWithHelper: the helper's fork succeeds or fails.
BothForked(o, c, n, h, d, m) ==
    /\ Fork([x \in {c, d} |-> IF x = c THEN n ELSE m])
    /\ pid' = [pid EXCEPT ![o] = n, ![h] = m]
    /\ of' = [of EXCEPT ![o] = c, ![h] = d]

OneForked(o, c, n) ==
    /\ Fork([x \in {c} |-> n])
    /\ pid' = [pid EXCEPT ![o] = n]
    /\ of' = [of EXCEPT ![o] = c]

\* Both children are forked.
LEMMA HelperBase ==
    ASSUME BaseInv, ProcessesAssumption, NEW o \in Objects, NEW c \in Children, NEW n \in Pids,
           NEW h \in Objects, NEW d \in Children, NEW m \in Pids,
           CreateWithHelper(o, c, n, h, d, m), BothForked(o, c, n, h, d, m)
    PROVE  BaseInv'
<1>0. /\ c # d /\ n # m /\ o # h
      /\ life[o] = "unborn" /\ life[h] = "unborn"
      /\ life' = [life EXCEPT ![o] = "alive", ![h] = "alive"]
      /\ pid' = [pid EXCEPT ![o] = n, ![h] = m] /\ of' = [of EXCEPT ![o] = c, ![h] = d]
      /\ quitList' = quitList \cup {o} /\ killList' = killList \cup {h}
      /\ UNCHANGED <<autoDelete, heard, stack>>
  BY DEF CreateWithHelper, BothForked
<1> DEFINE f == [x \in {c, d} |-> IF x = c THEN n ELSE m]
<1>1. /\ \A x \in {c, d} : state[x] = "unborn" /\ Free(f[x])
      /\ state' = [x \in Children |-> IF x \in {c, d} THEN "starting" ELSE state[x]]
      /\ number' = [x \in Children |-> IF x \in {c, d} THEN f[x] ELSE number[x]]
  BY DEF BothForked, Fork
<1>2. f[c] = n /\ f[d] = m
  BY <1>0
<1>3. /\ Named(n) = {} /\ Named(m) = {}
      /\ \A p \in Alive : pid[p] # n /\ pid[p] # m
  BY <1>1, <1>2 DEF Free
<1>4. number' = [x \in Children |-> IF x = c THEN n ELSE IF x = d THEN m ELSE number[x]]
  BY <1>1
<1>5. Types /\ KernelOK /\ ListsOK /\ {n, m} \subseteq Nat /\ {n, m} \subseteq Pids \cup {0}
  BY DEF BaseInv, ProcessesAssumption
<1>6. VariableTypes'
  BY <1>1, <1>0, <1>4, <1>5 DEF Types, VariableTypes, Statuses
<1>7. StackTypes'
  BY <1>0, <1>5 DEF Types, StackTypes
<1>8. \A x \in Children : Has(x)' => x = c \/ x = d \/ Has(x)
  BY <1>1 DEF Has
<1>9. \A x \in Children : x # c /\ x # d =>
          number'[x] = number[x] /\ (Has(x) => number[x] # n /\ number[x] # m)
  BY <1>3, <1>4 DEF Named
<1>10. /\ number'[c] = n /\ pid'[o] = n /\ of'[o] = c
       /\ number'[d] = m /\ pid'[h] = m /\ of'[h] = d
  BY <1>0, <1>4, <1>5 DEF Types, VariableTypes
<1>11. \A p \in Objects : p # o /\ p # h => life'[p] = life[p] /\ pid'[p] = pid[p] /\ of'[p] = of[p]
  BY <1>0, <1>5 DEF Types, VariableTypes
<1>12. /\ life'[o] = "alive" /\ life'[h] = "alive" /\ Alive' = Alive \cup {o, h}
       /\ o \notin Alive /\ h \notin Alive
  BY <1>0, <1>5 DEF Alive, Types, VariableTypes
<1> HIDE DEF f
<1>13. KernelOK'
  <2>1. \A x \in Children : Has(x)' => number'[x] \in Pids
    BY <1>0, <1>5, <1>8, <1>9, <1>10 DEF KernelOK
  <2>2. \A x, y \in Children : Has(x)' /\ Has(y)' /\ number'[x] = number'[y] => x = y
    BY <1>0, <1>5, <1>8, <1>9, <1>10 DEF KernelOK
  <2>3. \A p \in Alive' : \A x \in Children : Has(x)' /\ number'[x] = pid'[p] => of'[p] = x
    <3> SUFFICES ASSUME NEW p \in Alive', NEW x \in Children, Has(x)', number'[x] = pid'[p]
                 PROVE  of'[p] = x
      OBVIOUS
    <3>1. CASE p = o
      <4>1. number'[x] = n
        BY <3>1, <1>10
      <4> QED
        BY <4>1, <3>1, <1>0, <1>8, <1>9, <1>10
    <3>2. CASE p = h
      <4>1. number'[x] = m
        BY <3>2, <1>10
      <4> QED
        BY <4>1, <3>2, <1>0, <1>8, <1>9, <1>10
    <3>3. CASE p # o /\ p # h
      <4>1. p \in Alive /\ p \in Objects
        BY <3>3, <1>12 DEF Alive
      <4>2. pid'[p] = pid[p] /\ of'[p] = of[p] /\ pid[p] # n /\ pid[p] # m
        BY <3>3, <4>1, <1>11, <1>3
      <4>3. x # c /\ x # d
        BY <4>2, <1>10
      <4> QED
        BY <4>1, <4>2, <4>3, <1>5, <1>8, <1>9 DEF KernelOK
    <3> QED
      BY <3>1, <3>2, <3>3
  <2>4. \A p \in Objects : life'[p] = "unborn" => pid'[p] = 0 /\ of'[p] = Nobody
    BY <1>5, <1>11, <1>12 DEF KernelOK
  <2> QED
    BY <2>1, <2>2, <2>3, <2>4 DEF KernelOK
<1>14. ListsOK'
  BY <1>0, <1>5, <1>12 DEF ListsOK
<1> QED
  BY <1>6, <1>7, <1>13, <1>14 DEF BaseInv, Types

\* The helper's fork fails, and its object has no child.
LEMMA LoneBase ==
    ASSUME BaseInv, ProcessesAssumption, NEW o \in Objects, NEW c \in Children, NEW n \in Pids,
           NEW h \in Objects, NEW d \in Children, NEW m \in Pids,
           CreateWithHelper(o, c, n, h, d, m), OneForked(o, c, n)
    PROVE  BaseInv'
<1>0. /\ o # h /\ life[o] = "unborn" /\ life[h] = "unborn"
      /\ life' = [life EXCEPT ![o] = "alive", ![h] = "alive"]
      /\ pid' = [pid EXCEPT ![o] = n] /\ of' = [of EXCEPT ![o] = c]
      /\ quitList' = quitList \cup {o} /\ killList' = killList \cup {h}
      /\ UNCHANGED <<autoDelete, heard, stack>>
  BY DEF CreateWithHelper, OneForked
<1> DEFINE f == [x \in {c} |-> n]
<1>1. /\ state[c] = "unborn" /\ Named(n) = {} /\ \A p \in Alive : pid[p] # n
      /\ state' = [x \in Children |-> IF x \in DOMAIN f THEN "starting" ELSE state[x]]
      /\ number' = [x \in Children |-> IF x \in DOMAIN f THEN f[x] ELSE number[x]]
  BY DEF OneForked, Fork, Free
<1>2. /\ state' = [x \in Children |-> IF x = c THEN "starting" ELSE state[x]]
      /\ number' = [x \in Children |-> IF x = c THEN n ELSE number[x]]
  BY <1>1
<1>3. Types /\ KernelOK /\ ListsOK /\ n \in Nat /\ n \in Pids \cup {0} /\ 0 \notin Pids
  BY DEF BaseInv, ProcessesAssumption
<1>4. VariableTypes'
  BY <1>0, <1>2, <1>3 DEF Types, VariableTypes, Statuses
<1>5. StackTypes'
  BY <1>0, <1>3 DEF Types, StackTypes
<1>6. \A x \in Children : Has(x)' => x = c \/ Has(x)
  BY <1>2 DEF Has
<1>7. \A x \in Children : x # c => number'[x] = number[x] /\ (Has(x) => number[x] # n)
  BY <1>1, <1>2 DEF Named
<1>8. number'[c] = n /\ pid'[o] = n /\ of'[o] = c
  BY <1>0, <1>2, <1>3 DEF Types, VariableTypes
<1>9. \A p \in Objects : p # o => pid'[p] = pid[p] /\ of'[p] = of[p] /\ (p # h => life'[p] = life[p])
  BY <1>0, <1>3 DEF Types, VariableTypes
<1>10. /\ life'[o] = "alive" /\ life'[h] = "alive" /\ Alive' = Alive \cup {o, h}
       /\ o \notin Alive /\ h \notin Alive
  BY <1>0, <1>3 DEF Alive, Types, VariableTypes
<1>11. pid'[h] = 0
  BY <1>0, <1>3, <1>9 DEF KernelOK
<1> HIDE DEF f
<1>13. KernelOK'
  <2>1. \A x \in Children : Has(x)' => number'[x] \in Pids
    BY <1>3, <1>6, <1>7, <1>8 DEF KernelOK
  <2>2. \A x, y \in Children : Has(x)' /\ Has(y)' /\ number'[x] = number'[y] => x = y
    BY <1>3, <1>6, <1>7, <1>8 DEF KernelOK
  <2>3. \A p \in Alive' : \A x \in Children : Has(x)' /\ number'[x] = pid'[p] => of'[p] = x
    <3> SUFFICES ASSUME NEW p \in Alive', NEW x \in Children, Has(x)', number'[x] = pid'[p]
                 PROVE  of'[p] = x
      OBVIOUS
    <3>1. CASE p = o
      <4>1. number'[x] = n
        BY <3>1, <1>8
      <4> QED
        BY <4>1, <3>1, <1>6, <1>7, <1>8
    <3>2. CASE p = h
      BY <3>2, <2>1, <1>11, <1>3
    <3>3. CASE p # o /\ p # h
      <4>1. p \in Alive /\ p \in Objects
        BY <3>3, <1>10 DEF Alive
      <4>2. pid'[p] = pid[p] /\ of'[p] = of[p] /\ pid[p] # n
        BY <3>3, <4>1, <1>9, <1>1
      <4>3. x # c
        BY <4>2, <1>8
      <4> QED
        BY <4>1, <4>2, <4>3, <1>3, <1>6, <1>7 DEF KernelOK
    <3> QED
      BY <3>1, <3>2, <3>3
  <2>4. \A p \in Objects : life'[p] = "unborn" => pid'[p] = 0 /\ of'[p] = Nobody
    BY <1>3, <1>9, <1>10 DEF KernelOK
  <2> QED
    BY <2>1, <2>2, <2>3, <2>4 DEF KernelOK
<1>14. ListsOK'
  BY <1>0, <1>3, <1>10 DEF ListsOK
<1> QED
  BY <1>4, <1>5, <1>13, <1>14 DEF BaseInv, Types

\* The list that a finished child's objects are collected in.
LEMMA SamePidList ==
    ASSUME NEW n, NEW status, SamePid(n, status), ProcessesAssumption
    PROVE  \E list \in Seq(Objects) :
              /\ Telling(list, status)
              /\ \A j, k \in 1 .. Len(list) : list[j] = list[k] => j = k
              /\ \A k \in 1 .. Len(list) : list[k] \in Alive /\ pid[list[k]] = n
              /\ \A o \in Alive : pid[o] = n => \E k \in 1 .. Len(list) : list[k] = o
<1> DEFINE S == {o \in Alive : pid[o] = n}
<1>1. PICK list \in SetToSeqs(S) : Telling(list, status)
  BY DEF SamePid
<1>2. S \subseteq Objects /\ IsFiniteSet(S)
  BY FS_Subset DEF ProcessesAssumption, Alive
<1>3. \A x : x \in S <=> x \in Alive /\ pid[x] = n
  OBVIOUS
<1> HIDE DEF S
<1>4. /\ list \in Seq(S)
      /\ \A j, k \in 1 .. Len(list) : list[j] = list[k] => j = k
      /\ \A x \in S : \E k \in 1 .. Len(list) : list[k] = x
  BY <1>2, SeqsOfSet
<1>5. list \in Seq(Objects) /\ \A k \in 1 .. Len(list) : list[k] \in S
  BY <1>2, <1>4, ElementOfSeq
<1> QED
  BY <1>1, <1>3, <1>4, <1>5

\* A child is reaped, and a call begins.
LEMMA ReapBase ==
    ASSUME BaseInv, ProcessesAssumption, NEW c \in Children, Reap(c),
           NEW list \in Seq(Objects), NEW status \in Statuses, Telling(list, status),
           Len(stack) < MaxDepth, UNCHANGED <<objectVars, listVars>>
    PROVE  BaseInv'
<1>1. Types /\ KernelOK /\ ListsOK
  BY DEF BaseInv
<1>2. state' = [state EXCEPT ![c] = "gone"] /\ number' = number
  BY DEF Reap
<1>3. VariableTypes'
  BY <1>1, <1>2 DEF Types, VariableTypes, objectVars
<1>4. StackTypes'
  BY <1>1, TellingTyped
<1>5. \A d \in Children : Has(d)' => Has(d)
  BY <1>1, <1>2 DEF Has, Types, VariableTypes
<1>6. KernelOK'
  BY <1>1, <1>2, <1>5, KernelKept DEF objectVars
<1>7. ListsOK'
  BY <1>1 DEF ListsOK, listVars, objectVars, Alive
<1> QED
  BY <1>3, <1>4, <1>6, <1>7 DEF BaseInv, Types

\* The steps that only touch children and objects.
LEMMA SmallBase ==
    ASSUME BaseInv, UNCHANGED <<number, pid, of, heard>>, StackTypes',
           state' \in [Children -> {"unborn", "starting", "running", "zombie", "gone"}],
           life' \in [Objects -> {"unborn", "alive", "deleted"}],
           autoDelete' \in [Objects -> BOOLEAN],
           \A c \in Children : Has(c)' => Has(c),
           \A o \in Objects : life'[o] = life[o] \/ life'[o] = "deleted",
           ListsOK'
    PROVE  BaseInv'
<1>1. Types /\ KernelOK
  BY DEF BaseInv
<1>2. VariableTypes'
  <2>1. VariableTypes
    BY <1>1 DEF Types
  <2> QED
    BY <2>1, Zenon DEF VariableTypes
<1>3. KernelOK'
  BY <1>1, KernelKept
<1> QED
  BY <1>2, <1>3 DEF BaseInv, Types

\* Destroyed keeps the base invariant.
LEMMA DestroyedBase ==
    ASSUME BaseInv, NEW o \in Objects, Destroyed(o)
    PROVE  /\ life' \in [Objects -> {"unborn", "alive", "deleted"}]
           /\ \A p \in Objects : life'[p] = IF p = o THEN "deleted" ELSE life[p]
           /\ ListsOK'
<1>1. /\ life' = [life EXCEPT ![o] = "deleted"]
      /\ quitList' = quitList \ {o} /\ killList' = killList \ {o}
  BY DEF Destroyed
<1>2. life \in [Objects -> {"unborn", "alive", "deleted"}] /\ ListsOK
  BY DEF BaseInv, Types, VariableTypes
<1>3. \A p \in Objects : life'[p] = IF p = o THEN "deleted" ELSE life[p]
  BY <1>1, <1>2
<1>4. Alive' = Alive \ {o}
  BY <1>3 DEF Alive
<1> QED
  BY <1>1, <1>2, <1>3, <1>4 DEF ListsOK

\* The calls keep their types when the stack stays.
LEMMA StackKept ==
    ASSUME BaseInv, UNCHANGED stack
    PROVE  StackTypes'
BY DEF BaseInv, Types, StackTypes

\* What every action but the three that make objects keeps.
LEMMA BaseOf ==
    ASSUME BaseInv
    PROVE  /\ state \in [Children -> {"unborn", "starting", "running", "zombie", "gone"}]
           /\ life \in [Objects -> {"unborn", "alive", "deleted"}]
           /\ autoDelete \in [Objects -> BOOLEAN]
           /\ Types /\ KernelOK /\ ListsOK
BY DEF BaseInv, Types, VariableTypes

\* Environment keeps the base invariant.
LEMMA EnvironmentBase ==
    ASSUME BaseInv, NEW c \in Children, Lead(c) \/ Exit(c)
    PROVE  BaseInv'
<1>1. UNCHANGED <<number, objectVars, listVars, stack>>
  BY DEF Lead, Exit
<1>2. UNCHANGED <<number, life, pid, autoDelete, of, heard, quitList, killList, stack>>
  BY <1>1 DEF objectVars, listVars
<1>3. /\ Has(c)
      /\ state' = [state EXCEPT ![c] = "running"] \/ state' = [state EXCEPT ![c] = "zombie"]
  BY DEF Lead, Exit, Has
<1>4. /\ state' \in [Children -> {"unborn", "starting", "running", "zombie", "gone"}]
      /\ \A d \in Children : d # c => state'[d] = state[d]
  BY <1>3, BaseOf
<1>5. \A d \in Children : Has(d)' => Has(d)
  BY <1>3, <1>4 DEF Has
<1>6. ListsOK'
  BY <1>2, BaseOf DEF ListsOK, Alive
<1> QED
  BY <1>2, <1>4, <1>5, <1>6, BaseOf, StackKept, SmallBase

\* Only autoDelete or the lists change.
LEMMA ListBase ==
    ASSUME BaseInv, UNCHANGED <<state, number, life, pid, of, heard, stack>>,
           autoDelete' \in [Objects -> BOOLEAN], ListsOK'
    PROVE  BaseInv'
<1>1. \A d \in Children : Has(d)' => Has(d)
  BY DEF Has
<1> QED
  BY <1>1, BaseOf, StackKept, SmallBase

\* Delete keeps the base invariant.
LEMMA DeleteBase ==
    ASSUME BaseInv, NEW o \in Objects, Delete(o)
    PROVE  BaseInv'
<1>1. Destroyed(o) /\ UNCHANGED <<state, number, pid, autoDelete, of, heard, stack>>
  BY DEF Delete, kernelVars
<1>2. \A d \in Children : Has(d)' => Has(d)
  BY <1>1 DEF Has
<1> QED
  BY <1>1, <1>2, BaseOf, StackKept, DestroyedBase, SmallBase

\* Tell keeps the base invariant.
LEMMA TellBase ==
    ASSUME BaseInv, Tell
    PROVE  BaseInv'
<1>1. UNCHANGED <<state, number, life, pid, autoDelete, of, quitList, killList>>
  BY DEF Tell, kernelVars, listVars
<1>2. StackTypes' /\ heard' \in [Objects -> Seq(Statuses)]
  BY BaseOf, TellTyped
<1>3. VariableTypes'
  <2>1. VariableTypes
    BY DEF BaseInv, Types
  <2> QED
    BY <2>1, <1>1, <1>2, Zenon DEF VariableTypes
<1>4. \A d \in Children : Has(d)' => Has(d)
  BY <1>1 DEF Has
<1>5. KernelOK'
  BY <1>1, <1>4, BaseOf, KernelKept
<1>6. ListsOK'
  BY <1>1, BaseOf DEF ListsOK, Alive
<1> QED
  BY <1>2, <1>3, <1>5, <1>6 DEF BaseInv, Types

\* Told keeps the base invariant.
LEMMA ToldBase ==
    ASSUME BaseInv, Told
    PROVE  BaseInv'
<1>1. UNCHANGED <<state, number, pid, autoDelete, of, heard>>
  BY DEF Told, kernelVars
<1>2. \A d \in Children : Has(d)' => Has(d)
  BY <1>1 DEF Has
<1>3. StackTypes'
  BY BaseOf, ToldTyped
<1>4. CASE Top.auto
  <2>1. Destroyed(Top.list[Top.i])
    BY <1>4, Zenon DEF Told
  <2>2. Top.list[Top.i] \in Objects
    <3>1. Types /\ stack # <<>> /\ Top.pc = "telling"
      BY BaseOf DEF Told
    <3>2. Top \in Calls /\ Top.i <= Len(Top.list) /\ Top.i >= 1
      BY <3>1, TopFacts
    <3>3. Top.i \in Nat /\ Len(Top.list) \in Nat /\ \A k \in 1 .. Len(Top.list) : Top.list[k] \in Objects
      BY <3>2, CallFields
    <3> QED
      BY <3>2, <3>3
  <2> QED
    BY <2>1, <2>2, <1>1, <1>2, <1>3, BaseOf, DestroyedBase, SmallBase
<1>5. CASE ~Top.auto
  <2>1. UNCHANGED <<life, quitList, killList>>
    BY <1>5, Zenon DEF Told, listVars
  <2>2. ListsOK'
    BY <2>1, BaseOf DEF ListsOK, Alive
  <2> QED
    BY <2>1, <2>2, <1>1, <1>2, <1>3, BaseOf, SmallBase
<1> QED
  BY <1>4, <1>5

\* AllTold keeps the base invariant.
LEMMA AllToldBase ==
    ASSUME BaseInv, ProcessesAssumption, AllTold
    PROVE  BaseInv'
<1>1. UNCHANGED <<state, number, life, pid, autoDelete, of, heard, quitList, killList>>
  BY DEF AllTold, kernelVars, objectVars, listVars
<1>2. \A d \in Children : Has(d)' => Has(d)
  BY <1>1 DEF Has
<1>3. ListsOK'
  BY <1>1, BaseOf DEF ListsOK, Alive
<1> QED
  BY <1>1, <1>2, <1>3, BaseOf, AllToldTyped, SmallBase

\* The status of the child that waitpid finds or does not find.
LEMMA WaitFacts ==
    ASSUME BaseInv, NEW o \in Objects, WaitUntilFinished(o)
    PROVE  /\ <<o>> \in Seq(Objects) /\ Named1(pid[o]) \in Statuses
           /\ Telling(<<o>>, Named1(pid[o])) /\ Len(stack) < MaxDepth
           /\ UNCHANGED <<objectVars, listVars>>
           /\ \/ Named1(pid[o]) = Nobody /\ UNCHANGED kernelVars
              \/ /\ Named1(pid[o]) \in Children /\ Named1(pid[o]) \in Named(pid[o])
                 /\ state[Named1(pid[o])] = "zombie" /\ Reap(Named1(pid[o]))
<1> DEFINE c == Named1(pid[o])
<1>1. /\ IF c = Nobody THEN UNCHANGED kernelVars ELSE state[c] = "zombie" /\ Reap(c)
      /\ Telling(<<o>>, c) /\ Len(stack) < MaxDepth
      /\ UNCHANGED <<objectVars, listVars>>
  BY DEF WaitUntilFinished
<1>2. c \in Statuses /\ (c = Nobody \/ (c \in Children /\ c \in Named(pid[o])))
  BY Named1Facts
<1>3. <<o>> \in Seq(Objects)
  OBVIOUS
<1> HIDE DEF c
<1>4. \/ c = Nobody /\ UNCHANGED kernelVars
      \/ c \in Children /\ c \in Named(pid[o]) /\ state[c] = "zombie" /\ Reap(c)
  BY <1>1, <1>2
<1> QED
  BY <1>1, <1>2, <1>3, <1>4 DEF c

\* Wait keeps the base invariant.
LEMMA WaitBase ==
    ASSUME BaseInv, ProcessesAssumption, NEW o \in Objects, WaitUntilFinished(o)
    PROVE  BaseInv'
<1> DEFINE c == Named1(pid[o])
           list == <<o>>
<1>1. /\ list \in Seq(Objects) /\ c \in Statuses
      /\ Telling(list, c) /\ Len(stack) < MaxDepth
      /\ UNCHANGED <<objectVars, listVars>>
      /\ (c = Nobody /\ UNCHANGED kernelVars) \/ (c \in Children /\ Reap(c))
  BY WaitFacts
<1> HIDE DEF c, list
<1>2. CASE c \in Children /\ Reap(c)
  BY <1>1, <1>2, ReapBase
<1>3. CASE UNCHANGED kernelVars
  <2>1. UNCHANGED <<state, number, life, pid, autoDelete, of, heard, quitList, killList>>
    BY <1>1, <1>3 DEF kernelVars, objectVars, listVars
  <2>2. \A d \in Children : Has(d)' => Has(d)
    BY <2>1 DEF Has
  <2>3. ListsOK'
    BY <2>1, BaseOf DEF ListsOK, Alive
  <2>4. StackTypes'
    BY <1>1, BaseOf, TellingTyped
  <2> QED
    BY <2>1, <2>2, <2>3, <2>4, BaseOf, SmallBase
<1> QED
  BY <1>1, <1>2, <1>3

\* Check keeps the base invariant.
LEMMA CheckBase ==
    ASSUME BaseInv, ProcessesAssumption, CheckForFinishedChild
    PROVE  BaseInv'
<1>1. PICK c \in Children : Reap(c) /\ SamePid(number[c], c)
  BY DEF CheckForFinishedChild
<1>2. PICK list \in Seq(Objects) : Telling(list, c)
  BY <1>1, SamePidList
<1> QED
  BY <1>1, <1>2, ReapBase DEF CheckForFinishedChild, Statuses

\* The base invariant holds at the start.
LEMMA BaseStart ==
    ASSUME ProcessesAssumption, Init
    PROVE  BaseInv
<1>1. VariableTypes
  <2>1. \A x : <<>> \in Seq(x)
    OBVIOUS
  <2>2. Nobody \in Statuses /\ <<>> \in Seq(Statuses)
    BY <2>1 DEF Statuses
  <2> QED
    BY <2>2 DEF VariableTypes, Init
<1>2. StackTypes
  BY DEF StackTypes, Init, ProcessesAssumption
<1>3. KernelOK
  BY DEF KernelOK, Init, Has, Alive
<1>4. ListsOK
  BY DEF ListsOK, Init
<1> QED
  BY <1>1, <1>2, <1>3, <1>4 DEF BaseInv, Types

\* Every step keeps the base invariant.
LEMMA BaseStep ==
    ASSUME BaseInv, ProcessesAssumption, [Next]_vars
    PROVE  BaseInv'
<1>0. autoDelete \in [Objects -> BOOLEAN]
  BY BaseOf
<1>1. ASSUME NEW c \in Children, Lead(c) \/ Exit(c)
      PROVE  BaseInv'
  BY <1>1, EnvironmentBase
<1>2. ASSUME NEW o \in Objects, NEW c \in Children, NEW n \in Pids, Create(o, c, n)
      PROVE  BaseInv'
  BY <1>2, CreateBase
<1>3. ASSUME NEW o \in Objects, NEW c \in Children, NEW n \in Pids,
             NEW h \in Objects, NEW d \in Children, NEW m \in Pids,
             CreateWithHelper(o, c, n, h, d, m)
      PROVE  BaseInv'
  <2>1. BothForked(o, c, n, h, d, m) \/ OneForked(o, c, n)
    BY <1>3 DEF CreateWithHelper, BothForked, OneForked
  <2> QED
    BY <1>3, <2>1, HelperBase, LoneBase
<1>4. ASSUME NEW o \in Objects, NEW p \in Objects, Attach(o, p)
      PROVE  BaseInv'
  BY <1>4, AttachBase
<1>5. ASSUME NEW o \in Objects, Delete(o)
      PROVE  BaseInv'
  BY <1>5, DeleteBase
<1>6. ASSUME NEW o \in Objects, ShouldDeleteWhenFinished(o)
      PROVE  BaseInv'
  <2>1. /\ UNCHANGED <<state, number, life, pid, of, heard, quitList, killList, stack>>
        /\ autoDelete' = [autoDelete EXCEPT ![o] = ~@]
    BY <1>6 DEF ShouldDeleteWhenFinished, kernelVars, listVars
  <2>2. autoDelete' \in [Objects -> BOOLEAN]
    BY <2>1, <1>0
  <2>3. ListsOK'
    BY <2>1, BaseOf DEF ListsOK, Alive
  <2> QED
    BY <2>1, <2>2, <2>3, ListBase
<1>7. ASSUME NEW o \in Objects, QuitAtExit(o) \/ KillAtExit(o) \/ Ignore(o)
      PROVE  BaseInv'
  <2>1. UNCHANGED <<state, number, life, pid, autoDelete, of, heard, stack>>
    BY <1>7 DEF QuitAtExit, KillAtExit, Ignore, kernelVars, objectVars
  <2>2. ListsOK'
    BY <1>7, <2>1, BaseOf DEF ListsOK, Alive, QuitAtExit, KillAtExit, Ignore
  <2> QED
    BY <2>1, <2>2, <1>0, ListBase
<1>8. ASSUME NEW o \in Objects, SendSignal(o)
      PROVE  BaseInv'
  <2>1. UNCHANGED <<state, number, life, pid, autoDelete, of, heard, stack, quitList, killList>>
    BY <1>8 DEF SendSignal, kernelVars, objectVars, listVars
  <2>2. ListsOK'
    BY <2>1, BaseOf DEF ListsOK, Alive
  <2> QED
    BY <2>1, <2>2, <1>0, ListBase
<1>9. ASSUME NEW o \in Objects, WaitUntilFinished(o)
      PROVE  BaseInv'
  BY <1>9, WaitBase
<1>10. ASSUME CleanUp
       PROVE  BaseInv'
  <2>1. /\ UNCHANGED <<state, number, life, pid, autoDelete, of, heard, stack>>
        /\ quitList' = {} /\ killList' = {}
    BY <1>10 DEF CleanUp, kernelVars, objectVars
  <2>2. ListsOK'
    BY <2>1 DEF ListsOK
  <2> QED
    BY <2>1, <2>2, <1>0, ListBase
<1>11. ASSUME UNCHANGED vars
       PROVE  BaseInv'
  <2>1. UNCHANGED <<state, number, life, pid, autoDelete, of, heard, stack, quitList, killList>>
    BY <1>11 DEF vars, kernelVars, objectVars, listVars
  <2>2. ListsOK'
    BY <2>1, BaseOf DEF ListsOK, Alive
  <2> QED
    BY <2>1, <2>2, <1>0, ListBase
<1>12. CASE Environment
  BY <1>12, <1>1 DEF Environment
<1>13. CASE Application
  BY <1>13, <1>2, <1>3, <1>4, <1>5, <1>6, <1>7, <1>8, <1>9, Zenon DEF Application
<1>14. CASE Loop
  BY <1>14, CheckBase, TellBase, ToldBase, AllToldBase DEF Loop
<1> QED
  BY <1>10, <1>11, <1>12, <1>13, <1>14 DEF Next

\* The base invariant holds throughout.
LEMMA AlwaysBase == Spec => []BaseInv
<1>1. Init => BaseInv
  BY BaseStart, ProcessesAssumption
<1>2. BaseInv /\ [Next]_vars => BaseInv'
  BY BaseStep, ProcessesAssumption
<1> QED
  BY <1>1, <1>2, PTL DEF Spec

\* Every variable keeps its type, a number is one child's at a time, and no object
\* is on both lists of what happens when the program ends (JThisProcess.cpp).
THEOREM TypeCorrect == Spec => []TypeOK
<1>1. ASSUME BaseInv
      PROVE  TypeOK
  <2>1. Types /\ KernelOK /\ ListsOK
    BY <1>1, BaseOf
  <2>2. /\ state \in [Children -> {"unborn", "starting", "running", "zombie", "gone"}]
        /\ life \in [Objects -> {"unborn", "alive", "deleted"}]
        /\ pid \in [Objects -> Pids \cup {0}] /\ of \in [Objects -> Children \cup {Nobody}]
        /\ heard \in [Objects -> Seq(Children \cup {Nobody})]
    BY <2>1 DEF Types, VariableTypes, Statuses
  <2>3. /\ quitList \subseteq Objects /\ killList \subseteq Objects
        /\ quitList \cap killList = {}
    BY <2>1 DEF ListsOK, Alive
  <2>4. Len(stack) <= MaxDepth
    BY <2>1 DEF Types, StackTypes
  <2>5. \A d \in DOMAIN stack : stack[d].i \in 0 .. Len(stack[d].list)
    <3>1. stack \in Seq(Calls)
      BY <2>1 DEF Types, StackTypes
    <3>2. DOMAIN stack = 1 .. Len(stack) /\ \A d \in 1 .. Len(stack) : stack[d] \in Calls
      BY <3>1, LenProperties, ElementOfSeq
    <3>3. \A d \in 1 .. Len(stack) :
              stack[d].i \in Nat /\ Len(stack[d].list) \in Nat /\ stack[d].i <= Len(stack[d].list)
      BY <2>1, <3>2, CallFields DEF Types, StackTypes
    <3> QED
      BY <3>2, <3>3
  <2>6. \A c, d \in Children : Has(c) /\ Has(d) /\ number[c] = number[d] => c = d
    BY <2>1 DEF KernelOK
  <2> QED
    BY <2>2, <2>3, <2>4, <2>5, <2>6 DEF TypeOK
<1> QED
  BY <1>1, AlwaysBase, PTL

-----------------------------------------------------------------------------
(* Signals.                                                                *)

\* Whoever holds a number that a group has is for the child that leads it.
LEMMA SignalReaches ==
    ASSUME BaseInv, NEW S, S \subseteq Alive, Signal(S), ~OwnGroup, NoStray
    PROVE  NoStray'
<1>1. \A o \in S : Group(pid[o]) # {"own group"}
  BY DEF Signal
<1>2. \A o \in S : Group(pid[o]) = Named(pid[o])
  BY <1>1 DEF Group
<1>3. \A o \in S : Named(pid[o]) \subseteq {of[o]}
  BY BaseOf DEF KernelOK, Named
<1>4. ~\E o \in S : ~(Group(pid[o]) \subseteq {of[o]})
  BY <1>2, <1>3
<1>5. stray' = (stray \/ \E o \in S : ~(Group(pid[o]) \subseteq {of[o]}))
  BY DEF Signal
<1> QED
  BY <1>4, <1>5, Zenon DEF NoStray

\* A signal that an object sends, by itself or at exit, reaches the group of the
\* child it was made for or nobody, whenever the child has made its group by then
\* (SendSignalToGroup, CleanUpProcesses): an object is off the lists once it is
\* deleted, and a number that it holds is its child's or free.
THEOREM NoSignalStrays ==
    ASSUME ~OwnGroup
    PROVE  Spec => []NoStray
<1>1. Init => NoStray
  BY DEF Init, NoStray
<1>2. ASSUME BaseInv, NoStray, [Next]_vars
      PROVE  NoStray'
  <2>1. ASSUME NEW o \in Objects, SendSignal(o)
        PROVE  NoStray'
    <3>1. Signal({o}) /\ {o} \subseteq Alive
      BY <2>1 DEF SendSignal
    <3> QED
      BY <3>1, <1>2, SignalReaches
  <2>2. ASSUME CleanUp
        PROVE  NoStray'
    <3>1. Signal(quitList \cup killList)
      BY <2>2 DEF CleanUp
    <3>2. quitList \cup killList \subseteq Alive
      BY <1>2, BaseOf DEF ListsOK
    <3> QED
      BY <3>1, <3>2, <1>2, SignalReaches
  <2>3. CASE UNCHANGED stray
    BY <1>2, <2>3 DEF NoStray
  <2>4. Environment => UNCHANGED stray
    BY DEF Environment, Lead, Exit
  <2>5. Loop => UNCHANGED stray
    BY DEF Loop, CheckForFinishedChild, Tell, Told, AllTold
  <2>6. Application => UNCHANGED stray \/ \E o \in Objects : SendSignal(o)
    <3>1. \A o \in Objects, c \in Children, n \in Pids : Create(o, c, n) => UNCHANGED stray
      BY DEF Create
    <3>2. \A o, h \in Objects, c, d \in Children, n, m \in Pids :
              CreateWithHelper(o, c, n, h, d, m) => UNCHANGED stray
      BY DEF CreateWithHelper
    <3>3. \A o, p \in Objects : Attach(o, p) => UNCHANGED stray
      BY DEF Attach
    <3>4. \A o \in Objects :
              Delete(o) \/ ShouldDeleteWhenFinished(o) \/ QuitAtExit(o) \/ KillAtExit(o)
                \/ Ignore(o) \/ WaitUntilFinished(o) => UNCHANGED stray
      BY DEF Delete, ShouldDeleteWhenFinished, QuitAtExit, KillAtExit, Ignore, WaitUntilFinished
    <3> QED
      BY <3>1, <3>2, <3>3, <3>4, Zenon DEF Application
  <2>7. UNCHANGED vars => UNCHANGED stray
    BY DEF vars
  <2> QED
    BY <1>2, <2>1, <2>2, <2>3, <2>4, <2>5, <2>6, <2>7 DEF Next
<1> QED
  BY <1>1, <1>2, AlwaysBase, PTL DEF Spec

-----------------------------------------------------------------------------
(* The objects that are yet to be told.                                    *)

\* The places of the running call and of the others.
LEMMA PlaceFacts ==
    ASSUME Types
    PROVE  /\ \A d \in 1 .. Len(stack) : /\ stack[d].i \in Nat /\ Len(stack[d].list) \in Nat
                                         /\ stack[d].i <= Len(stack[d].list)
                                         /\ stack[d].status \in Statuses
           /\ \A d, k \in Nat : ToTell(d, k) => stack[d].list[k] \in Objects
           /\ \A o : Waiting(o) => o \in Objects
<1>1. \A d \in 1 .. Len(stack) : stack[d] \in Calls
  BY LenProperties, ElementOfSeq DEF Types, StackTypes
<1>2. \A d \in 1 .. Len(stack) : /\ stack[d].i \in Nat /\ Len(stack[d].list) \in Nat
                                 /\ stack[d].status \in Statuses
                                 /\ \A k \in 1 .. Len(stack[d].list) : stack[d].list[k] \in Objects
  BY <1>1, CallFields
<1>3. \A d \in 1 .. Len(stack) : stack[d].i <= Len(stack[d].list)
  BY DEF Types, StackTypes
<1>4. ASSUME NEW d \in Nat, NEW k \in Nat, ToTell(d, k)
      PROVE  stack[d].list[k] \in Objects
  <2> DEFINE i == stack[d].i
             m == Len(stack[d].list)
  <2>1. d \in 1 .. Len(stack) /\ k \in i + 1 .. m
    BY <1>4 DEF ToTell
  <2>2. i \in Nat /\ m \in Nat /\ \A j \in 1 .. m : stack[d].list[j] \in Objects
    BY <1>2, <2>1
  <2> HIDE DEF i, m
  <2>3. k \in 1 .. m
    BY <2>1, <2>2
  <2> QED
    BY <2>2, <2>3
<1> QED
  BY <1>2, <1>3, <1>4 DEF Waiting

\* Whoever is yet to be told has been taken.
LEMMA WaitingTaken ==
    ASSUME Types, NEW o, Waiting(o)
    PROVE  o \in ToCome
<1>1. PICK d \in Nat, k \in Nat : ToTell(d, k) /\ stack[d].list[k] = o
  BY DEF Waiting
<1> DEFINE l == stack[d].list
           i == stack[d].i
           m == Len(l)
           s == SubSeq(l, i + 1, m)
<1>2. d \in 1 .. Len(stack) /\ k \in i + 1 .. m
  BY <1>1 DEF ToTell
<1>3. stack \in Seq(Calls) /\ DOMAIN stack = 1 .. Len(stack)
  BY LenProperties DEF Types, StackTypes
<1>4. stack[d] \in Calls
  BY <1>2, <1>3, ElementOfSeq
<1>5. l \in Seq(Objects) /\ m \in Nat /\ i \in Nat
  BY <1>4, CallFields
<1>6. l[k] = o /\ s \in {SubSeq(stack[e].list, stack[e].i + 1, Len(stack[e].list)) : e \in DOMAIN stack}
  BY <1>1, <1>2, <1>3
<1> HIDE DEF i, m, l
<1>7. \A j \in i + 1 .. m : j \in 1 .. m
  BY <1>5
<1>8. i + 1 \in Nat /\ i + 1 <= m + 1 /\ m = Len(l)
  BY <1>2, <1>5 DEF m
<1>9. \A j \in i + 1 .. m : l[j] \in Objects
  BY <1>5, <1>7, <1>8, ElementOfSeq
<1>10. /\ Len(s) = m - i /\ \A j \in 1 .. m - i : s[j] = l[i + j]
       /\ s \in Seq(Objects)
  BY <1>5, <1>8, <1>9, SubSeqProperties
<1>11. k - i \in 1 .. m - i /\ i + (k - i) = k
  BY <1>2, <1>5
<1>12. DOMAIN s = 1 .. Len(s)
  BY <1>10, LenProperties
<1>13. s[k - i] = o
  BY <1>6, <1>10, <1>11
<1>14. o \in Range(s)
  BY <1>10, <1>11, <1>12, <1>13 DEF Range
<1> QED
  BY <1>6, <1>14 DEF ToCome, i, m, l

\* Nobody is taken and nobody told, whatever else changes on the stack.
PlacesKept ==
    \A d, k \in Nat :
        /\ ToTell(d, k)' <=> ToTell(d, k)
        /\ ToTell(d, k) => /\ stack'[d].list[k] = stack[d].list[k]
                           /\ stack'[d].status = stack[d].status

\* Who waits to be told still does.
LEMMA KeptWaiting ==
    ASSUME PlacesKept, NEW o
    PROVE  Waiting(o)' <=> Waiting(o)
BY DEF PlacesKept, Waiting

\* A step that leaves the stack alone keeps every place in it.
LEMMA KeptWhenStill ==
    ASSUME UNCHANGED stack
    PROVE  PlacesKept
BY DEF PlacesKept, ToTell

\* The running call is replaced by one that is as far.
LEMMA KeptByTop ==
    ASSUME Types, stack # <<>>, NEW f \in Calls, stack' = Front(stack) \o <<f>>,
           f.list = Top.list, f.i = Top.i, f.status = Top.status
    PROVE  /\ PlacesKept /\ Len(stack') = Len(stack)
           /\ \A d \in 1 .. Len(stack) : stack'[d].list = stack[d].list /\ stack'[d].i = stack[d].i
<1> DEFINE n == Len(stack)
<1>1. /\ Len(stack') = n /\ stack'[n] = f
      /\ \A d \in 1 .. n - 1 : stack'[d] = stack[d]
  BY TopShape
<1>2. Top = stack[n] /\ \A d \in 1 .. n : d = n \/ d \in 1 .. n - 1
  BY TopFacts
<1>3. \A d \in 1 .. n : /\ stack'[d].list = stack[d].list /\ stack'[d].i = stack[d].i
                        /\ stack'[d].status = stack[d].status
  BY <1>1, <1>2
<1> QED
  BY <1>1, <1>3 DEF PlacesKept, ToTell

\* Telling a child moves no cursor.
LEMMA KeptByTold ==
    ASSUME Types, Told
    PROVE  /\ PlacesKept /\ Len(stack') = Len(stack)
           /\ \A d \in 1 .. Len(stack) : stack'[d].list = stack[d].list /\ stack'[d].i = stack[d].i
<1> DEFINE f == [Top EXCEPT !.auto = FALSE, !.pc = "next"]
<1>1. Top \in Calls /\ stack # <<>>
  BY TopFacts DEF Told
<1>2. stack' = Front(stack) \o <<f>>
  BY DEF Told
<1>3. f \in Calls /\ f.list = Top.list /\ f.i = Top.i /\ f.status = Top.status
  BY <1>1, ToldTop
<1> HIDE DEF f
<1> QED
  BY <1>1, <1>2, <1>3, KeptByTop

\* The running call returns when it has told everybody.
LEMMA KeptByAllTold ==
    ASSUME Types, AllTold
    PROVE  /\ PlacesKept
           /\ \A d \in 1 .. Len(stack') : d \in 1 .. Len(stack) /\ stack'[d] = stack[d]
<1> DEFINE n == Len(stack)
<1>1. stack # <<>> /\ stack' = Front(stack) /\ Top.i = Len(Top.list)
  BY DEF AllTold
<1>2. Len(stack') = n - 1 /\ \A d \in 1 .. n - 1 : stack'[d] = stack[d]
  BY <1>1, PopShape
<1>3. /\ n \in 1 .. n /\ Top = stack[n]
      /\ \A d \in 1 .. n - 1 : d \in 1 .. n /\ d # n
      /\ \A d \in 1 .. n : d = n \/ d \in 1 .. n - 1
  BY <1>1, TopFacts
<1>4. \A k \in Nat : ~ToTell(n, k)
  <2>1. stack[n].i \in Nat /\ stack[n].i = Len(stack[n].list)
    BY <1>1, <1>3, PlaceFacts
  <2>2. stack[n].i + 1 .. Len(stack[n].list) = {}
    BY <2>1
  <2> QED
    BY <2>2 DEF ToTell
<1> HIDE DEF n
<1>5. \A d, k \in Nat : ToTell(d, k) => d \in 1 .. n /\ d # n
  BY <1>4 DEF ToTell, n
<1>6. \A d, k \in Nat : ToTell(d, k)' <=> ToTell(d, k)
  <2> SUFFICES ASSUME NEW d \in Nat, NEW k \in Nat
               PROVE  ToTell(d, k)' <=> ToTell(d, k)
    OBVIOUS
  <2>1. ToTell(d, k) => d \in 1 .. n - 1
    BY <1>3, <1>5
  <2>2. ToTell(d, k)' <=> d \in 1 .. n - 1 /\ k \in stack'[d].i + 1 .. Len(stack'[d].list)
    BY <1>2 DEF ToTell
  <2>3. ToTell(d, k) <=> d \in 1 .. n /\ k \in stack[d].i + 1 .. Len(stack[d].list)
    BY DEF ToTell, n
  <2> QED
    BY <2>1, <2>2, <2>3, <1>2, <1>3
<1>7. \A d, k \in Nat : ToTell(d, k) => stack'[d] = stack[d]
  BY <1>2, <1>3, <1>5
<1>8. \A d \in 1 .. Len(stack') : d \in 1 .. Len(stack) /\ stack'[d] = stack[d]
  BY <1>2, <1>3 DEF n
<1> QED
  BY <1>6, <1>7, <1>8 DEF PlacesKept

\* A call begins: its list is yet to be told.
LEMMA PlacesMade ==
    ASSUME Types, NEW list \in Seq(Objects), NEW status \in Statuses, Telling(list, status)
    PROVE  /\ \A d, k \in Nat : ToTell(d, k)' <=>
                  ToTell(d, k) \/ (d = Len(stack) + 1 /\ k \in 1 .. Len(list))
           /\ \A d, k \in Nat : ToTell(d, k) => d # Len(stack) + 1 /\ stack'[d] = stack[d]
           /\ stack'[Len(stack) + 1].list = list /\ stack'[Len(stack) + 1].status = status
           /\ \A o : Waiting(o)' <=> Waiting(o) \/ \E k \in 1 .. Len(list) : list[k] = o
<1> DEFINE n == Len(stack)
           f == [list |-> list, i |-> 0, status |-> status, auto |-> FALSE, pc |-> "next"]
<1>1. /\ Len(stack') = n + 1 /\ stack'[n + 1] = f
      /\ \A d \in 1 .. n : stack'[d] = stack[d]
  BY TellingShape
<1>2. n \in Nat /\ Len(list) \in Nat
  BY LenProperties DEF Types, StackTypes
<1>3. f.list = list /\ f.i = 0 /\ f.status = status
  OBVIOUS
<1> HIDE DEF n, f
<1>4. /\ \A d \in 1 .. n + 1 : d \in 1 .. n \/ d = n + 1
      /\ \A d \in 1 .. n : d \in 1 .. n + 1 /\ d # n + 1
      /\ n + 1 \in 1 .. n + 1 /\ n + 1 \in Nat
  BY <1>2
<1>5. stack'[n + 1].list = list /\ stack'[n + 1].status = status /\ stack'[n + 1].i + 1 = 1
  BY <1>1, <1>3
<1>6. \A d, k \in Nat : ToTell(d, k)' <=> ToTell(d, k) \/ (d = n + 1 /\ k \in 1 .. Len(list))
  <2> SUFFICES ASSUME NEW d \in Nat, NEW k \in Nat
               PROVE  ToTell(d, k)' <=> ToTell(d, k) \/ (d = n + 1 /\ k \in 1 .. Len(list))
    OBVIOUS
  <2>1. ToTell(d, k) <=> d \in 1 .. n /\ k \in stack[d].i + 1 .. Len(stack[d].list)
    BY DEF ToTell, n
  <2>2. ToTell(d, k)' <=> d \in 1 .. n + 1 /\ k \in stack'[d].i + 1 .. Len(stack'[d].list)
    BY <1>1 DEF ToTell
  <2>3. CASE d = n + 1
    <3>1. ~ToTell(d, k)
      BY <2>1, <2>3, <1>4
    <3> QED
      BY <3>1, <2>2, <2>3, <1>4, <1>5
  <2>4. CASE d # n + 1
    <3>1. d \in 1 .. n + 1 <=> d \in 1 .. n
      BY <2>4, <1>4
    <3> QED
      BY <3>1, <2>1, <2>2, <2>4, <1>1
  <2> QED
    BY <2>3, <2>4
<1>7. \A d, k \in Nat : ToTell(d, k) => d # n + 1 /\ stack'[d] = stack[d]
  BY <1>1, <1>4 DEF ToTell, n
<1>8. \A o : Waiting(o)' <=> Waiting(o) \/ \E k \in 1 .. Len(list) : list[k] = o
  <2> SUFFICES ASSUME NEW o
               PROVE  Waiting(o)' <=> Waiting(o) \/ \E k \in 1 .. Len(list) : list[k] = o
    OBVIOUS
  <2>1. Waiting(o)' <=> \E d, k \in Nat : ToTell(d, k)' /\ stack'[d].list[k] = o
    BY DEF Waiting
  <2>2. Waiting(o)' => Waiting(o) \/ \E k \in 1 .. Len(list) : list[k] = o
    BY <2>1, <1>5, <1>6, <1>7 DEF Waiting
  <2>3. Waiting(o) => Waiting(o)'
    BY <2>1, <1>6, <1>7 DEF Waiting
  <2>4. ASSUME NEW k \in 1 .. Len(list), list[k] = o
        PROVE  Waiting(o)'
    <3>1. k \in Nat
      BY <1>2
    <3>2. PICK d \in Nat : d = n + 1 /\ stack'[d].list = list
      BY <1>4, <1>5
    <3>3. ToTell(d, k)' /\ stack'[d].list[k] = o
      BY <2>4, <3>1, <3>2, <1>6
    <3> QED
      BY <3>1, <3>2, <3>3, <2>1
  <2> QED
    BY <2>2, <2>3, <2>4
<1> QED
  BY <1>5, <1>6, <1>7, <1>8 DEF n

\* An object is told: it is the next of the running call.
LEMMA PlacesTold ==
    ASSUME Types, Tell
    PROVE  /\ Len(stack) \in Nat /\ Top.i + 1 \in Nat /\ ToTell(Len(stack), Top.i + 1)
           /\ Top = stack[Len(stack)] /\ Len(stack') = Len(stack)
           /\ \A d, k \in Nat : ToTell(d, k)' <=>
                  ToTell(d, k) /\ ~(d = Len(stack) /\ k = Top.i + 1)
           /\ \A d \in 1 .. Len(stack) : /\ stack'[d].list = stack[d].list
                                         /\ stack'[d].status = stack[d].status
           /\ \A d \in 1 .. Len(stack) : \A k \in 1 .. stack'[d].i :
                  k \in 1 .. stack[d].i \/ (d = Len(stack) /\ k = Top.i + 1)
<1> DEFINE n == Len(stack)
           o == Top.list[Top.i + 1]
           f == [Top EXCEPT !.i = @ + 1, !.auto = autoDelete[o], !.pc = "telling"]
<1>1. Top \in Calls /\ Top.i < Len(Top.list) /\ stack # <<>>
  BY TopFacts DEF Tell
<1>2. /\ Len(Top.list) \in Nat /\ Top.i \in Nat
      /\ \A k \in 1 .. Len(Top.list) : Top.list[k] \in Objects
  BY <1>1, CallFields
<1>3. stack' = Front(stack) \o <<f>>
  BY DEF Tell
<1>4. o \in Objects
  BY <1>1, <1>2
<1> HIDE DEF o
<1>5. autoDelete[o] \in BOOLEAN
  BY <1>4 DEF Types, VariableTypes
<1>6. f \in Calls /\ f.list = Top.list /\ f.i = Top.i + 1 /\ f.status = Top.status
  BY <1>1, <1>5, TellTop
<1> HIDE DEF f
<1>7. /\ Len(stack') = n /\ stack'[n] = f
      /\ \A d \in 1 .. n - 1 : stack'[d] = stack[d]
  BY <1>1, <1>3, <1>6, TopShape
<1>8. /\ n \in Nat /\ n \in 1 .. n /\ Top = stack[n]
      /\ \A d \in 1 .. n : d = n \/ d \in 1 .. n - 1
      /\ \A d \in 1 .. n - 1 : d \in 1 .. n /\ d # n
  BY <1>1, TopFacts
<1> HIDE DEF n
<1>9. \A d \in 1 .. n : stack'[d].list = stack[d].list /\ stack'[d].status = stack[d].status
  BY <1>6, <1>7, <1>8
<1> DEFINE i == Top.i
           m == Len(Top.list)
<1>10. i \in Nat /\ m \in Nat /\ i < m
  BY <1>1, <1>2
<1>11. stack[n].i = i /\ Len(stack[n].list) = m /\ stack'[n].i = i + 1 /\ Len(stack'[n].list) = m
  BY <1>6, <1>7, <1>8
<1> HIDE DEF i, m
<1>12. i + 1 \in Nat /\ ToTell(n, i + 1)
  BY <1>8, <1>10, <1>11 DEF ToTell, n
<1>13. \A d, k \in Nat : ToTell(d, k)' <=> ToTell(d, k) /\ ~(d = n /\ k = i + 1)
  <2> SUFFICES ASSUME NEW d \in Nat, NEW k \in Nat
               PROVE  ToTell(d, k)' <=> ToTell(d, k) /\ ~(d = n /\ k = i + 1)
    OBVIOUS
  <2>1. ToTell(d, k) <=> d \in 1 .. n /\ k \in stack[d].i + 1 .. Len(stack[d].list)
    BY DEF ToTell, n
  <2>2. ToTell(d, k)' <=> d \in 1 .. n /\ k \in stack'[d].i + 1 .. Len(stack'[d].list)
    BY <1>7 DEF ToTell
  <2>3. CASE d = n
    <3>1. k \in i + 1 + 1 .. m <=> k \in i + 1 .. m /\ k # i + 1
      BY <1>10
    <3>2. ToTell(d, k) <=> k \in i + 1 .. m
      BY <2>1, <2>3, <1>8, <1>11
    <3>3. ToTell(d, k)' <=> k \in i + 1 + 1 .. m
      BY <2>2, <2>3, <1>8, <1>11
    <3> QED
      BY <3>1, <3>2, <3>3, <2>3
  <2>4. CASE d # n
    BY <2>1, <2>2, <2>4, <1>7, <1>8
  <2> QED
    BY <2>3, <2>4
<1>14. \A d \in 1 .. n : \A k \in 1 .. stack'[d].i :
           k \in 1 .. stack[d].i \/ (d = n /\ k = i + 1)
  <2>1. \A k \in 1 .. i + 1 : k \in 1 .. i \/ k = i + 1
    BY <1>10
  <2> QED
    BY <2>1, <1>7, <1>8, <1>11
<1> QED
  BY <1>7, <1>8, <1>9, <1>12, <1>13, <1>14 DEF i, n

-----------------------------------------------------------------------------
(* Who is told, and when.                                                  *)

\* Nobody is told or taken, and no child is born or reaped.
LEMMA StillTold ==
    ASSUME Types, ToldInv, PlacesKept, ToldOK', UNCHANGED <<number, pid, of, heard>>,
           \A c \in Children : /\ state'[c] = "gone" <=> state[c] = "gone"
                               /\ state'[c] = "unborn" => state[c] = "unborn",
           \A o \in Objects : life'[o] = life[o] \/ life'[o] = "deleted"
    PROVE  ToldInv'
<1>1. WaitingOK /\ HeardOK /\ GoneOK
  BY DEF ToldInv
<1>2. \A d, k \in Nat : ToTell(d, k) => stack[d].list[k] \in Objects
  BY PlaceFacts
<1>3. WaitingOK'
  BY <1>1, <1>2 DEF WaitingOK, PlacesKept
<1>4. HeardOK'
  BY <1>1 DEF HeardOK
<1>5. GoneOK'
  <2> SUFFICES ASSUME NEW o \in Objects, of'[o] \in Children
               PROVE  /\ life'[o] # "unborn"
                      /\ number'[of'[o]] = pid'[o] /\ state'[of'[o]] # "unborn"
                      /\ heard'[o] # <<>> \/ Waiting(o)' => state'[of'[o]] = "gone"
                      /\ life'[o] = "alive" /\ state'[of'[o]] = "gone" => heard'[o] # <<>> \/ Waiting(o)'
    BY DEF GoneOK
  <2>1. Waiting(o)' <=> Waiting(o)
    BY KeptWaiting
  <2> QED
    BY <2>1, <1>1 DEF GoneOK
<1> QED
  BY <1>3, <1>4, <1>5 DEF ToldInv

\* Whoever was told stays so when the lists and the cursors are where they were.
LEMMA ToldKept ==
    ASSUME ToldInv, UNCHANGED heard,
           \A d \in 1 .. Len(stack') : /\ d \in 1 .. Len(stack)
                                       /\ stack'[d].list = stack[d].list /\ stack'[d].i = stack[d].i
    PROVE  ToldOK'
BY DEF ToldInv, ToldOK

\* Objects are made, and children born; Made is what the three actions do.
Made ==
    /\ UNCHANGED <<stack, heard>>
    /\ \A c \in Children : state[c] # "unborn" => state'[c] = state[c] /\ number'[c] = number[c]
    /\ \A o \in Objects :
          \/ of'[o] = of[o] /\ pid'[o] = pid[o] /\ life'[o] = life[o]
          \/ /\ life[o] = "unborn" /\ life'[o] = "alive"
             /\ of'[o] \in Children => /\ number'[of'[o]] = pid'[o]
                                       /\ state'[of'[o]] \notin {"unborn", "gone"}

\* A new object has been told nothing.
LEMMA MadeTold ==
    ASSUME Types, ToldInv, Made
    PROVE  ToldInv'
<1>1. WaitingOK /\ HeardOK /\ GoneOK
  BY DEF ToldInv
<1>2. \A d, k \in Nat : ToTell(d, k) => stack[d].list[k] \in Objects
  BY PlaceFacts
<1>3. PlacesKept /\ heard' = heard /\ stack' = stack
  BY KeptWhenStill DEF Made
<1>4. \A o \in Objects : Waiting(o) => life[o] # "unborn"
  BY <1>1 DEF WaitingOK, Waiting
<1>5. \A o \in Objects : life'[o] = "unborn" => life[o] = "unborn"
  BY DEF Made
<1>6. \A o \in Objects : life[o] # "unborn" => of'[o] = of[o] /\ pid'[o] = pid[o] /\ life'[o] = life[o]
  BY DEF Made
<1>7. WaitingOK'
  BY <1>1, <1>2, <1>3, <1>6 DEF WaitingOK, PlacesKept
<1>8. ToldOK'
  BY <1>3 DEF ToldInv, ToldOK
<1>9. HeardOK'
  BY <1>1, <1>3, <1>5, <1>6 DEF HeardOK
<1>10. GoneOK'
  <2> SUFFICES ASSUME NEW o \in Objects, of'[o] \in Children
               PROVE  /\ life'[o] # "unborn"
                      /\ number'[of'[o]] = pid'[o] /\ state'[of'[o]] # "unborn"
                      /\ heard'[o] # <<>> \/ Waiting(o)' => state'[of'[o]] = "gone"
                      /\ life'[o] = "alive" /\ state'[of'[o]] = "gone" => heard'[o] # <<>> \/ Waiting(o)'
    BY DEF GoneOK
  <2>1. Waiting(o)' <=> Waiting(o)
    BY <1>3, KeptWaiting
  <2>2. CASE of'[o] = of[o] /\ pid'[o] = pid[o] /\ life'[o] = life[o]
    <3>1. state[of[o]] # "unborn"
      BY <2>2, <1>1 DEF GoneOK
    <3>2. state'[of[o]] = state[of[o]] /\ number'[of[o]] = number[of[o]]
      BY <3>1, <2>2 DEF Made
    <3> QED
      BY <3>2, <2>1, <2>2, <1>1, <1>3 DEF GoneOK
  <2>3. CASE life[o] = "unborn" /\ life'[o] = "alive"
    <3>1. heard[o] = <<>> /\ ~Waiting(o)
      BY <2>3, <1>1, <1>4 DEF HeardOK
    <3>2. number'[of'[o]] = pid'[o] /\ state'[of'[o]] \notin {"unborn", "gone"}
      BY <2>3 DEF Made
    <3> QED
      BY <3>1, <3>2, <2>1, <2>3, <1>3
  <2> QED
    BY <2>2, <2>3 DEF Made
<1> QED
  BY <1>7, <1>8, <1>9, <1>10 DEF ToldInv

\* What a call begins with: objects for the child whose status it has, that have
\* not been told and are not about to be.
Begins(list, c) ==
    /\ Telling(list, c) /\ UNCHANGED <<number, life, pid, of, heard>>
    /\ \A j, k \in 1 .. Len(list) : list[j] = list[k] => j = k
    /\ \A k \in 1 .. Len(list) : /\ heard[list[k]] = <<>> /\ of[list[k]] = c
                                 /\ life[list[k]] # "unborn" /\ ~Waiting(list[k])
    /\ \A d \in Children : d # c => state'[d] = state[d]
    /\ c \in Children => state'[c] = "gone" /\ state[c] \notin {"unborn", "gone"}
    /\ \A o \in Objects : life[o] = "alive" /\ of[o] = c /\ c \in Children
                              => \E k \in 1 .. Len(list) : list[k] = o

\* A list of objects that begin to be told: none has been told before.
LEMMA BegunTold ==
    ASSUME Types, ToldInv, NEW list \in Seq(Objects), NEW c \in Statuses, Begins(list, c)
    PROVE  ToldInv'
<1>0. /\ Telling(list, c) /\ UNCHANGED <<number, life, pid, of, heard>>
      /\ \A j, k \in 1 .. Len(list) : list[j] = list[k] => j = k
      /\ \A k \in 1 .. Len(list) : /\ heard[list[k]] = <<>> /\ of[list[k]] = c
                                   /\ life[list[k]] # "unborn" /\ ~Waiting(list[k])
      /\ \A d \in Children : d # c => state'[d] = state[d]
      /\ c \in Children => state'[c] = "gone" /\ state[c] \notin {"unborn", "gone"}
      /\ \A o \in Objects : life[o] = "alive" /\ of[o] = c /\ c \in Children
                                => \E k \in 1 .. Len(list) : list[k] = o
  BY DEF Begins
<1>1. WaitingOK /\ HeardOK /\ GoneOK /\ ToldOK
  BY <1>0 DEF ToldInv
<1>2. PICK n \in Nat : n = Len(stack) + 1
  BY <1>0, LenProperties DEF Types, StackTypes
<1>3. /\ \A d, k \in Nat : ToTell(d, k)' <=> ToTell(d, k) \/ (d = n /\ k \in 1 .. Len(list))
      /\ \A d, k \in Nat : ToTell(d, k) => d # n /\ stack'[d] = stack[d]
      /\ stack'[n].list = list /\ stack'[n].status = c
      /\ \A o : Waiting(o)' <=> Waiting(o) \/ \E k \in 1 .. Len(list) : list[k] = o
  BY <1>0, <1>2, PlacesMade
<1>4. WaitingOK'
  <2> SUFFICES ASSUME NEW d \in Nat, NEW k \in Nat, ToTell(d, k)'
               PROVE  /\ heard'[stack'[d].list[k]] = <<>>
                      /\ of'[stack'[d].list[k]] = stack'[d].status
                      /\ life'[stack'[d].list[k]] # "unborn"
                      /\ \A e, l \in Nat : ToTell(e, l)' /\ stack'[e].list[l] = stack'[d].list[k]
                                               => e = d /\ l = k
    BY <1>0 DEF WaitingOK
  <2>1. CASE ToTell(d, k)
    <3>1. d # n /\ stack'[d] = stack[d]
      BY <1>0, <2>1, <1>3
    <3>2. Waiting(stack[d].list[k])
      BY <1>0, <2>1 DEF Waiting
    <3>3. ASSUME NEW e \in Nat, NEW l \in Nat, ToTell(e, l)', stack'[e].list[l] = stack'[d].list[k]
          PROVE  e = d /\ l = k
      <4>1. CASE ToTell(e, l)
        <5>1. stack'[e] = stack[e]
          BY <1>0, <4>1, <1>3
        <5> QED
          BY <1>0, <5>1, <4>1, <3>3, <3>1, <2>1, <1>1 DEF WaitingOK
      <4>2. CASE e = n /\ l \in 1 .. Len(list)
        BY <1>0, <4>2, <3>1, <3>2, <3>3, <1>3
      <4> QED
        BY <1>0, <4>1, <4>2, <3>3, <1>3
    <3>4. /\ heard[stack[d].list[k]] = <<>>
          /\ of[stack[d].list[k]] = stack[d].status
          /\ life[stack[d].list[k]] # "unborn"
      BY <1>0, <2>1, <1>1 DEF WaitingOK
    <3> QED
      BY <1>0, <3>1, <3>3, <3>4
  <2>2. CASE d = n /\ k \in 1 .. Len(list)
    <3>1. stack'[d].list = list /\ stack'[d].status = c
      BY <1>0, <2>2, <1>3
    <3>2. ASSUME NEW e \in Nat, NEW l \in Nat, ToTell(e, l)', stack'[e].list[l] = stack'[d].list[k]
          PROVE  e = d /\ l = k
      <4>1. CASE ToTell(e, l)
        <5>1. stack'[e] = stack[e] /\ Waiting(stack[e].list[l])
          BY <1>0, <4>1, <1>3 DEF Waiting
        <5>2. stack[e].list[l] = list[k]
          BY <1>0, <5>1, <3>1, <3>2
        <5> QED
          BY <1>0, <5>1, <5>2, <2>2
      <4>2. CASE e = n /\ l \in 1 .. Len(list)
        BY <1>0, <4>2, <3>1, <3>2, <2>2
      <4> QED
        BY <1>0, <4>1, <4>2, <3>2, <1>3
    <3> QED
      BY <1>0, <3>1, <3>2, <2>2
  <2> QED
    BY <1>0, <2>1, <2>2, <1>3
<1>5. ToldOK'
  <2> DEFINE f == [list |-> list, i |-> 0, status |-> c, auto |-> FALSE, pc |-> "next"]
  <2>0. /\ stack'[Len(stack) + 1] = f /\ Len(stack') = Len(stack) + 1
        /\ \A d \in 1 .. Len(stack) : stack'[d] = stack[d]
    BY <1>0, TellingShape
  <2>1. /\ stack'[n].i = 0 /\ Len(stack') = n
        /\ \A d \in 1 .. Len(stack) : stack'[d] = stack[d]
    BY <1>0, <2>0, <1>2
  <2>2. \A d \in 1 .. n : d \in 1 .. Len(stack) \/ d = n
    BY <1>0, <1>2, LenProperties DEF Types, StackTypes
  <2>3. \A d \in 1 .. n : \A k \in 1 .. stack'[d].i : heard'[stack'[d].list[k]] # <<>>
    BY <1>0, <2>1, <2>2, <1>1 DEF ToldOK
  <2> QED
    BY <1>0, <2>1, <2>3 DEF ToldOK
<1>6. HeardOK'
  BY <1>0, <1>1 DEF HeardOK
<1>7. GoneOK'
  <2> SUFFICES ASSUME NEW o \in Objects, of'[o] \in Children
               PROVE  /\ life'[o] # "unborn"
                      /\ number'[of'[o]] = pid'[o] /\ state'[of'[o]] # "unborn"
                      /\ heard'[o] # <<>> \/ Waiting(o)' => state'[of'[o]] = "gone"
                      /\ life'[o] = "alive" /\ state'[of'[o]] = "gone" => heard'[o] # <<>> \/ Waiting(o)'
    BY <1>0 DEF GoneOK
  <2>1. Waiting(o)' <=> Waiting(o) \/ \E k \in 1 .. Len(list) : list[k] = o
    BY <1>0, <1>3
  <2>2. CASE of[o] = c
    <3>1. state'[c] = "gone" /\ state[c] # "gone"
      BY <1>0, <2>2
    <3>2. life[o] # "unborn" /\ number[of[o]] = pid[o]
      BY <1>0, <1>1 DEF GoneOK
    <3>3. life[o] = "alive" => Waiting(o)'
      BY <1>0, <2>1, <2>2
    <3> QED
      BY <1>0, <3>1, <3>2, <3>3, <2>2
  <2>3. CASE of[o] # c
    <3>1. Waiting(o)' <=> Waiting(o)
      BY <1>0, <2>1, <2>3
    <3>2. state'[of[o]] = state[of[o]]
      BY <1>0, <2>3
    <3> QED
      BY <1>0, <3>1, <3>2, <1>1 DEF GoneOK
  <2> QED
    BY <1>0, <2>2, <2>3
<1> QED
  BY <1>0, <1>4, <1>5, <1>6, <1>7 DEF ToldInv

\* Create keeps the invariant of what is told.
LEMMA CreateTold ==
    ASSUME BaseInv, ToldInv, NEW o \in Objects, NEW c \in Children, NEW n \in Pids,
           Create(o, c, n)
    PROVE  ToldInv'
<1>1. Types
  BY BaseOf
<1>2. /\ state[c] = "unborn"
      /\ state' = [x \in Children |-> IF x = c THEN "starting" ELSE state[x]]
      /\ number' = [x \in Children |-> IF x = c THEN n ELSE number[x]]
      /\ life[o] = "unborn"
      /\ life' = [life EXCEPT ![o] = "alive"]
      /\ pid' = [pid EXCEPT ![o] = n] /\ of' = [of EXCEPT ![o] = c]
      /\ UNCHANGED <<heard, stack>>
  BY DEF Create, Construct, Fork
<1>3. \A x \in Children : state[x] # "unborn" => state'[x] = state[x] /\ number'[x] = number[x]
  BY <1>2
<1>4. \A p \in Objects : p # o => of'[p] = of[p] /\ pid'[p] = pid[p] /\ life'[p] = life[p]
  BY <1>1, <1>2 DEF Types, VariableTypes
<1>5. /\ life'[o] = "alive" /\ of'[o] = c /\ pid'[o] = n
      /\ number'[c] = n /\ state'[c] = "starting"
  BY <1>1, <1>2 DEF Types, VariableTypes
<1>6. Made
  BY <1>2, <1>3, <1>4, <1>5 DEF Made
<1> QED
  BY <1>1, <1>6, MadeTold

\* Attach keeps the invariant of what is told.
LEMMA AttachTold ==
    ASSUME BaseInv, ToldInv, NEW o \in Objects, NEW p \in Objects, Attach(o, p)
    PROVE  ToldInv'
<1> DEFINE n == pid[p]
           c == Named1(n)
<1>1. /\ Named(n) # {} /\ UNCHANGED <<state, number, heard, stack>>
      /\ life[o] = "unborn"
      /\ life' = [life EXCEPT ![o] = "alive"]
      /\ pid' = [pid EXCEPT ![o] = n] /\ of' = [of EXCEPT ![o] = c]
  BY DEF Attach, Construct, kernelVars
<1>2. c \in Children /\ Has(c) /\ number[c] = n
  BY <1>1, Named1Facts DEF Named
<1>3. Types
  BY BaseOf
<1> HIDE DEF c, n
<1>4. \A q \in Objects : q # o => of'[q] = of[q] /\ pid'[q] = pid[q] /\ life'[q] = life[q]
  BY <1>1, <1>3 DEF Types, VariableTypes
<1>5. /\ life'[o] = "alive" /\ of'[o] = c /\ pid'[o] = n
      /\ number'[c] = n /\ state'[c] \notin {"unborn", "gone"}
  BY <1>1, <1>2, <1>3 DEF Types, VariableTypes, Has
<1>6. Made
  BY <1>1, <1>4, <1>5 DEF Made
<1> QED
  BY <1>3, <1>6, MadeTold

\* A process made with its helper makes two objects.
LEMMA HelperTold ==
    ASSUME BaseInv, ToldInv, NEW o \in Objects, NEW c \in Children, NEW n \in Pids,
           NEW h \in Objects, NEW d \in Children, NEW m \in Pids,
           CreateWithHelper(o, c, n, h, d, m)
    PROVE  ToldInv'
<1>1. Types /\ KernelOK
  BY BaseOf
<1>2. /\ c # d /\ n # m /\ o # h
      /\ life[o] = "unborn" /\ life[h] = "unborn"
      /\ life' = [life EXCEPT ![o] = "alive", ![h] = "alive"]
      /\ UNCHANGED <<heard, stack>>
  BY DEF CreateWithHelper
<1>3. /\ life'[o] = "alive" /\ life'[h] = "alive"
      /\ \A p \in Objects : p # o /\ p # h => life'[p] = life[p]
  BY <1>1, <1>2 DEF Types, VariableTypes
<1>4. CASE BothForked(o, c, n, h, d, m)
  <2> DEFINE f == [x \in {c, d} |-> IF x = c THEN n ELSE m]
  <2>1. /\ \A x \in {c, d} : state[x] = "unborn"
        /\ state' = [x \in Children |-> IF x \in {c, d} THEN "starting" ELSE state[x]]
        /\ number' = [x \in Children |-> IF x \in {c, d} THEN f[x] ELSE number[x]]
        /\ pid' = [pid EXCEPT ![o] = n, ![h] = m]
        /\ of' = [of EXCEPT ![o] = c, ![h] = d]
    BY <1>4 DEF BothForked, Fork
  <2>2. \A x \in Children : state[x] # "unborn" => state'[x] = state[x] /\ number'[x] = number[x]
    BY <2>1
  <2>3. \A p \in Objects : p # o /\ p # h => of'[p] = of[p] /\ pid'[p] = pid[p]
    BY <1>1, <2>1 DEF Types, VariableTypes
  <2>4. /\ of'[o] = c /\ pid'[o] = n /\ number'[c] = n /\ state'[c] = "starting"
        /\ of'[h] = d /\ pid'[h] = m /\ number'[d] = m /\ state'[d] = "starting"
    BY <1>1, <1>2, <2>1 DEF Types, VariableTypes
  <2>5. \A p \in Objects :
           \/ of'[p] = of[p] /\ pid'[p] = pid[p] /\ life'[p] = life[p]
           \/ /\ life[p] = "unborn" /\ life'[p] = "alive"
              /\ number'[of'[p]] = pid'[p] /\ state'[of'[p]] = "starting"
    <3> TAKE p \in Objects
    <3>1. CASE p = o
      BY <3>1, <1>2, <1>3, <2>4
    <3>2. CASE p = h
      BY <3>2, <1>2, <1>3, <2>4
    <3>3. CASE p # o /\ p # h
      BY <3>3, <1>3, <2>3
    <3> QED
      BY <3>1, <3>2, <3>3
  <2>6. Made
    BY <1>2, <2>2, <2>5 DEF Made
  <2> QED
    BY <1>1, <2>6, MadeTold
<1>5. CASE OneForked(o, c, n)
  <2>1. /\ state[c] = "unborn"
        /\ state' = [x \in Children |-> IF x = c THEN "starting" ELSE state[x]]
        /\ number' = [x \in Children |-> IF x = c THEN n ELSE number[x]]
        /\ pid' = [pid EXCEPT ![o] = n] /\ of' = [of EXCEPT ![o] = c]
    BY <1>5 DEF OneForked, Fork
  <2>2. \A x \in Children : state[x] # "unborn" => state'[x] = state[x] /\ number'[x] = number[x]
    BY <2>1
  <2>3. \A p \in Objects : p # o => of'[p] = of[p] /\ pid'[p] = pid[p]
    BY <1>1, <2>1 DEF Types, VariableTypes
  <2>4. of'[o] = c /\ pid'[o] = n /\ number'[c] = n /\ state'[c] = "starting"
    BY <1>1, <2>1 DEF Types, VariableTypes
  <2>5. of'[h] \notin Children
    BY <1>1, <1>2, <2>3, ProcessesAssumption DEF KernelOK, ProcessesAssumption
  <2>6. \A p \in Objects :
           \/ of'[p] = of[p] /\ pid'[p] = pid[p] /\ life'[p] = life[p]
           \/ /\ life[p] = "unborn" /\ life'[p] = "alive"
              /\ of'[p] \in Children => /\ number'[of'[p]] = pid'[p]
                                        /\ state'[of'[p]] = "starting"
    <3> TAKE p \in Objects
    <3>1. CASE p = o
      BY <3>1, <1>2, <1>3, <2>4
    <3>2. CASE p = h
      BY <3>2, <1>2, <1>3, <2>5
    <3>3. CASE p # o /\ p # h
      BY <3>3, <1>3, <2>3
    <3> QED
      BY <3>1, <3>2, <3>3
  <2>7. Made
    BY <1>2, <2>2, <2>6 DEF Made
  <2> QED
    BY <1>1, <2>7, MadeTold
<1>6. BothForked(o, c, n, h, d, m) \/ OneForked(o, c, n)
  BY DEF CreateWithHelper, BothForked, OneForked
<1> QED
  BY <1>4, <1>5, <1>6

\* The objects for the child that waitpid reports are all collected.
LEMMA CheckTold ==
    ASSUME BaseInv, ToldInv, CheckForFinishedChild
    PROVE  /\ ToldInv'
           /\ \A o : Waiting(o)' => Waiting(o) \/ o \in Alive
<1>1. PICK c \in Children : state[c] = "zombie" /\ Reap(c) /\ SamePid(number[c], c)
  BY DEF CheckForFinishedChild
<1>2. PICK list \in Seq(Objects) :
         /\ Telling(list, c)
         /\ \A j, k \in 1 .. Len(list) : list[j] = list[k] => j = k
         /\ \A k \in 1 .. Len(list) : list[k] \in Alive /\ pid[list[k]] = number[c]
         /\ \A o \in Alive : pid[o] = number[c] => \E k \in 1 .. Len(list) : list[k] = o
  BY <1>1, SamePidList, ProcessesAssumption
<1>3. Types /\ KernelOK /\ HeardOK /\ GoneOK
  BY BaseOf DEF ToldInv
<1>4. Has(c) /\ state[c] \notin {"unborn", "gone"}
  BY <1>1 DEF Has
<1>5. \A k \in 1 .. Len(list) : list[k] \in Objects /\ life[list[k]] = "alive" /\ of[list[k]] = c
  BY <1>2, <1>3, <1>4 DEF KernelOK, Alive
<1>6. \A k \in 1 .. Len(list) : heard[list[k]] = <<>> /\ ~Waiting(list[k])
  BY <1>3, <1>4, <1>5 DEF GoneOK
<1>7. \A o \in Objects : life[o] = "alive" /\ of[o] = c => \E k \in 1 .. Len(list) : list[k] = o
  BY <1>2, <1>3 DEF GoneOK, Alive
<1>8. /\ state' = [state EXCEPT ![c] = "gone"] /\ number' = number
      /\ UNCHANGED <<life, pid, of, heard>>
  BY <1>1 DEF Reap, CheckForFinishedChild, objectVars
<1>9. state'[c] = "gone" /\ \A d \in Children : d # c => state'[d] = state[d]
  BY <1>3, <1>8 DEF Types, VariableTypes
<1>10. c \in Statuses
  BY DEF Statuses
<1>11. \A k \in 1 .. Len(list) : /\ heard[list[k]] = <<>> /\ of[list[k]] = c
                                 /\ life[list[k]] # "unborn" /\ ~Waiting(list[k])
  BY <1>5, <1>6
<1>12. Begins(list, c)
  BY <1>2, <1>4, <1>7, <1>8, <1>9, <1>11 DEF Begins
<1>13. ToldInv'
  BY <1>3, <1>10, <1>12, BegunTold
<1>14. \A o : Waiting(o)' => Waiting(o) \/ o \in Alive
  BY <1>2, <1>3, <1>10, PlacesMade
<1> QED
  BY <1>13, <1>14

\* Nobody else is for the child, and whoever waits has not been told.
LEMMA WaitTold ==
    ASSUME BaseInv, ToldInv, NEW o \in Objects, WaitUntilFinished(o), ~SharedWait
    PROVE  /\ ToldInv'
           /\ \A p : Waiting(p)' => Waiting(p) \/ p \in Alive
<1>1. /\ o \in Alive /\ heard[o] = <<>> /\ o \notin ToCome
      /\ \A p \in Alive \ {o} : pid[p] # pid[o]
  BY DEF WaitUntilFinished, Finished
<1>2. Types /\ KernelOK /\ HeardOK /\ GoneOK
  BY BaseOf DEF ToldInv
<1>3. ~Waiting(o)
  BY <1>1, <1>2, WaitingTaken
<1> DEFINE c == Named1(pid[o])
           list == <<o>>
<1>4. /\ list \in Seq(Objects) /\ c \in Statuses
      /\ Telling(list, c)
      /\ UNCHANGED <<objectVars, listVars>>
      /\ \/ c = Nobody /\ UNCHANGED kernelVars
         \/ c \in Children /\ c \in Named(pid[o]) /\ state[c] = "zombie" /\ Reap(c)
  BY WaitFacts
<1>5. Len(list) = 1 /\ list[1] = o /\ \A k \in 1 .. Len(list) : k = 1
  OBVIOUS
<1>6. Named(pid[o]) = {} \/ c \in Children
  BY Named1Facts
<1>7. of[o] = c
  <2>1. CASE c \in Children /\ c \in Named(pid[o])
    BY <2>1, <1>1, <1>2 DEF Named, KernelOK
  <2>2. CASE c = Nobody
    <3>1. Named(pid[o]) = {}
      BY <2>2, <1>6, ProcessesAssumption DEF ProcessesAssumption
    <3>2. of[o] \notin Children
      <4>1. ASSUME of[o] \in Children
            PROVE  FALSE
        <5>1. /\ number[of[o]] = pid[o] /\ state[of[o]] # "unborn"
              /\ life[o] = "alive" /\ state[of[o]] = "gone" => heard[o] # <<>> \/ Waiting(o)
          BY <4>1, <1>2 DEF GoneOK
        <5>2. life[o] = "alive" /\ state[of[o]] # "gone"
          BY <5>1, <1>1, <1>3 DEF Alive
        <5>3. Has(of[o])
          BY <5>1, <5>2, <4>1, <1>2 DEF Has, Types, VariableTypes
        <5> QED
          BY <5>1, <5>3, <4>1, <3>1 DEF Named
      <4> QED
        BY <4>1
    <3> QED
      BY <3>2, <2>2, <1>2 DEF Types, VariableTypes, Statuses
  <2> QED
    BY <2>1, <2>2, <1>4
<1> HIDE DEF c, list
<1>8. /\ \A d \in Children : d # c => state'[d] = state[d]
      /\ c \in Children => state'[c] = "gone" /\ state[c] \notin {"unborn", "gone"}
      /\ UNCHANGED <<number, life, pid, of, heard>>
  <2>1. UNCHANGED <<life, pid, of, heard>>
    BY <1>4 DEF objectVars
  <2>2. CASE c = Nobody /\ UNCHANGED kernelVars
    BY <2>1, <2>2, ProcessesAssumption DEF kernelVars, ProcessesAssumption
  <2>3. CASE c \in Children /\ state[c] = "zombie" /\ Reap(c)
    BY <2>1, <2>3, <1>2 DEF Reap, Types, VariableTypes
  <2> QED
    BY <2>2, <2>3, <1>4
<1>9. \A p \in Objects : life[p] = "alive" /\ of[p] = c /\ c \in Children
                           => \E k \in 1 .. Len(list) : list[k] = p
  <2> SUFFICES ASSUME NEW p \in Objects, life[p] = "alive", of[p] = c, c \in Children
               PROVE  p = o
    BY <1>5
  <2>1. number[c] = pid[p] /\ number[c] = pid[o]
    BY <1>2, <1>7 DEF GoneOK
  <2> QED
    BY <2>1, <1>1 DEF Alive
<1>10. life[o] = "alive"
  BY <1>1 DEF Alive
<1>11. /\ \A j, k \in 1 .. Len(list) : list[j] = list[k] => j = k
       /\ \A k \in 1 .. Len(list) : /\ heard[list[k]] = <<>> /\ of[list[k]] = c
                                    /\ life[list[k]] # "unborn" /\ ~Waiting(list[k])
  BY <1>1, <1>3, <1>5, <1>7, <1>10
<1>12. Begins(list, c)
  BY <1>4, <1>8, <1>9, <1>11 DEF Begins
<1>13. ToldInv'
  BY <1>2, <1>4, <1>12, BegunTold
<1>14. \A p : Waiting(p)' => Waiting(p) \/ \E k \in 1 .. Len(list) : list[k] = p
  BY <1>2, <1>4, PlacesMade
<1>15. \A p : Waiting(p)' => Waiting(p) \/ p \in Alive
  BY <1>1, <1>5, <1>14
<1> QED
  BY <1>13, <1>15

\* The next object says that its child has finished.
LEMMA TellTold ==
    ASSUME BaseInv, ToldInv, Tell
    PROVE  /\ ToldInv'
           /\ Waiting(Top.list[Top.i + 1])
           /\ \A p : Waiting(p)' => Waiting(p)
<1>1. PICK n \in Nat : n = Len(stack)
  BY BaseOf, PlacesTold
<1>2. PICK j \in Nat : j = Top.i + 1
  BY BaseOf, PlacesTold
<1>3. PICK o : o = Top.list[Top.i + 1]
  OBVIOUS
<1>4. Types /\ WaitingOK /\ ToldOK /\ HeardOK /\ GoneOK
  BY BaseOf DEF ToldInv
<1>5. /\ ToTell(n, j) /\ Top = stack[n] /\ Len(stack') = n
      /\ \A d, k \in Nat : ToTell(d, k)' <=> ToTell(d, k) /\ ~(d = n /\ k = j)
      /\ \A d \in 1 .. n : stack'[d].list = stack[d].list /\ stack'[d].status = stack[d].status
      /\ \A d \in 1 .. n : \A k \in 1 .. stack'[d].i :
             k \in 1 .. stack[d].i \/ (d = n /\ k = j)
  BY <1>1, <1>2, <1>4, PlacesTold
<1>6. o = stack[n].list[j] /\ Waiting(o) /\ o \in Objects
  BY <1>2, <1>3, <1>4, <1>5, PlaceFacts DEF Waiting
<1>7. /\ heard[o] = <<>> /\ of[o] = stack[n].status
      /\ \A e, l \in Nat : ToTell(e, l) /\ stack[e].list[l] = o => e = n /\ l = j
  BY <1>4, <1>5, <1>6 DEF WaitingOK
<1>8. /\ heard' = [heard EXCEPT ![o] = Append(@, Top.status)]
      /\ UNCHANGED <<state, number, life, pid, of>>
  BY <1>3 DEF Tell, kernelVars
<1>9. heard'[o] = <<of[o]>> /\ \A p \in Objects : p # o => heard'[p] = heard[p]
  <2>1. heard'[o] = Append(heard[o], Top.status) /\ \A p \in Objects : p # o => heard'[p] = heard[p]
    BY <1>4, <1>6, <1>8 DEF Types, VariableTypes
  <2>2. Append(heard[o], Top.status) = <<of[o]>>
    BY <1>5, <1>7
  <2> QED
    BY <2>1, <2>2
<1>10. \A d, k \in Nat : ToTell(d, k) => d \in 1 .. n /\ stack[d].list[k] \in Objects
  BY <1>1, <1>4, PlaceFacts DEF ToTell
<1>11. \A d, k \in Nat : ToTell(d, k)' =>
           /\ ToTell(d, k) /\ stack'[d].list[k] = stack[d].list[k]
           /\ stack'[d].status = stack[d].status /\ stack[d].list[k] # o
  BY <1>5, <1>7, <1>10
<1>12. \A p : Waiting(p)' => Waiting(p) /\ p # o
  BY <1>11 DEF Waiting
<1>13. \A p : Waiting(p) /\ p # o => Waiting(p)'
  <2> SUFFICES ASSUME NEW p, Waiting(p), p # o
               PROVE  Waiting(p)'
    OBVIOUS
  <2>1. PICK d \in Nat, k \in Nat : ToTell(d, k) /\ stack[d].list[k] = p
    BY DEF Waiting
  <2>2. ToTell(d, k)' /\ stack'[d].list[k] = p
    BY <2>1, <1>5, <1>6, <1>10
  <2> QED
    BY <2>2 DEF Waiting
<1>14. WaitingOK'
  <2> SUFFICES ASSUME NEW d \in Nat, NEW k \in Nat, ToTell(d, k)'
               PROVE  /\ heard'[stack'[d].list[k]] = <<>>
                      /\ of'[stack'[d].list[k]] = stack'[d].status
                      /\ life'[stack'[d].list[k]] # "unborn"
                      /\ \A e, l \in Nat : ToTell(e, l)' /\ stack'[e].list[l] = stack'[d].list[k]
                                               => e = d /\ l = k
    BY DEF WaitingOK
  <2>1. /\ ToTell(d, k) /\ stack'[d].list[k] = stack[d].list[k]
        /\ stack'[d].status = stack[d].status /\ stack[d].list[k] # o /\ stack[d].list[k] \in Objects
    BY <1>10, <1>11
  <2>2. /\ heard[stack[d].list[k]] = <<>>
        /\ of[stack[d].list[k]] = stack[d].status
        /\ life[stack[d].list[k]] # "unborn"
    BY <2>1, <1>4 DEF WaitingOK
  <2>3. \A e, l \in Nat : ToTell(e, l)' /\ stack'[e].list[l] = stack'[d].list[k] => e = d /\ l = k
    BY <2>1, <1>4, <1>11 DEF WaitingOK
  <2> QED
    BY <2>1, <2>2, <2>3, <1>8, <1>9
<1>15. ToldOK'
  <2> SUFFICES ASSUME NEW d \in 1 .. n, NEW k \in 1 .. stack'[d].i
               PROVE  heard'[stack'[d].list[k]] # <<>>
    BY <1>5 DEF ToldOK
  <2>1. stack'[d].list = stack[d].list
    BY <1>5
  <2>2. CASE d = n /\ k = j
    <3>1. stack'[d].list[k] = o
      BY <2>1, <2>2, <1>6
    <3> QED
      BY <3>1, <1>9
  <2>3. CASE k \in 1 .. stack[d].i
    <3>1. heard[stack[d].list[k]] # <<>>
      BY <2>3, <1>1, <1>4 DEF ToldOK
    <3>2. stack[d].list[k] \in Objects
      <4>1. /\ stack[d].i \in Nat /\ Len(stack[d].list) \in Nat
            /\ stack[d].i <= Len(stack[d].list) /\ stack[d] \in Calls
        BY <1>1, <1>4, PlaceFacts, LenProperties, ElementOfSeq DEF Types, StackTypes
      <4>2. \A l \in 1 .. Len(stack[d].list) : stack[d].list[l] \in Objects
        BY <4>1, CallFields
      <4> DEFINE i == stack[d].i
                 m == Len(stack[d].list)
      <4>3. i \in Nat /\ m \in Nat /\ i <= m /\ k \in 1 .. i
        BY <4>1, <2>3
      <4> HIDE DEF i, m
      <4>4. k \in 1 .. m
        BY <4>3
      <4> QED
        BY <4>2, <4>4 DEF m
    <3> QED
      BY <2>1, <3>1, <3>2, <1>9, <1>7
  <2> QED
    BY <2>2, <2>3, <1>5
<1>16. HeardOK'
  <2>1. life[o] # "unborn"
    BY <1>4, <1>5, <1>6 DEF WaitingOK
  <2> QED
    BY <2>1, <1>4, <1>8, <1>9 DEF HeardOK
<1>17. GoneOK'
  <2> SUFFICES ASSUME NEW p \in Objects, of'[p] \in Children
               PROVE  /\ life'[p] # "unborn"
                      /\ number'[of'[p]] = pid'[p] /\ state'[of'[p]] # "unborn"
                      /\ heard'[p] # <<>> \/ Waiting(p)' => state'[of'[p]] = "gone"
                      /\ life'[p] = "alive" /\ state'[of'[p]] = "gone" => heard'[p] # <<>> \/ Waiting(p)'
    BY DEF GoneOK
  <2>1. /\ life[p] # "unborn" /\ number[of[p]] = pid[p] /\ state[of[p]] # "unborn"
        /\ heard[p] # <<>> \/ Waiting(p) => state[of[p]] = "gone"
        /\ life[p] = "alive" /\ state[of[p]] = "gone" => heard[p] # <<>> \/ Waiting(p)
    BY <1>4, <1>8 DEF GoneOK
  <2>2. CASE p = o
    <3>1. heard'[p] # <<>> /\ state[of[p]] = "gone"
      BY <2>1, <2>2, <1>6, <1>9
    <3> QED
      BY <3>1, <2>1, <1>8
  <2>3. CASE p # o
    <3>1. heard'[p] = heard[p] /\ (Waiting(p)' <=> Waiting(p))
      BY <2>3, <1>9, <1>12, <1>13
    <3> QED
      BY <3>1, <2>1, <1>8
  <2> QED
    BY <2>2, <2>3
<1> QED
  BY <1>3, <1>6, <1>12, <1>14, <1>15, <1>16, <1>17 DEF ToldInv

\* Told keeps the invariant of what is told.
LEMMA ToldTold ==
    ASSUME BaseInv, ToldInv, Told
    PROVE  ToldInv' /\ PlacesKept
<1>1. Types
  BY BaseOf
<1>2. /\ PlacesKept /\ Len(stack') = Len(stack)
      /\ \A d \in 1 .. Len(stack) : stack'[d].list = stack[d].list /\ stack'[d].i = stack[d].i
  BY <1>1, KeptByTold
<1>3. UNCHANGED <<state, number, pid, of, heard>>
  BY DEF Told, kernelVars
<1>4. \A o \in Objects : life'[o] = life[o] \/ life'[o] = "deleted"
  <2>1. life' = [life EXCEPT ![Top.list[Top.i]] = "deleted"] \/ life' = life
    BY Zenon DEF Told, Destroyed
  <2> QED
    BY <2>1, <1>1 DEF Types, VariableTypes
<1>5. ToldOK'
  BY <1>2, <1>3, ToldKept
<1> QED
  BY <1>1, <1>2, <1>3, <1>4, <1>5, StillTold

\* AllTold keeps the invariant of what is told.
LEMMA AllToldTold ==
    ASSUME BaseInv, ToldInv, AllTold
    PROVE  ToldInv' /\ PlacesKept
<1>1. Types
  BY BaseOf
<1>2. /\ PlacesKept
      /\ \A d \in 1 .. Len(stack') : d \in 1 .. Len(stack) /\ stack'[d] = stack[d]
  BY <1>1, KeptByAllTold
<1>3. UNCHANGED <<state, number, life, pid, of, heard>>
  BY DEF AllTold, kernelVars, objectVars
<1>4. ToldOK'
  BY <1>2, <1>3, ToldKept
<1> QED
  BY <1>1, <1>2, <1>3, <1>4, StillTold

\* No call goes on, no object is made and no child is born or reaped.
LEMMA QuietTold ==
    ASSUME BaseInv, ToldInv, UNCHANGED <<number, pid, of, heard, stack>>,
           \A c \in Children : /\ state'[c] = "gone" <=> state[c] = "gone"
                               /\ state'[c] = "unborn" => state[c] = "unborn",
           \A o \in Objects : life'[o] = life[o] \/ life'[o] = "deleted"
    PROVE  ToldInv' /\ PlacesKept
<1>1. PlacesKept /\ ToldOK'
  BY KeptWhenStill, ToldKept
<1> QED
  BY <1>1, BaseOf, StillTold

\* The invariant of what is told holds at the start.
LEMMA ToldStart ==
    ASSUME ProcessesAssumption, Init
    PROVE  ToldInv
<1>1. \A d, k \in Nat : ~ToTell(d, k)
  BY DEF Init, ToTell
<1>2. WaitingOK /\ ToldOK
  BY <1>1 DEF WaitingOK, ToldOK, Init
<1>3. HeardOK
  BY DEF HeardOK, Init
<1>4. GoneOK
  BY DEF GoneOK, Init, ProcessesAssumption
<1> QED
  BY <1>2, <1>3, <1>4 DEF ToldInv

\* What each step does to whoever is yet to be told: calls that begin take objects
\* that are alive.
LEMMA ToldStep ==
    ASSUME BaseInv, ToldInv, ~SharedWait, [Next]_vars
    PROVE  ToldInv' /\ \A p : Waiting(p)' => Waiting(p) \/ p \in Alive
<1> DEFINE G == ToldInv' /\ \A p : Waiting(p)' => Waiting(p) \/ p \in Alive
<1> SUFFICES G
  OBVIOUS
<1>0. PlacesKept => \A p : Waiting(p)' => Waiting(p)
  BY KeptWaiting
<1>1. ASSUME NEW c \in Children, Lead(c) \/ Exit(c)
      PROVE  G
  <2>1. UNCHANGED <<number, life, pid, of, heard, stack>>
    BY <1>1 DEF Lead, Exit, objectVars
  <2>2. /\ state[c] \in {"starting", "running"}
        /\ state' = [state EXCEPT ![c] = "running"] \/ state' = [state EXCEPT ![c] = "zombie"]
    BY <1>1 DEF Lead, Exit
  <2>3. \A d \in Children : /\ state'[d] = "gone" <=> state[d] = "gone"
                            /\ state'[d] = "unborn" => state[d] = "unborn"
    BY <2>2, BaseOf
  <2> QED
    BY <2>1, <2>3, <1>0, QuietTold
<1>2. ASSUME UNCHANGED <<state, number, pid, of, heard, stack>>,
             \A o \in Objects : life'[o] = life[o] \/ life'[o] = "deleted"
      PROVE  G
  BY <1>2, <1>0, QuietTold
<1>3. ASSUME NEW o \in Objects, NEW c \in Children, NEW n \in Pids, Create(o, c, n)
      PROVE  G
  <2>1. UNCHANGED stack
    BY <1>3 DEF Create
  <2> QED
    BY <2>1, <1>0, <1>3, CreateTold, KeptWhenStill
<1>4. ASSUME NEW o \in Objects, NEW c \in Children, NEW n \in Pids,
             NEW h \in Objects, NEW d \in Children, NEW m \in Pids,
             CreateWithHelper(o, c, n, h, d, m)
      PROVE  G
  <2>1. UNCHANGED stack
    BY <1>4 DEF CreateWithHelper
  <2> QED
    BY <2>1, <1>0, <1>4, HelperTold, KeptWhenStill
<1>5. ASSUME NEW o \in Objects, NEW p \in Objects, Attach(o, p)
      PROVE  G
  <2>1. UNCHANGED stack
    BY <1>5 DEF Attach
  <2> QED
    BY <2>1, <1>0, <1>5, AttachTold, KeptWhenStill
<1>6. ASSUME NEW o \in Objects, Delete(o)
      PROVE  G
  <2>1. /\ UNCHANGED <<state, number, pid, of, heard, stack>>
        /\ life' = [life EXCEPT ![o] = "deleted"]
    BY <1>6 DEF Delete, Destroyed, kernelVars
  <2>2. \A p \in Objects : life'[p] = life[p] \/ life'[p] = "deleted"
    BY <2>1, BaseOf
  <2> QED
    BY <2>1, <2>2, <1>2
<1>7. ASSUME NEW o \in Objects,
             ShouldDeleteWhenFinished(o) \/ QuitAtExit(o) \/ KillAtExit(o) \/ Ignore(o) \/ SendSignal(o)
      PROVE  G
  <2>1. UNCHANGED <<state, number, life, pid, of, heard, stack>>
    BY <1>7 DEF ShouldDeleteWhenFinished, QuitAtExit, KillAtExit, Ignore, SendSignal,
                kernelVars, objectVars
  <2> QED
    BY <2>1, <1>2
<1>8. ASSUME CleanUp \/ UNCHANGED vars
      PROVE  G
  <2>1. UNCHANGED <<state, number, life, pid, of, heard, stack>>
    BY <1>8 DEF CleanUp, vars, kernelVars, objectVars
  <2> QED
    BY <2>1, <1>2
<1>9. ASSUME NEW o \in Objects, WaitUntilFinished(o)
      PROVE  G
  BY <1>9, WaitTold
<1>10. CASE CheckForFinishedChild
  BY <1>10, CheckTold
<1>11. CASE Tell
  BY <1>11, TellTold
<1>12. CASE Told
  BY <1>12, <1>0, ToldTold
<1>13. CASE AllTold
  BY <1>13, <1>0, AllToldTold
<1> HIDE DEF G
<1>14. CASE Environment
  BY <1>14, <1>1 DEF Environment
<1>15. CASE Application
  BY <1>15, <1>3, <1>4, <1>5, <1>6, <1>7, <1>9, Zenon DEF Application
<1> QED
  BY <1>8, <1>10, <1>11, <1>12, <1>13, <1>14, <1>15 DEF Next, Loop

\* An object says at most once that its child has finished, with the status of that
\* child, when only one object is asked to wait for a child (CheckForFinishedChild,
\* WaitUntilFinished): a child is reaped once, and its objects are then all taken.
THEOREM ExitHeardOnce ==
    ASSUME ~SharedWait
    PROVE  Spec => []HeardOnce
<1>1. Init => ToldInv
  BY ToldStart, ProcessesAssumption
<1>2. BaseInv /\ ToldInv /\ [Next]_vars => ToldInv'
  BY ToldStep
<1>3. ASSUME BaseInv, ToldInv
      PROVE  HeardOnce
  <2> SUFFICES ASSUME NEW o \in Objects
               PROVE  Len(heard[o]) <= 1 /\ Range(heard[o]) \subseteq {of[o]}
    BY DEF HeardOnce
  <2>1. heard[o] = <<>> \/ heard[o] = <<of[o]>>
    BY <1>3 DEF ToldInv, HeardOK
  <2>2. /\ Len(<<>>) <= 1 /\ Range(<<>>) \subseteq {of[o]}
        /\ Len(<<of[o]>>) <= 1 /\ Range(<<of[o]>>) \subseteq {of[o]}
    BY DEF Range
  <2> QED
    BY <2>1, <2>2
<1> QED
  BY <1>1, <1>2, <1>3, AlwaysBase, PTL DEF Spec

-----------------------------------------------------------------------------
(* Deleted objects.                                                        *)

\* Whoever is yet to be told is alive.
LEMMA AliveStep ==
    ASSUME BaseInv, ToldInv, AliveInv, ~SharedWait, ~DeleteTaken, [Next]_vars
    PROVE  AliveInv'
<1>1. \A p : Waiting(p)' => Waiting(p) \/ p \in Alive
  BY ToldStep
<1>2. \A p \in Objects : Waiting(p)' => life[p] = "alive"
  BY <1>1 DEF AliveInv, Alive
<1>3. ASSUME \A o \in Objects : life[o] = "alive" => life'[o] = "alive"
      PROVE  AliveInv'
  BY <1>2, <1>3 DEF AliveInv
<1>4. CASE UNCHANGED life
  BY <1>3, <1>4
<1>5. life \in [Objects -> {"unborn", "alive", "deleted"}]
  BY BaseOf
<1>6. ASSUME NEW o \in Objects, Delete(o)
      PROVE  AliveInv'
  <2>1. o \notin ToCome /\ life' = [life EXCEPT ![o] = "deleted"] /\ UNCHANGED stack
    BY <1>6 DEF Delete, Destroyed
  <2>2. ~Waiting(o) /\ (Waiting(o)' <=> Waiting(o))
    BY <2>1, BaseOf, WaitingTaken, KeptWhenStill, KeptWaiting
  <2>3. \A p \in Objects : p # o => life'[p] = life[p]
    BY <2>1, <1>5
  <2> QED
    BY <2>2, <2>3, <1>2 DEF AliveInv
<1>7. CASE Told
  <2>1. CASE ~Top.auto
    BY <1>4, <1>7, <2>1, Zenon DEF Told
  <2>2. CASE Top.auto
    <3>1. PICK o : o = Top.list[Top.i]
      OBVIOUS
    <3>2. life' = [life EXCEPT ![o] = "deleted"]
      BY <1>7, <2>2, <3>1, Zenon DEF Told, Destroyed
    <3>3. /\ Len(stack) \in 1 .. Len(stack) /\ Top = stack[Len(stack)]
          /\ Top.i >= 1 /\ Top \in Calls
      BY <1>7, BaseOf, TopFacts DEF Told
    <3>4. heard[o] # <<>>
      <4>1. Top.i \in Nat
        BY <3>3, CallFields
      <4>2. Top.i \in 1 .. Top.i
        BY <3>3, <4>1
      <4> QED
        BY <3>1, <3>3, <4>2 DEF ToldInv, ToldOK
    <3>5. ~Waiting(o)
      BY <3>4 DEF ToldInv, WaitingOK, Waiting
    <3>6. Waiting(o)' <=> Waiting(o)
      BY <1>7, ToldTold, KeptWaiting
    <3>7. \A p \in Objects : p # o => life'[p] = life[p]
      BY <3>2, <1>5
    <3> QED
      BY <3>5, <3>6, <3>7, <1>2 DEF AliveInv
  <2> QED
    BY <2>1, <2>2
<1>8. ASSUME NEW o \in Objects, NEW c \in Children, NEW n \in Pids, Create(o, c, n)
      PROVE  AliveInv'
  <2>1. life' = [life EXCEPT ![o] = "alive"]
    BY <1>8 DEF Create, Construct
  <2> QED
    BY <2>1, <1>3, <1>5
<1>9. ASSUME NEW o \in Objects, NEW c \in Children, NEW n \in Pids,
             NEW h \in Objects, NEW d \in Children, NEW m \in Pids,
             CreateWithHelper(o, c, n, h, d, m)
      PROVE  AliveInv'
  <2>1. life' = [life EXCEPT ![o] = "alive", ![h] = "alive"]
    BY <1>9 DEF CreateWithHelper
  <2>2. \A p \in Objects : life[p] = "alive" => life'[p] = "alive"
    BY <2>1, <1>5
  <2> QED
    BY <2>2, <1>3
<1>10. ASSUME NEW o \in Objects, NEW p \in Objects, Attach(o, p)
       PROVE  AliveInv'
  <2>1. life' = [life EXCEPT ![o] = "alive"]
    BY <1>10 DEF Attach, Construct
  <2> QED
    BY <2>1, <1>3, <1>5
<1>11. ASSUME NEW o \in Objects,
              \/ ShouldDeleteWhenFinished(o) \/ QuitAtExit(o) \/ KillAtExit(o) \/ Ignore(o)
              \/ SendSignal(o) \/ WaitUntilFinished(o)
       PROVE  AliveInv'
  <2>1. UNCHANGED life
    BY <1>11 DEF ShouldDeleteWhenFinished, QuitAtExit, KillAtExit, Ignore, SendSignal,
                 WaitUntilFinished, objectVars
  <2> QED
    BY <2>1, <1>4
<1>12. CASE Environment
  BY <1>4, <1>12 DEF Environment, Lead, Exit, objectVars
<1>13. CASE Application
  BY <1>13, <1>6, <1>8, <1>9, <1>10, <1>11, Zenon DEF Application
<1>14. CASE CheckForFinishedChild \/ Tell \/ AllTold
  BY <1>4, <1>14 DEF CheckForFinishedChild, Tell, AllTold, objectVars
<1>15. CASE CleanUp \/ UNCHANGED vars
  BY <1>4, <1>15 DEF CleanUp, vars, objectVars
<1> QED
  BY <1>7, <1>12, <1>13, <1>14, <1>15 DEF Next, Loop

\* The invariant of deleted objects holds at the start.
LEMMA AliveStart ==
    ASSUME Init
    PROVE  AliveInv
BY DEF Init, AliveInv, Waiting, ToTell

\* A signal is only sent by objects that are there.
LEMMA SignalSafe ==
    ASSUME NEW S, S \subseteq Alive, Signal(S), NoDangling
    PROVE  NoDangling'
<1>1. dangling' = (dangling \/ ~(S \subseteq Alive))
  BY DEF Signal
<1> QED
  BY <1>1, Zenon DEF NoDangling

\* No deleted object is used, by the loop that tells the objects of a child or at
\* exit (CheckForFinishedChild, CleanUpProcesses), when only one object is asked to
\* wait for a child and no listener deletes an object that is yet to be told: then
\* whoever is yet to be told is alive, as the one that deletes itself has been told.
THEOREM NoDeletedObjectUsed ==
    ASSUME ~SharedWait, ~DeleteTaken
    PROVE  Spec => []NoDangling
<1>1. Init => ToldInv /\ AliveInv /\ NoDangling
  BY ToldStart, AliveStart, ProcessesAssumption DEF Init, NoDangling
<1>2. BaseInv /\ ToldInv /\ [Next]_vars => ToldInv'
  BY ToldStep
<1>3. BaseInv /\ ToldInv /\ AliveInv /\ [Next]_vars => AliveInv'
  BY AliveStep
<1>4. ASSUME BaseInv, ToldInv, AliveInv, NoDangling, [Next]_vars
      PROVE  NoDangling'
  <2>1. ASSUME NEW o \in Objects, SendSignal(o)
        PROVE  NoDangling'
    <3>1. Signal({o}) /\ {o} \subseteq Alive
      BY <2>1 DEF SendSignal
    <3> QED
      BY <3>1, <1>4, SignalSafe
  <2>2. CASE CleanUp
    <3>1. Signal(quitList \cup killList)
      BY <2>2 DEF CleanUp
    <3>2. quitList \cup killList \subseteq Alive
      BY <1>4, BaseOf DEF ListsOK
    <3> QED
      BY <3>1, <3>2, <1>4, SignalSafe
  <2>3. CASE Tell
    <3>1. PICK o : o = Top.list[Top.i + 1]
      OBVIOUS
    <3>2. Waiting(o)
      BY <3>1, <2>3, <1>4, TellTold
    <3>3. o \in Alive
      BY <3>2, <1>4, BaseOf, PlaceFacts DEF AliveInv, Alive
    <3>4. dangling' = (o \notin Alive)
      BY <2>3, <3>1 DEF Tell
    <3> QED
      BY <3>3, <3>4, Zenon DEF NoDangling
  <2>4. CASE UNCHANGED dangling
    BY <1>4, <2>4 DEF NoDangling
  <2>5. Environment => UNCHANGED dangling
    BY DEF Environment, Lead, Exit
  <2>6. CheckForFinishedChild \/ Told \/ AllTold => UNCHANGED dangling
    BY DEF CheckForFinishedChild, Told, AllTold
  <2>7. Application => UNCHANGED dangling \/ \E o \in Objects : SendSignal(o)
    <3>1. \A o \in Objects, c \in Children, n \in Pids : Create(o, c, n) => UNCHANGED dangling
      BY DEF Create
    <3>2. \A o, h \in Objects, c, d \in Children, n, m \in Pids :
              CreateWithHelper(o, c, n, h, d, m) => UNCHANGED dangling
      BY DEF CreateWithHelper
    <3>3. \A o, p \in Objects : Attach(o, p) => UNCHANGED dangling
      BY DEF Attach
    <3>4. \A o \in Objects :
              Delete(o) \/ ShouldDeleteWhenFinished(o) \/ QuitAtExit(o) \/ KillAtExit(o)
                \/ Ignore(o) \/ WaitUntilFinished(o) => UNCHANGED dangling
      BY DEF Delete, ShouldDeleteWhenFinished, QuitAtExit, KillAtExit, Ignore, WaitUntilFinished
    <3> QED
      BY <3>1, <3>2, <3>3, <3>4, Zenon DEF Application
  <2>8. UNCHANGED vars => UNCHANGED dangling
    BY DEF vars
  <2> QED
    BY <1>4, <2>1, <2>2, <2>3, <2>4, <2>5, <2>6, <2>7, <2>8 DEF Next, Loop
<1> QED
  BY <1>1, <1>2, <1>3, <1>4, AlwaysBase, PTL DEF Spec
=============================================================================
