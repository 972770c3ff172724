-------------------------- MODULE CrashHandlerProofs --------------------------
(***************************************************************************)
(* Theorems about the crash handler, for any threads, stacks, tables and   *)
(* addresses, on both platforms.                                           *)
(*                                                                         *)
(* That the process dies with a report, or for one of three reasons, is    *)
(* not inductive: that the flag is set says nothing of who set it.         *)
(* WalkInv says what each place of a walk knows, FlagInv that whoever set  *)
(* the flag is in the handler, or came back to its guard with a page or a  *)
(* table gone.                                                             *)
(***************************************************************************)
EXTENDS CrashHandler, FiniteSetTheorems, WellFoundedInduction, TLAPS

-----------------------------------------------------------------------------
(* Induction without an operator parameter, from the well-foundedness of       *)
(* the naturals: a set of naturals that has 0 and with each number the next    *)
(* one is all of Nat.  With it the recursive functions behind the folds of the *)
(* community modules are shown to exist, and computed step by step.            *)

LEMMA NatMin ==
  ASSUME NEW T \in SUBSET Nat, T # {}
  PROVE  \E x \in T : \A y \in T : x <= y
<1> DEFINE R == {ss \in Nat \X Nat : ss[1] < ss[2]}
<1>1. IsWellFoundedOn(R, Nat)
  BY NatLessThanWellFounded DEF OpToRel
<1>2. \A x, y \in Nat : y < x => <<y, x>> \in R
  OBVIOUS
<1> HIDE DEF R
<1>3. PICK x \in T : \A y \in T : ~ (<<y, x>> \in R)
  BY <1>1, WFMin
<1>4. ASSUME NEW y \in T PROVE x <= y
  <2>1. x \in Nat /\ y \in Nat
    OBVIOUS
  <2>2. ~ (y < x)
    BY <1>2, <1>3, <2>1
  <2> QED BY <2>1, <2>2
<1> QED BY <1>4

LEMMA SetInduction ==
  ASSUME NEW S, 0 \in S, \A n \in Nat : n \in S => n + 1 \in S
  PROVE  Nat \subseteq S
<1> SUFFICES ASSUME Nat \ S # {} PROVE FALSE
  OBVIOUS
<1>1. PICK x \in Nat \ S : \A y \in Nat \ S : x <= y
  BY NatMin
<1>2. x - 1 \in Nat /\ x - 1 \notin S
  BY <1>1
<1> QED BY <1>1, <1>2

\* A bounded set of naturals has a largest member.
LEMMA MaxFacts ==
  ASSUME NEW n \in Nat, NEW s \in SUBSET (0..n), s # {}
  PROVE  Max(s) \in s /\ \A y \in s : y <= Max(s)
<1> DEFINE T == {n - x : x \in s}
<1>0. \A x \in s : x \in Nat /\ n - x \in Nat
  OBVIOUS
<1>1. T \in SUBSET Nat /\ T # {}
  BY <1>0
<1>2. PICK m \in T : \A y \in T : m <= y
  BY <1>1, NatMin
<1>3. PICK x \in s : m = n - x
  OBVIOUS
<1>4. \A y \in s : n - y \in T
  OBVIOUS
<1> HIDE DEF T
<1>5. \A y \in s : m <= n - y
  BY <1>2, <1>4
<1>6. \A y \in s : x >= y
  BY <1>0, <1>3, <1>5
<1>7. Max(s) \in s /\ \A y \in s : Max(s) >= y
  BY <1>6 DEF Max
<1>8. \A y \in s : y <= Max(s)
  BY <1>0, <1>7
<1> QED BY <1>7, <1>8

LEMMA MaxIs ==
  ASSUME NEW s \in SUBSET Int, NEW m \in s, \A y \in s : y <= m
  PROVE  Max(s) = m
<1>1. \A y \in s : m >= y
  OBVIOUS
<1>2. Max(s) \in s /\ \A y \in s : Max(s) >= y
  BY <1>1 DEF Max
<1>3. m <= Max(s) /\ Max(s) <= m /\ m \in Int /\ Max(s) \in Int
  BY <1>2
<1> QED BY <1>3

\* The recursion of a left fold, over the sets of positions, has a solution.
SolvesFold(g, n, b, step) ==
  \A s \in SUBSET (1..n) :
    g[s] = IF s = {} THEN b ELSE step[<<g[s \ {Max(s)}], Max(s)>>]

LEMMA FoldExists ==
  ASSUME NEW N \in Nat, NEW T, NEW b \in T, NEW step \in [T \X (1..N) -> T]
  PROVE  \E g \in [SUBSET (1..N) -> T] : SolvesFold(g, N, b, step)
<1> DEFINE Solves(g, n) == SolvesFold(g, n, b, step)
           G(n) == {g \in [SUBSET (1..n) -> T] : Solves(g, n)}
           S == {n \in Nat : n <= N => G(n) # {}}
<1>1. 0 \in S
  <2> DEFINE g == [s \in SUBSET (1..0) |-> b]
  <2>1. 1..0 = {}
    OBVIOUS
  <2>2. g \in [SUBSET (1..0) -> T] /\ Solves(g, 0)
    BY <2>1 DEF SolvesFold
  <2> QED BY <2>2
<1> HIDE DEF Solves
<1>2. ASSUME NEW n \in Nat, n \in S PROVE n + 1 \in S
  <2> SUFFICES ASSUME n + 1 <= N PROVE G(n + 1) # {}
    <3> HIDE DEF G
    <3> QED OBVIOUS
  <2>0. G(n) # {}
    <3> HIDE DEF G
    <3> QED BY <1>2
  <2>1. PICK g \in [SUBSET (1..n) -> T] : Solves(g, n)
    BY <2>0
  <2> USE DEF Solves, SolvesFold
  <2> DEFINE h == [s \in SUBSET (1..(n + 1)) |->
                     IF n + 1 \in s THEN step[<<g[s \ {n + 1}], n + 1>>] ELSE g[s]]
  <2>2. \A s \in SUBSET (1..(n + 1)) : s \ {n + 1} \in SUBSET (1..n)
    OBVIOUS
  <2>3. \A s \in SUBSET (1..(n + 1)) : n + 1 \notin s => s \in SUBSET (1..n)
    OBVIOUS
  <2>4. \A s \in SUBSET (1..n) : s \in SUBSET (1..(n + 1)) /\ h[s] = g[s]
    OBVIOUS
  <2>5. h \in [SUBSET (1..(n + 1)) -> T]
    <3>1. ASSUME NEW s \in SUBSET (1..(n + 1)) PROVE h[s] \in T
      <4>1. CASE n + 1 \in s
        <5>1. g[s \ {n + 1}] \in T /\ n + 1 \in 1..N
          BY <2>2
        <5>2. <<g[s \ {n + 1}], n + 1>> \in T \X (1..N)
          BY <5>1
        <5> QED BY <4>1, <5>2
      <4>2. CASE n + 1 \notin s
        BY <2>3, <4>2
      <4> QED BY <4>1, <4>2
    <3> QED BY <3>1
  <2>6. ASSUME NEW s \in SUBSET (1..(n + 1))
        PROVE  h[s] = IF s = {} THEN b ELSE step[<<h[s \ {Max(s)}], Max(s)>>]
    <3>1. CASE n + 1 \in s
      <4>1. Max(s) = n + 1
        BY <3>1, MaxIs
      <4>2. h[s \ {n + 1}] = g[s \ {n + 1}]
        BY <2>2, <2>4
      <4> QED BY <3>1, <4>1, <4>2
    <3>2. CASE n + 1 \notin s
      <4>1. s \in SUBSET (1..n) /\ h[s] = g[s]
        BY <2>3, <3>2
      <4>2. s \ {Max(s)} \in SUBSET (1..n) /\ h[s \ {Max(s)}] = g[s \ {Max(s)}]
        BY <4>1, <2>4
      <4> QED BY <2>1, <4>1, <4>2
    <3> QED BY <3>1, <3>2
  <2> HIDE DEF h
  <2> QED BY <2>5, <2>6
<1>3. Nat \subseteq S
  <2> HIDE DEF S
  <2> QED BY <1>1, <1>2, SetInduction
<1>4. G(N) # {}
  <2> HIDE DEF G
  <2> QED BY <1>3
<1> QED BY <1>4 DEF Solves

-----------------------------------------------------------------------------
(* The inductive invariant *)

Names == STRING \cup {"<unknown>"}

CrashType ==
  /\ platform \in {"win32", "posix"} /\ image \in Images
  /\ installed \in BOOLEAN /\ pipe \in BOOLEAN /\ started \in BOOLEAN
  /\ known \in 0..4 /\ clearing \in 0..4
  /\ memory \in [DOMAIN memory -> [next : Nat, ret : Nat, words : Nat]]
  /\ in_handler \in BOOLEAN
  /\ pc \in [Threads -> Labels]
  /\ sig \in [Threads -> Signals \cup {"trap", None}]
  /\ at \in [Threads -> Nat] /\ frame \in [Threads -> Nat] /\ index \in [Threads -> Nat]
  /\ function \in [Threads -> FunctionInfo \cup {None}]
  /\ shown \in [Threads -> [at : Nat, symbol : Names] \cup {None}]
  /\ exit \in {"no", "report", "guard", "default", "overflow"}

Outside == {"run", "guard", "claim"}

\* Before the start nobody faults; with the program the tables are all there or
\* none is.  A page that was probed is there or was given back.
WalkOf(t) ==
  /\ pc[t] \in {"functions", "locations"} => known = 4
  /\ pc[t] = "deref" => /\ frame[t] \in DOMAIN memory
                        /\ memory[frame[t]].words >= 2 \/ frame[t] \in gone
  /\ pc[t] \notin Outside => in_handler
  /\ pc[t] \in {"run", "claim"} \/ (pc[t] = "guard" /\ ~in_handler) => index[t] = 0
  /\ pc[t] \in {"frame", "functions", "place", "locations", "deref"} => index[t] < FrameLimit
  /\ index[t] <= FrameLimit

WalkInv ==
  /\ ~started => clearing = 0 /\ \A t \in Threads : pc[t] = "run"
  /\ started => known \in {0, 4}
  /\ \A t \in Threads : WalkOf(t)

\* What may go away under the walk of a thread
Blamed(t) == frame[t] \in gone \/ clearing > 0

FlagInv ==
  in_handler =>
    \E t \in Threads : pc[t] \notin Outside \/ (pc[t] = "guard" /\ Blamed(t))

CrashInv == CrashType /\ WalkInv /\ FlagInv

-----------------------------------------------------------------------------
(* Helpers *)

LEMMA Outcomes ==
  /\ Outside \subseteq Labels
  /\ {"frame", "functions", "place", "locations", "probe", "deref", "end"}
       \subseteq Labels \ Outside
BY DEF Outside, Labels

LEMMA SetFacts ==
  ASSUME CrashType
  PROVE  /\ Len(Globals) = 4
         /\ IsSet("functions") <=> clearing < 1 /\ 1 <= known
         /\ IsSet("functionCount") <=> clearing < 2 /\ 2 <= known
         /\ IsSet("locations") <=> clearing < 3 /\ 3 <= known
         /\ IsSet("locationCount") <=> clearing < 4 /\ 4 <= known
<1>1. Len(Globals) = 4 /\ 1..4 = {1, 2, 3, 4}
  BY DEF Globals
<1>2. /\ Globals[1] = "functions" /\ Globals[2] = "functionCount"
      /\ Globals[3] = "locations" /\ Globals[4] = "locationCount"
  BY DEF Globals
<1> QED BY <1>1, <1>2 DEF IsSet

LEMMA MinFacts ==
  ASSUME NEW S \in SUBSET Nat, S # {}
  PROVE  Min(S) \in S /\ \A x \in S : Min(S) <= x
BY NatMin DEF Min

\* The function that holds an address, if there is one, is found.
LEMMA FunctionFound ==
  ASSUME CrashType, NEW addr
  PROVE  /\ FindFunction(addr) \in FunctionInfo \cup {None}
         /\ FindFunction(addr) # None => Inside(FindFunction(addr), addr)
         /\ \A f \in Range(image.functions) : Inside(f, addr) /\ addr \in Nat =>
               FindFunction(addr) = f
<1> DEFINE fs == image.functions
           hits == {i \in DOMAIN fs : Inside(fs[i], addr)}
<1>1. /\ fs \in Seq(FunctionInfo)
      /\ \A j, k \in DOMAIN fs : j < k =>
                fs[j].end <= fs[k].start \/ fs[k].end <= fs[j].start
  BY DataAssumption DEF CrashType
<1>2. /\ DOMAIN fs = 1..Len(fs) /\ Len(fs) \in Nat
      /\ \A i \in DOMAIN fs : fs[i] \in FunctionInfo
  BY <1>1
<1>3. FindFunction(addr) = IF hits = {} THEN None ELSE fs[Min(hits)]
  BY DEF FindFunction
<1>4. None \notin FunctionInfo
  BY DataAssumption
<1> HIDE DEF fs
<1>5. hits \in SUBSET Nat
  BY <1>2
<1>6. hits # {} => Min(hits) \in hits
  <2> HIDE DEF hits
  <2> QED BY <1>5, MinFacts
<1>7. /\ FindFunction(addr) \in FunctionInfo \cup {None}
      /\ FindFunction(addr) # None => Inside(FindFunction(addr), addr)
  BY <1>2, <1>3, <1>6
<1>8. ASSUME NEW j \in DOMAIN fs, Inside(fs[j], addr), addr \in Nat
      PROVE  FindFunction(addr) = fs[j]
  <2>1. j \in hits
    BY <1>8
  <2>2. PICK i \in DOMAIN fs : i = Min(hits) /\ Inside(fs[i], addr)
    BY <1>6, <2>1
  <2>3. ~ (fs[i].end <= fs[j].start) /\ ~ (fs[j].end <= fs[i].start)
    <3>1. fs[i] \in FunctionInfo /\ fs[j] \in FunctionInfo
      BY <1>2
    <3> QED BY <3>1, <1>8, <2>2 DEF Inside, FunctionInfo
  <2>4. i = j
    BY <1>1, <1>2, <2>3
  <2> QED BY <1>3, <2>1, <2>2, <2>4
<1>9. \A f \in Range(fs) : \E j \in DOMAIN fs : f = fs[j]
  BY DEF Range
<1> QED BY <1>7, <1>8, <1>9 DEF fs

\* What a location is for an address in a function: in its range, and not above.
Fits(l, addr, f) == (f # None => Inside(f, l.address)) /\ l.address <= addr

\* Of the entries at the positions of S, the highest; of equal ones the last.
BestOf(S, l, addr, f) ==
  LET ls == image.locations
  IN  IF \E i \in S : Fits(ls[i], addr, f)
      THEN \E i \in S : /\ l = ls[i] /\ Fits(l, addr, f)
                        /\ \A j \in S : Fits(ls[j], addr, f) =>
                             \/ ls[j].address < l.address
                             \/ ls[j].address = l.address /\ j <= i
      ELSE l = None

Higher(best, l, addr, f) ==
  IF Fits(l, addr, f) /\ (best = None \/ l.address >= best.address) THEN l ELSE best

LEMMA FoldLocation ==
  ASSUME NEW addr, NEW f
  PROVE  FindLocation(addr, f) =
           LET g == CHOOSE g : g = [s \in SUBSET DOMAIN image.locations |->
                      IF s = {} THEN None
                      ELSE Higher(g[s \ {Max(s)}], image.locations[Max(s)], addr, f)]
           IN  g[DOMAIN image.locations]
BY DEF FindLocation, FoldLeft, MapThenFoldSet, Higher, Fits

\* One turn of the loop of meth_runtime_find_location
LEMMA BestStep ==
  ASSUME CrashType, NEW addr \in Nat, NEW f \in FunctionInfo \cup {None},
         NEW k \in DOMAIN image.locations, NEW l, BestOf(1..(k - 1), l, addr, f)
  PROVE  BestOf(1..k, Higher(l, image.locations[k], addr, f), addr, f)
<1> DEFINE ls == image.locations
<1>1. /\ DOMAIN ls = 1..Len(ls) /\ Len(ls) \in Nat
      /\ \A i \in DOMAIN ls : ls[i] \in LocationInfo
  BY DataAssumption DEF CrashType
<1>2. None \notin LocationInfo
  BY DataAssumption
<1>3. k \in Nat /\ 1..k = (1..(k - 1)) \cup {k} /\ 1..k \subseteq DOMAIN ls
  BY <1>1
<1>4. \A i \in 1..k : ls[i].address \in Nat /\ ls[i] # None
  BY <1>1, <1>2, <1>3 DEF LocationInfo
<1> HIDE DEF ls
<1> DEFINE m == Higher(l, ls[k], addr, f)
<1>5. CASE Fits(ls[k], addr, f) /\ (l = None \/ ls[k].address >= l.address)
  <2>1. m = ls[k]
    BY <1>5 DEF Higher
  <2>2. ASSUME NEW j \in 1..k, Fits(ls[j], addr, f)
        PROVE  ls[j].address < m.address \/ (ls[j].address = m.address /\ j <= k)
    <3>1. CASE j = k
      BY <2>1, <3>1, <1>3
    <3>2. CASE j # k
      <4>1. j \in 1..(k - 1) /\ j <= k
        BY <1>3, <3>2
      <4>2. PICK i \in 1..(k - 1) : l = ls[i] /\ (ls[j].address < l.address \/ ls[j].address = l.address)
        BY <4>1, <2>2 DEF BestOf, ls
      <4>3. l # None
        BY <4>2, <1>3, <1>4
      <4>4. ls[k].address >= l.address /\ l.address \in Nat /\ ls[j].address \in Nat
              /\ ls[k].address \in Nat
        BY <1>3, <1>4, <1>5, <4>2, <4>3
      <4> QED BY <2>1, <4>1, <4>2, <4>4
    <3> QED BY <3>1, <3>2
  <2> HIDE DEF m
  <2>3. \E i \in 1..k : Fits(ls[i], addr, f)
    BY <1>3, <1>5
  <2>4. k \in 1..k /\ m = ls[k] /\ Fits(m, addr, f)
    BY <1>3, <1>5, <2>1
  <2> QED BY <2>2, <2>3, <2>4 DEF BestOf, ls, m
<1>6. CASE ~ (Fits(ls[k], addr, f) /\ (l = None \/ ls[k].address >= l.address))
  <2>1. m = l
    BY <1>6 DEF Higher
  <2>2. CASE \E i \in 1..(k - 1) : Fits(ls[i], addr, f)
    <3>1. PICK i \in 1..(k - 1) :
             /\ l = ls[i] /\ Fits(l, addr, f)
             /\ \A j \in 1..(k - 1) : Fits(ls[j], addr, f) =>
                   \/ ls[j].address < l.address
                   \/ ls[j].address = l.address /\ j <= i
      BY <2>2 DEF BestOf, ls
    <3>2. i \in 1..k /\ l # None /\ l.address \in Nat
      BY <1>3, <1>4, <3>1
    <3>3. Fits(ls[k], addr, f) => ls[k].address < l.address
      BY <1>3, <1>4, <1>6, <3>2
    <3>4. \A j \in 1..k : Fits(ls[j], addr, f) =>
                   \/ ls[j].address < l.address
                   \/ ls[j].address = l.address /\ j <= i
      BY <1>3, <3>1, <3>3
    <3> HIDE DEF m
    <3> QED BY <2>1, <2>2, <3>1, <3>2, <3>4, <1>3 DEF BestOf, ls, m
  <2>3. CASE ~ \E i \in 1..(k - 1) : Fits(ls[i], addr, f)
    <3>1. l = None
      BY <2>3 DEF BestOf, ls
    <3>2. ~ \E i \in 1..k : Fits(ls[i], addr, f)
      BY <1>3, <1>6, <2>3, <3>1
    <3> QED BY <2>1, <3>1, <3>2 DEF BestOf, ls, m
  <2> QED BY <2>2, <2>3
<1> QED BY <1>5, <1>6

\* The loop has found the best of all entries.
LEMMA LocationFound ==
  ASSUME CrashType, NEW addr \in Nat, NEW f \in FunctionInfo \cup {None}
  PROVE  BestOf(DOMAIN image.locations, FindLocation(addr, f), addr, f)
<1> DEFINE ls == image.locations
           n == Len(ls)
           T == LocationInfo \cup {None}
           step == [p \in T \X (1..n) |-> Higher(p[1], ls[p[2]], addr, f)]
           Fold(g) == [s \in SUBSET DOMAIN ls |->
                      IF s = {} THEN None
                      ELSE Higher(g[s \ {Max(s)}], ls[Max(s)], addr, f)]
           it == CHOOSE g : g = Fold(g)
<1>1. /\ DOMAIN ls = 1..n /\ n \in Nat
      /\ \A i \in DOMAIN ls : ls[i] \in LocationInfo
  BY DataAssumption DEF CrashType
<1>2. step \in [T \X (1..n) -> T]
  BY <1>1 DEF Higher
<1>3. PICK g \in [SUBSET (1..n) -> T] : SolvesFold(g, n, None, step)
  <2> HIDE DEF step, n, T
  <2>1. None \in T
    BY DEF T
  <2> QED BY <1>1, <1>2, <2>1, FoldExists
<1>4. g = Fold(g)
  <2>1. ASSUME NEW s \in SUBSET (1..n), s # {}
        PROVE  g[s] = Higher(g[s \ {Max(s)}], ls[Max(s)], addr, f)
    <3>1. Max(s) \in s
      <4>1. s \in SUBSET (0..n)
        BY <1>1
      <4> QED BY <1>1, <2>1, <4>1, MaxFacts
    <3>2. <<g[s \ {Max(s)}], Max(s)>> \in T \X (1..n)
      BY <3>1
    <3> QED BY <1>3, <2>1, <3>2 DEF SolvesFold
  <2> QED BY <1>1, <1>3, <2>1 DEF SolvesFold
<1>5. it = Fold(it)
  <2> HIDE DEF Fold
  <2> QED BY <1>4
<1>6. FindLocation(addr, f) = it[1..n]
  BY <1>1, FoldLocation
<1> HIDE DEF it
<1> DEFINE S == {k \in Nat : k <= n => BestOf(1..k, it[1..k], addr, f)}
<1>7. 0 \in S
  <2>1. 1..0 = {} /\ it[{}] = None
    BY <1>5
  <2> QED BY <2>1 DEF BestOf
<1>8. ASSUME NEW k \in Nat, k \in S PROVE k + 1 \in S
  <2> SUFFICES ASSUME k + 1 <= n PROVE BestOf(1..(k + 1), it[1..(k + 1)], addr, f)
    OBVIOUS
  <2>1. BestOf(1..k, it[1..k], addr, f)
    BY <1>1, <1>8
  <2>2. 1..(k + 1) \in SUBSET (1..n) /\ 1..(k + 1) # {} /\ k + 1 \in 1..(k + 1)
    BY <1>1
  <2>3. Max(1..(k + 1)) = k + 1
    <3>1. 1..(k + 1) \in SUBSET Int /\ \A y \in 1..(k + 1) : y <= k + 1
      OBVIOUS
    <3> QED BY <2>2, <3>1, MaxIs
  <2>4. (1..(k + 1)) \ {k + 1} = 1..k /\ 1..((k + 1) - 1) = 1..k
    OBVIOUS
  <2>5. it[1..(k + 1)] = Higher(it[1..k], ls[k + 1], addr, f)
    BY <1>1, <1>5, <2>2, <2>3, <2>4
  <2>6. k + 1 \in DOMAIN ls
    BY <1>1, <2>2
  <2>7. BestOf(1..((k + 1) - 1), it[1..k], addr, f)
    BY <2>1, <2>4
  <2>8. BestOf(1..(k + 1), Higher(it[1..k], ls[k + 1], addr, f), addr, f)
    BY <2>6, <2>7, BestStep
  <2> QED BY <2>5, <2>8
<1>9. Nat \subseteq S
  <2> HIDE DEF S
  <2> QED BY <1>7, <1>8, SetInduction
<1> QED BY <1>1, <1>6, <1>9

-----------------------------------------------------------------------------
(* Types *)

LEMMA InitCrash == Init => CrashInv
<1> SUFFICES ASSUME Init PROVE CrashInv
  OBVIOUS
<1>1. memory \in [DOMAIN memory -> [next : Nat, ret : Nat, words : Nat]]
  BY DataAssumption DEF Init
<1>2. CrashType
  <2>1. pc \in [Threads -> Labels]
    BY DEF Init, Labels
  <2>2. /\ platform \in {"win32", "posix"} /\ image \in Images
        /\ known \in 0..4 /\ clearing \in 0..4
    BY CrashAssumption DEF Init
  <2>6. /\ installed \in BOOLEAN /\ pipe \in BOOLEAN /\ started \in BOOLEAN
        /\ in_handler \in BOOLEAN
    BY DEF Init
  <2>3. /\ at \in [Threads -> Nat] /\ frame \in [Threads -> Nat]
        /\ index \in [Threads -> Nat]
    BY DEF Init
  <2>4. /\ sig \in [Threads -> Signals \cup {"trap", None}]
        /\ function \in [Threads -> FunctionInfo \cup {None}]
        /\ shown \in [Threads -> [at : Nat, symbol : Names] \cup {None}]
    BY DEF Init
  <2>5. exit \in {"no", "report", "guard", "default", "overflow"}
    BY DEF Init
  <2> QED BY <1>1, <2>1, <2>2, <2>3, <2>4, <2>5, <2>6 DEF CrashType
<1>3. WalkInv
  BY CrashAssumption DEF Init, WalkInv, WalkOf, Outside
<1> QED BY <1>2, <1>3 DEF CrashInv, FlagInv, Init

LEMMA GotoType ==
  ASSUME CrashType, NEW t \in Threads, NEW l \in Labels, Goto(t, l)
  PROVE  /\ pc' \in [Threads -> Labels] /\ pc'[t] = l
         /\ \A u \in Threads : u # t => pc'[u] = pc[u]
BY DEF CrashType, Goto

LEMMA EnterFacts ==
  ASSUME CrashType, NEW t \in Threads, NEW s \in Signals \cup {"trap"},
         NEW addr \in CodeAddrs, NEW fp \in FramePointers, EnterHandler(t, s, addr, fp)
  PROVE  CrashType'
<1>1. pc' \in [Threads -> Labels]
  BY GotoType DEF EnterHandler, Labels
<1>2. addr \in Nat /\ fp \in Nat
  BY DataAssumption
<1> QED BY <1>1, <1>2
      DEF CrashType, EnterHandler, env_vars, image_vars, memory_vars

LEMMA TerminateType ==
  ASSUME CrashType, NEW how \in {"report", "guard", "default", "overflow"}, Terminate(how)
  PROVE  CrashType'
BY DEF CrashType, Terminate, env_vars, image_vars, memory_vars, walk_vars

LEMMA FaultInsideType ==
  ASSUME CrashType, NEW t \in Threads, FaultInside(t) PROVE CrashType'
<1>1. CASE Terminate("default")
  BY <1>1, TerminateType
<1>2. CASE /\ Goto(t, "guard")
           /\ sig' = [sig EXCEPT ![t] = "SEGV"]
           /\ UNCHANGED <<env_vars, image_vars, memory_vars, in_handler, walk_vars, exit>>
  <2>1. pc' \in [Threads -> Labels]
    BY <1>2, GotoType DEF Labels
  <2> QED BY <1>2, <2>1 DEF CrashType, Signals, env_vars, image_vars, memory_vars, walk_vars
<1> QED BY <1>1, <1>2 DEF FaultInside

LEMMA PrintType ==
  ASSUME CrashType, NEW t \in Threads, NEW l \in LocationInfo \cup {None}, PrintFrame(t, l)
  PROVE  CrashType'
<1>1. pc' \in [Threads -> Labels]
  BY GotoType DEF PrintFrame, Labels
<1>2. Symbol(function[t], l) \in Names
  <2>1. function[t] \in FunctionInfo \cup {None}
    BY DEF CrashType
  <2>2. CASE l # None
    BY <2>2 DEF Symbol, LocationInfo, Names
  <2>3. CASE l = None /\ function[t] # None
    BY <2>1, <2>3 DEF Symbol, FunctionInfo, Names
  <2>4. CASE l = None /\ function[t] = None
    BY <2>4 DEF Symbol, Names
  <2> QED BY <2>2, <2>3, <2>4
<1>3. shown' \in [Threads -> [at : Nat, symbol : Names] \cup {None}]
  <2>1. [at |-> at[t], symbol |-> Symbol(function[t], l)] \in [at : Nat, symbol : Names]
    BY <1>2 DEF CrashType
  <2> QED BY <2>1 DEF CrashType, PrintFrame
<1>4. index' \in [Threads -> Nat] /\ function' \in [Threads -> FunctionInfo \cup {None}]
  BY DEF CrashType, PrintFrame
<1> QED BY <1>1, <1>3, <1>4 DEF CrashType, PrintFrame, env_vars, image_vars, memory_vars

LEMMA LocationType ==
  ASSUME CrashType, NEW addr \in Nat, NEW f \in FunctionInfo \cup {None}
  PROVE  FindLocation(addr, f) \in LocationInfo \cup {None}
<1>1. \A i \in DOMAIN image.locations : image.locations[i] \in LocationInfo
  BY DataAssumption DEF CrashType
<1> QED BY <1>1, LocationFound DEF BestOf

LEMMA HandleType ==
  ASSUME CrashType, WalkInv, NEW t \in Threads, Handle(t) PROVE CrashType'
<1>1. CASE GuardTaken(t)
  BY <1>1, TerminateType DEF GuardTaken
<1>2. CASE Guard(t)
  <2>1. pc' \in [Threads -> Labels]
    BY <1>2, GotoType DEF Guard, Labels
  <2> QED BY <1>2, <2>1 DEF Guard, CrashType, env_vars, image_vars, memory_vars, walk_vars
<1>3. CASE Claim(t)
  <2>1. pc' \in [Threads -> Labels]
    BY <1>3, GotoType DEF Claim, Labels
  <2> QED BY <1>3, <2>1 DEF Claim, CrashType, env_vars, image_vars, memory_vars, walk_vars
<1>4. CASE FunctionCount(t)
  <2>1. pc' \in [Threads -> Labels]
    BY <1>4, GotoType DEF FunctionCount, Labels
  <2> QED BY <1>4, <2>1 DEF FunctionCount, CrashType, env_vars, image_vars, memory_vars, walk_vars
<1>5. CASE FunctionTable(t)
  <2>1. CASE IsSet("functions")
    <3>1. pc' \in [Threads -> Labels]
      BY <1>5, <2>1, GotoType DEF FunctionTable, Labels
    <3>2. FindFunction(at[t]) \in FunctionInfo \cup {None}
      BY FunctionFound
    <3> QED BY <1>5, <2>1, <3>1, <3>2
          DEF FunctionTable, CrashType, env_vars, image_vars, memory_vars
  <2>2. CASE ~ IsSet("functions")
    BY <1>5, <2>2, FaultInsideType DEF FunctionTable
  <2> QED BY <2>1, <2>2
<1>6. CASE LocationCount(t)
  <2>1. CASE IsSet("locationCount")
    <3>1. pc' \in [Threads -> Labels]
      BY <1>6, <2>1, GotoType DEF LocationCount, Labels
    <3> QED BY <1>6, <2>1, <3>1
          DEF LocationCount, CrashType, env_vars, image_vars, memory_vars, walk_vars
  <2>2. CASE ~ IsSet("locationCount")
    BY <1>6, <2>2, PrintType DEF LocationCount
  <2> QED BY <2>1, <2>2
<1>7. CASE LocationTable(t)
  <2>1. CASE IsSet("locations")
    <3>1. at[t] \in Nat /\ function[t] \in FunctionInfo \cup {None}
      BY DEF CrashType
    <3>2. FindLocation(at[t], function[t]) \in LocationInfo \cup {None}
      BY <3>1, LocationType
    <3> QED BY <1>7, <2>1, <3>2, PrintType DEF LocationTable
  <2>2. CASE ~ IsSet("locations")
    BY <1>7, <2>2, FaultInsideType DEF LocationTable
  <2> QED BY <2>1, <2>2
<1>8. CASE Probe(t)
  <2>1. pc' \in [Threads -> Labels]
    BY <1>8, GotoType DEF Probe, Labels
  <2> QED BY <1>8, <2>1 DEF Probe, CrashType, env_vars, image_vars, memory_vars, walk_vars
<1>9. CASE Deref(t)
  <2> DEFINE f == memory[frame[t]]
  <2>1. CASE f.words < 2
    BY <1>9, <2>1, FaultInsideType DEF Deref
  <2>2. CASE ~ (f.words < 2) /\ (f.next <= frame[t] \/ f.ret = 0)
    <3>1. pc' \in [Threads -> Labels]
      BY <1>9, <2>2, GotoType DEF Deref, Labels
    <3> QED BY <1>9, <2>2, <3>1 DEF Deref, CrashType, env_vars, image_vars, memory_vars
  <2>3. CASE ~ (f.words < 2) /\ ~ (f.next <= frame[t] \/ f.ret = 0)
    <3>1. pc' \in [Threads -> Labels]
      BY <1>9, <2>3, GotoType DEF Deref, Labels
    <3>2. at' = [at EXCEPT ![t] = f.ret - 1] /\ frame' = [frame EXCEPT ![t] = f.next]
      BY <1>9, <2>3 DEF Deref
    <3>3. f \in [next : Nat, ret : Nat, words : Nat]
      BY <1>9 DEF Deref, WalkInv, WalkOf, CrashType
    <3>4. f.next \in Nat /\ f.ret - 1 \in Nat
      BY <2>3, <3>3
    <3>5. at' \in [Threads -> Nat] /\ frame' \in [Threads -> Nat]
      BY <3>2, <3>4 DEF CrashType
    <3> QED BY <1>9, <2>3, <3>1, <3>5 DEF Deref, CrashType, env_vars, image_vars, memory_vars
  <2> QED BY <2>1, <2>2, <2>3
<1>10. CASE Finish(t)
  BY <1>10, TerminateType DEF Finish
<1> QED BY <1>1, <1>2, <1>3, <1>4, <1>5, <1>6, <1>7, <1>8, <1>9, <1>10 DEF Handle

LEMMA NextType ==
  ASSUME CrashType, WalkInv, [Next]_vars PROVE CrashType'
<1> USE DEF env_vars, image_vars, memory_vars, walk_vars
<1>1. CASE Install
  <2>1. pipe' \in BOOLEAN /\ installed' \in BOOLEAN
    BY <1>1 DEF Install
  <2> QED BY <1>1, <2>1 DEF Install, CrashType
<1>2. CASE Register
  <2>0. Len(Globals) = 4 /\ known \in 0..4
    BY SetFacts DEF CrashType
  <2>1. known' \in 0..4
    BY <1>2, <2>0 DEF Register
  <2> QED BY <1>2, <2>1 DEF Register, CrashType
<1>3. CASE Start
  BY <1>3 DEF Start, CrashType
<1>4. CASE ShutdownStore
  <2>0. Len(Globals) = 4 /\ clearing \in 0..4
    BY SetFacts DEF CrashType
  <2>1. clearing' \in 0..4
    BY <1>4, <2>0 DEF ShutdownStore
  <2> QED BY <1>4, <2>1 DEF ShutdownStore, CrashType
<1>5. ASSUME NEW t \in Threads, NEW a \in DOMAIN memory, Unmap(t, a) PROVE CrashType'
  <2>1. memory' \in [DOMAIN memory -> [next : Nat, ret : Nat, words : Nat]]
    BY <1>5 DEF Unmap, CrashType
  <2>2. DOMAIN memory' = DOMAIN memory
    BY <2>1
  <2> QED BY <1>5, <2>1, <2>2 DEF Unmap, CrashType
<1>6. ASSUME NEW t \in Threads, NEW s \in Signals, NEW addr \in CodeAddrs,
             NEW fp \in FramePointers, Fault(t, s, addr, fp)
      PROVE  CrashType'
  <2>1. CASE Terminate("default") \/ Terminate("overflow")
    BY <2>1, TerminateType
  <2>2. CASE EnterHandler(t, s, addr, fp)
    BY <2>2, EnterFacts
  <2> QED BY <1>6, <2>1, <2>2 DEF Fault
<1>7. ASSUME NEW t \in Threads, NEW addr \in CodeAddrs, NEW fp \in FramePointers,
             Trap(t, addr, fp)
      PROVE  CrashType'
  BY <1>7, EnterFacts DEF Trap
<1>8. CASE UNCHANGED vars
  BY <1>8 DEF vars, CrashType
<1> QED BY <1>1, <1>2, <1>3, <1>4, <1>5, <1>6, <1>7, <1>8, HandleType DEF Next

-----------------------------------------------------------------------------
(* The walk *)

\* What another thread does leaves a walk what it was.
LEMMA WalkKept ==
  ASSUME CrashType, NEW t \in Threads, WalkOf(t),
         pc'[t] = pc[t], frame'[t] = frame[t], index'[t] = index[t],
         known' = known \/ known # 4, in_handler => in_handler',
         UNCHANGED memory_vars
  PROVE  WalkOf(t)'
BY DEF WalkOf, memory_vars, CrashType, Labels, Outside

\* The rest of the invariant when thread t alone moves.
LEMMA OneWalks ==
  ASSUME CrashType, WalkInv, started, NEW t \in Threads, WalkOf(t)',
         \A u \in Threads : u # t =>
            pc'[u] = pc[u] /\ frame'[u] = frame[u] /\ index'[u] = index[u],
         in_handler => in_handler',
         UNCHANGED <<env_vars, image_vars, memory_vars>>
  PROVE  WalkInv'
<1>1. \A u \in Threads : WalkOf(u)'
  BY WalkKept DEF WalkInv, image_vars
<1> QED BY <1>1 DEF WalkInv, env_vars, image_vars

LEMMA EnterWalk ==
  ASSUME CrashType, WalkInv, NEW t \in Threads, Running(t), NEW s, NEW addr, NEW fp,
         EnterHandler(t, s, addr, fp)
  PROVE  WalkInv'
<1>1. pc[t] = "run" /\ started
  BY DEF Running
<1>2. pc'[t] = "guard" /\ \A u \in Threads : u # t => pc'[u] = pc[u]
  BY GotoType DEF EnterHandler, Labels
<1>3. \A u \in Threads : u # t => frame'[u] = frame[u] /\ index'[u] = index[u]
  BY DEF EnterHandler, CrashType
<1>4. index'[t] = 0
  BY <1>1 DEF EnterHandler, WalkInv, WalkOf
<1>5. WalkOf(t)'
  BY <1>2, <1>4, CrashAssumption DEF WalkOf, Outside
<1> QED BY <1>1, <1>2, <1>3, <1>5, OneWalks DEF EnterHandler

LEMMA TerminateWalk ==
  ASSUME CrashType, WalkInv, NEW how, Terminate(how) PROVE WalkInv'
BY DEF Terminate, env_vars, image_vars, memory_vars, walk_vars, WalkInv, WalkOf

LEMMA FaultInsideWalk ==
  ASSUME CrashType, WalkInv, started, NEW t \in Threads, pc[t] \notin Outside, FaultInside(t)
  PROVE  WalkInv'
<1>1. CASE Terminate("default")
  BY <1>1, TerminateWalk
<1>2. CASE /\ Goto(t, "guard")
           /\ UNCHANGED <<env_vars, image_vars, memory_vars, in_handler, walk_vars, exit>>
  <2>1. pc'[t] = "guard" /\ \A u \in Threads : u # t => pc'[u] = pc[u]
    BY <1>2, GotoType DEF Labels
  <2>2. WalkOf(t)'
    BY <1>2, <2>1 DEF WalkInv, WalkOf, walk_vars, Outside
  <2> QED BY <1>2, <2>1, <2>2, OneWalks DEF walk_vars
<1> QED BY <1>1, <1>2 DEF FaultInside

LEMMA PrintWalk ==
  ASSUME CrashType, WalkInv, started, NEW t \in Threads, NEW l, PrintFrame(t, l),
         pc[t] \in {"place", "locations"}
  PROVE  WalkInv'
<1>1. pc'[t] = "probe" /\ \A u \in Threads : u # t => pc'[u] = pc[u]
  BY GotoType DEF PrintFrame, Labels
<1>2. index'[t] = index[t] + 1 /\ \A u \in Threads : u # t => index'[u] = index[u]
  BY DEF PrintFrame, CrashType
<1>3. index'[t] <= FrameLimit /\ in_handler
  BY <1>2, CrashAssumption DEF WalkInv, WalkOf, CrashType, Outside
<1>4. WalkOf(t)'
  BY <1>1, <1>3 DEF PrintFrame, WalkOf, Outside
<1> QED BY <1>1, <1>2, <1>4, OneWalks DEF PrintFrame

LEMMA HandleWalk ==
  ASSUME CrashType, WalkInv, NEW t \in Threads, Handle(t) PROVE WalkInv'
<1>0. /\ pc[t] # "run" => started
      /\ started => known \in {0, 4}
      /\ WalkOf(t) /\ index[t] \in Nat
  BY DEF WalkInv, CrashType
<1> DEFINE Others == \A u \in Threads : u # t => pc'[u] = pc[u]
<1>1. CASE GuardTaken(t)
  BY <1>1, TerminateWalk DEF GuardTaken
<1>2. CASE Guard(t)
  <2>1. /\ pc'[t] = IF platform = "win32" THEN "frame" ELSE "claim"
        /\ Others
    BY <1>2, GotoType DEF Guard, Labels
  <2>2. index'[t] = 0
    BY <1>0, <1>2 DEF Guard, WalkOf, walk_vars
  <2>3. (pc'[t] = "frame" /\ in_handler') \/ pc'[t] = "claim"
    BY <1>2, <2>1 DEF Guard
  <2>4. 0 < FrameLimit /\ 0 <= FrameLimit
    BY CrashAssumption
  <2>5. WalkOf(t)'
    BY <2>2, <2>3, <2>4 DEF WalkOf, Outside
  <2> QED BY <1>0, <1>2, <2>1, <2>5, OneWalks DEF Guard, walk_vars
<1>3. CASE Claim(t)
  <2>1. pc'[t] = "frame" /\ Others
    BY <1>3, GotoType DEF Claim, Labels
  <2>2. index'[t] = 0
    BY <1>0, <1>3 DEF Claim, WalkOf, walk_vars
  <2>3. WalkOf(t)'
    BY <1>3, <2>1, <2>2, CrashAssumption DEF Claim, WalkOf, Outside
  <2> QED BY <1>0, <1>3, <2>1, <2>3, OneWalks DEF Claim, walk_vars
<1>4. CASE FunctionCount(t)
  <2>1. /\ pc'[t] = IF IsSet("functionCount") THEN "functions" ELSE "place"
        /\ Others
    BY <1>4, GotoType DEF FunctionCount, Labels
  <2>2. IsSet("functionCount") => known = 4
    <3>1. known \in {0, 4}
      BY <1>0, <1>4 DEF FunctionCount
    <3>2. IsSet("functionCount") => 2 <= known
      BY SetFacts
    <3> QED BY <3>1, <3>2
  <2>3. WalkOf(t)'
    BY <1>0, <1>4, <2>1, <2>2 DEF FunctionCount, WalkOf, Outside, image_vars, walk_vars
  <2> QED BY <1>0, <1>4, <2>1, <2>3, OneWalks DEF FunctionCount, walk_vars
<1>5. CASE FunctionTable(t)
  <2>1. CASE IsSet("functions")
    <3>1. pc'[t] = "place" /\ Others
      BY <1>5, <2>1, GotoType DEF FunctionTable, Labels
    <3>2. WalkOf(t)'
      BY <1>0, <1>5, <2>1, <3>1 DEF FunctionTable, WalkOf, Outside
    <3> QED BY <1>0, <1>5, <2>1, <3>1, <3>2, OneWalks DEF FunctionTable
  <2>2. CASE ~ IsSet("functions")
    BY <1>0, <1>5, <2>2, FaultInsideWalk DEF FunctionTable, Outside
  <2> QED BY <2>1, <2>2
<1>6. CASE LocationCount(t)
  <2>1. CASE IsSet("locationCount")
    <3>1. pc'[t] = "locations" /\ Others
      BY <1>6, <2>1, GotoType DEF LocationCount, Labels
    <3>2. known = 4
      <4>1. known \in {0, 4}
        BY <1>0, <1>6 DEF LocationCount
      <4>2. 4 <= known
        BY <2>1, SetFacts
      <4> QED BY <4>1, <4>2
    <3>3. WalkOf(t)'
      BY <1>0, <1>6, <2>1, <3>1, <3>2 DEF LocationCount, WalkOf, Outside, image_vars, walk_vars
    <3> QED BY <1>0, <1>6, <2>1, <3>1, <3>3, OneWalks DEF LocationCount, walk_vars
  <2>2. CASE ~ IsSet("locationCount")
    BY <1>0, <1>6, <2>2, PrintWalk DEF LocationCount
  <2> QED BY <2>1, <2>2
<1>7. CASE LocationTable(t)
  <2>1. CASE IsSet("locations")
    BY <1>0, <1>7, <2>1, PrintWalk DEF LocationTable
  <2>2. CASE ~ IsSet("locations")
    BY <1>0, <1>7, <2>2, FaultInsideWalk DEF LocationTable, Outside
  <2> QED BY <2>1, <2>2
<1>8. CASE Probe(t)
  <2>1. /\ pc'[t] = IF index[t] < FrameLimit /\ Readable(frame[t]) THEN "deref" ELSE "end"
        /\ Others
    BY <1>8, GotoType DEF Probe, Labels
  <2>2. Readable(frame[t]) => frame[t] \in DOMAIN memory /\ memory[frame[t]].words >= 2
    BY DEF Readable, FrameWords
  <2>3. WalkOf(t)'
    BY <1>0, <1>8, <2>1, <2>2 DEF Probe, WalkOf, Outside, memory_vars, walk_vars
  <2> QED BY <1>0, <1>8, <2>1, <2>3, OneWalks DEF Probe, walk_vars
<1>9. CASE Deref(t)
  <2> DEFINE f == memory[frame[t]]
  <2>1. CASE f.words < 2
    BY <1>0, <1>9, <2>1, FaultInsideWalk DEF Deref, Outside
  <2>2. CASE ~ (f.words < 2) /\ (f.next <= frame[t] \/ f.ret = 0)
    <3>1. pc'[t] = "end" /\ Others
      BY <1>9, <2>2, GotoType DEF Deref, Labels
    <3>2. WalkOf(t)'
      BY <1>0, <1>9, <2>2, <3>1 DEF Deref, WalkOf, Outside
    <3> QED BY <1>0, <1>9, <2>2, <3>1, <3>2, OneWalks DEF Deref
  <2>3. CASE ~ (f.words < 2) /\ ~ (f.next <= frame[t] \/ f.ret = 0)
    <3>1. pc'[t] = "frame" /\ Others
      BY <1>9, <2>3, GotoType DEF Deref, Labels
    <3>2. WalkOf(t)'
      BY <1>0, <1>9, <2>3, <3>1 DEF Deref, WalkOf, Outside
    <3>3. frame' = [frame EXCEPT ![t] = f.next]
      BY <1>9, <2>3 DEF Deref
    <3>4. \A u \in Threads : u # t => frame'[u] = frame[u]
      BY <3>3 DEF CrashType
    <3> QED BY <1>0, <1>9, <2>3, <3>1, <3>2, <3>4, OneWalks DEF Deref
  <2> QED BY <2>1, <2>2, <2>3
<1>10. CASE Finish(t)
  BY <1>10, TerminateWalk DEF Finish
<1> QED BY <1>1, <1>2, <1>3, <1>4, <1>5, <1>6, <1>7, <1>8, <1>9, <1>10 DEF Handle

LEMMA NextWalk ==
  ASSUME CrashType, WalkInv, [Next]_vars PROVE WalkInv'
<1> USE DEF env_vars, image_vars, memory_vars, walk_vars
<1>1. CASE Install
  BY <1>1 DEF Install, WalkInv, WalkOf
<1>2. CASE Register
  <2>1. known < 4 /\ ~ started
    BY <1>2, SetFacts DEF Register, Starting
  <2>2. \A t \in Threads : WalkOf(t)'
    <3>1. \A t \in Threads : WalkOf(t) /\ pc[t] = "run"
      BY <2>1 DEF WalkInv
    <3> QED BY <1>2, <3>1 DEF Register, WalkOf, Outside
  <2> QED BY <1>2, <2>1, <2>2 DEF Register, WalkInv
<1>3. CASE Start
  BY <1>3, SetFacts DEF Start, WalkInv, WalkOf
<1>4. CASE ShutdownStore
  BY <1>4 DEF ShutdownStore, Running, WalkInv, WalkOf
<1>5. ASSUME NEW t \in Threads, NEW a \in DOMAIN memory, Unmap(t, a) PROVE WalkInv'
  <2>1. started
    BY <1>5 DEF Unmap, Running
  <2>2. /\ DOMAIN memory' = DOMAIN memory /\ gone' = gone \cup {a}
        /\ \A b \in DOMAIN memory : b # a => memory'[b] = memory[b]
    BY <1>5 DEF Unmap
  <2>3. ASSUME NEW u \in Threads PROVE WalkOf(u)'
    <3>1. WalkOf(u)
      BY DEF WalkInv
    <3> QED BY <1>5, <2>2, <3>1 DEF Unmap, WalkOf
  <2> QED BY <1>5, <2>1, <2>3 DEF Unmap, WalkInv
<1>6. ASSUME NEW t \in Threads, NEW s \in Signals, NEW addr \in CodeAddrs,
             NEW fp \in FramePointers, Fault(t, s, addr, fp)
      PROVE  WalkInv'
  <2>1. CASE Terminate("default") \/ Terminate("overflow")
    BY <2>1, TerminateWalk
  <2>2. CASE EnterHandler(t, s, addr, fp)
    BY <1>6, <2>2, EnterWalk DEF Fault
  <2> QED BY <1>6, <2>1, <2>2 DEF Fault
<1>7. ASSUME NEW t \in Threads, NEW addr \in CodeAddrs, NEW fp \in FramePointers,
             Trap(t, addr, fp)
      PROVE  WalkInv'
  BY <1>7, EnterWalk DEF Trap
<1>8. CASE UNCHANGED vars
  BY <1>8 DEF vars, WalkInv, WalkOf
<1> QED BY <1>1, <1>2, <1>3, <1>4, <1>5, <1>6, <1>7, <1>8, HandleWalk DEF Next

-----------------------------------------------------------------------------
(* Who has set the flag *)

\* A fault inside the handler: a table was cleared or a page is gone.
LEMMA FaultBlame ==
  ASSUME CrashType, WalkInv, NEW t \in Threads,
         \/ pc[t] = "functions" /\ ~ IsSet("functions")
         \/ pc[t] = "locations" /\ ~ IsSet("locations")
         \/ pc[t] = "deref" /\ memory[frame[t]].words < 2
  PROVE  Blamed(t)
<1>1. WalkOf(t) /\ clearing \in 0..4
  BY DEF WalkInv, CrashType
<1>2. CASE pc[t] = "functions" /\ ~ IsSet("functions")
  BY <1>1, <1>2, SetFacts DEF WalkOf, Blamed
<1>3. CASE pc[t] = "locations" /\ ~ IsSet("locations")
  BY <1>1, <1>3, SetFacts DEF WalkOf, Blamed
<1>4. CASE pc[t] = "deref" /\ memory[frame[t]].words < 2
  <2>1. memory[frame[t]].words \in Nat
    BY <1>1, <1>4 DEF WalkOf, CrashType
  <2> QED BY <1>1, <1>4, <2>1 DEF WalkOf, Blamed
<1> QED BY <1>2, <1>3, <1>4

\* Only the thread moves, and out of the handler only to its guard.
HandleSteps(t) ==
  /\ UNCHANGED <<env_vars, image_vars, memory_vars>>
  /\ \A u \in Threads : u # t =>
       /\ pc'[u] = pc[u] /\ frame'[u] = frame[u] /\ at'[u] = at[u]
       /\ function'[u] = function[u] /\ shown'[u] = shown[u]
  /\ pc[t] \notin Outside =>
       \/ pc'[t] \notin Outside
       \/ pc'[t] = "guard" /\ Blamed(t) /\ frame'[t] = frame[t]
  /\ \/ Guard(t) \/ Claim(t)
     \/ in_handler' = in_handler /\ (pc[t] \in Outside => UNCHANGED <<pc, walk_vars>>)

LEMMA FaultSteps ==
  ASSUME CrashType, WalkInv, NEW t \in Threads, FaultInside(t),
         \/ pc[t] = "functions" /\ ~ IsSet("functions")
         \/ pc[t] = "locations" /\ ~ IsSet("locations")
         \/ pc[t] = "deref" /\ memory[frame[t]].words < 2
  PROVE  HandleSteps(t)
<1>0. Blamed(t) /\ pc[t] \notin Outside
  BY FaultBlame DEF Outside
<1>1. CASE Terminate("default")
  BY <1>0, <1>1 DEF Terminate, HandleSteps, walk_vars
<1>2. CASE /\ Goto(t, "guard")
           /\ UNCHANGED <<env_vars, image_vars, memory_vars, in_handler, walk_vars, exit>>
  <2>1. pc'[t] = "guard" /\ \A u \in Threads : u # t => pc'[u] = pc[u]
    BY <1>2, GotoType DEF Labels
  <2> QED BY <1>0, <1>2, <2>1 DEF HandleSteps, walk_vars
<1> QED BY <1>1, <1>2 DEF FaultInside

LEMMA PrintSteps ==
  ASSUME CrashType, WalkInv, NEW t \in Threads, NEW l, PrintFrame(t, l),
         pc[t] \in {"place", "locations"}
  PROVE  HandleSteps(t)
<1>1. pc'[t] = "probe" /\ \A u \in Threads : u # t => pc'[u] = pc[u]
  BY GotoType DEF PrintFrame, Labels
<1>2. \A u \in Threads : u # t => shown'[u] = shown[u] /\ function'[u] = function[u]
  BY DEF PrintFrame, CrashType
<1> QED BY <1>1, <1>2 DEF PrintFrame, HandleSteps, Outside

LEMMA HandleMoves ==
  ASSUME CrashType, WalkInv, NEW t \in Threads, Handle(t) PROVE HandleSteps(t)
<1> DEFINE Others == \A u \in Threads : u # t => pc'[u] = pc[u]
<1>1. CASE GuardTaken(t)
  BY <1>1 DEF GuardTaken, Terminate, HandleSteps, Outside, walk_vars
<1>2. CASE Guard(t)
  <2>1. Others
    BY <1>2, GotoType DEF Guard, Labels
  <2> QED BY <1>2, <2>1 DEF Guard, HandleSteps, Outside, walk_vars
<1>3. CASE Claim(t)
  <2>1. Others
    BY <1>3, GotoType DEF Claim, Labels
  <2> QED BY <1>3, <2>1 DEF Claim, HandleSteps, Outside, walk_vars
<1>4. CASE FunctionCount(t)
  <2>1. pc'[t] \in {"functions", "place"} /\ Others
    BY <1>4, GotoType DEF FunctionCount, Labels
  <2> QED BY <1>4, <2>1 DEF FunctionCount, HandleSteps, Outside, walk_vars
<1>5. CASE FunctionTable(t)
  <2>1. CASE IsSet("functions")
    <3>1. pc'[t] = "place" /\ Others
      BY <1>5, <2>1, GotoType DEF FunctionTable, Labels
    <3>2. \A u \in Threads : u # t => function'[u] = function[u]
      BY <1>5, <2>1 DEF FunctionTable, CrashType
    <3> QED BY <1>5, <2>1, <3>1, <3>2 DEF FunctionTable, HandleSteps, Outside
  <2>2. CASE ~ IsSet("functions")
    BY <1>5, <2>2, FaultSteps DEF FunctionTable
  <2> QED BY <2>1, <2>2
<1>6. CASE LocationCount(t)
  <2>1. CASE IsSet("locationCount")
    <3>1. pc'[t] = "locations" /\ Others
      BY <1>6, <2>1, GotoType DEF LocationCount, Labels
    <3> QED BY <1>6, <2>1, <3>1 DEF LocationCount, HandleSteps, Outside, walk_vars
  <2>2. CASE ~ IsSet("locationCount")
    BY <1>6, <2>2, PrintSteps DEF LocationCount
  <2> QED BY <2>1, <2>2
<1>7. CASE LocationTable(t)
  <2>1. CASE IsSet("locations")
    BY <1>7, <2>1, PrintSteps DEF LocationTable
  <2>2. CASE ~ IsSet("locations")
    BY <1>7, <2>2, FaultSteps DEF LocationTable
  <2> QED BY <2>1, <2>2
<1>8. CASE Probe(t)
  <2>1. pc'[t] \in {"deref", "end"} /\ Others
    BY <1>8, GotoType DEF Probe, Labels
  <2> QED BY <1>8, <2>1 DEF Probe, HandleSteps, Outside, walk_vars
<1>9. CASE Deref(t)
  <2> DEFINE f == memory[frame[t]]
  <2>1. CASE f.words < 2
    BY <1>9, <2>1, FaultSteps DEF Deref
  <2>2. CASE ~ (f.words < 2) /\ (f.next <= frame[t] \/ f.ret = 0)
    <3>1. pc'[t] = "end" /\ Others
      BY <1>9, <2>2, GotoType DEF Deref, Labels
    <3> QED BY <1>9, <2>2, <3>1 DEF Deref, HandleSteps, Outside
  <2>3. CASE ~ (f.words < 2) /\ ~ (f.next <= frame[t] \/ f.ret = 0)
    <3>1. pc'[t] = "frame" /\ Others
      BY <1>9, <2>3, GotoType DEF Deref, Labels
    <3>2. frame' = [frame EXCEPT ![t] = f.next]
      BY <1>9, <2>3 DEF Deref
    <3>3. \A u \in Threads : u # t => frame'[u] = frame[u]
      BY <3>2 DEF CrashType
    <3>4. \A u \in Threads : u # t => at'[u] = at[u]
      BY <1>9, <2>3 DEF Deref, CrashType
    <3> QED BY <1>9, <2>3, <3>1, <3>3, <3>4 DEF Deref, HandleSteps, Outside
  <2> QED BY <2>1, <2>2, <2>3
<1>10. CASE Finish(t)
  BY <1>10 DEF Finish, Terminate, HandleSteps, Outside, walk_vars
<1> QED BY <1>1, <1>2, <1>3, <1>4, <1>5, <1>6, <1>7, <1>8, <1>9, <1>10 DEF Handle

\* Steps of other kinds: a thread that is not running stays where it is.
EnvSteps ==
  /\ UNCHANGED <<in_handler, function, shown>>
  /\ \A u \in Threads : IF pc[u] = "run"
                         THEN pc'[u] \in {"run", "guard"}
                         ELSE pc'[u] = pc[u] /\ frame'[u] = frame[u] /\ at'[u] = at[u]
  /\ gone \subseteq gone' /\ clearing <= clearing'
  /\ UNCHANGED <<platform, image>>

LEMMA OutsideSteps ==
  ASSUME CrashType, [Next]_vars, \A t \in Threads : ~ Handle(t) PROVE EnvSteps
<1> USE DEF env_vars, image_vars, memory_vars, walk_vars
<1>0. clearing \in Nat
  BY DEF CrashType
<1>1. CASE Install \/ Register \/ Start
  <2>1. UNCHANGED <<platform, image, clearing, gone, in_handler, pc, at, frame, function, shown>>
    BY <1>1 DEF Install, Register, Start
  <2> QED BY <1>0, <2>1 DEF EnvSteps
<1>2. CASE ShutdownStore
  BY <1>0, <1>2 DEF ShutdownStore, EnvSteps
<1>3. ASSUME NEW t \in Threads, NEW a \in DOMAIN memory, Unmap(t, a) PROVE EnvSteps
  BY <1>0, <1>3 DEF Unmap, EnvSteps
<1>4. ASSUME NEW t \in Threads, NEW s, NEW addr, NEW fp,
             Running(t), EnterHandler(t, s, addr, fp)
      PROVE  EnvSteps
  <2>1. pc'[t] = "guard" /\ \A u \in Threads : u # t => pc'[u] = pc[u]
    BY <1>4, GotoType DEF EnterHandler, Labels
  <2>2. \A u \in Threads : u # t => frame'[u] = frame[u] /\ at'[u] = at[u]
    BY <1>4 DEF EnterHandler, CrashType
  <2> QED BY <1>0, <1>4, <2>1, <2>2 DEF EnterHandler, Running, EnvSteps
<1>5. ASSUME NEW how, Terminate(how) PROVE EnvSteps
  BY <1>0, <1>5 DEF Terminate, EnvSteps
<1>6. ASSUME NEW t \in Threads, NEW s, NEW addr, NEW fp, Fault(t, s, addr, fp)
      PROVE  EnvSteps
  BY <1>4, <1>5, <1>6 DEF Fault
<1>7. ASSUME NEW t \in Threads, NEW addr, NEW fp, Trap(t, addr, fp) PROVE EnvSteps
  BY <1>4, <1>7 DEF Trap
<1>8. CASE UNCHANGED vars
  BY <1>0, <1>8 DEF vars, EnvSteps
<1> QED BY <1>1, <1>2, <1>3, <1>6, <1>7, <1>8 DEF Next

LEMMA FlagStep ==
  ASSUME CrashInv, [Next]_vars PROVE FlagInv'
<1> DEFINE Holds(u) == pc[u] \notin Outside \/ (pc[u] = "guard" /\ Blamed(u))
<1> USE DEF CrashInv
<1>1. ASSUME NEW t \in Threads, Handle(t) PROVE FlagInv'
  <2>1. HandleSteps(t)
    BY <1>1, HandleMoves
  <2>2. CASE Guard(t)
    <3>1. in_handler' => pc'[t] = "frame"
      BY <2>2 DEF Guard, Goto, CrashType
    <3> QED BY <3>1 DEF FlagInv, Outside
  <2>3. CASE Claim(t)
    <3>1. pc'[t] = "frame"
      BY <2>3 DEF Claim, Goto, CrashType
    <3> QED BY <3>1 DEF FlagInv, Outside
  <2>4. CASE in_handler' = in_handler /\ (pc[t] \in Outside => UNCHANGED <<pc, walk_vars>>)
    <3> SUFFICES ASSUME in_handler PROVE \E u \in Threads : Holds(u)'
      BY <2>4 DEF FlagInv
    <3>1. PICK w \in Threads : Holds(w)
      BY DEF FlagInv
    <3>2. gone' = gone /\ clearing' = clearing
      BY <2>1 DEF HandleSteps, memory_vars, image_vars
    <3>3. CASE w # t
      BY <2>1, <3>1, <3>2, <3>3 DEF HandleSteps, Blamed
    <3>4. CASE w = t /\ pc[t] \in Outside
      BY <2>4, <3>1, <3>2, <3>4 DEF Blamed, walk_vars
    <3>5. CASE w = t /\ pc[t] \notin Outside
      BY <2>1, <3>2, <3>5 DEF HandleSteps, Blamed
    <3> QED BY <3>3, <3>4, <3>5
  <2> QED BY <2>1, <2>2, <2>3, <2>4 DEF HandleSteps
<1>2. CASE \A t \in Threads : ~ Handle(t)
  <2>1. EnvSteps
    BY <1>2, OutsideSteps
  <2> SUFFICES ASSUME in_handler PROVE \E u \in Threads : Holds(u)'
    BY <2>1 DEF FlagInv, EnvSteps
  <2>2. PICK w \in Threads : Holds(w)
    BY DEF FlagInv
  <2>3. pc[w] # "run" /\ pc'[w] = pc[w] /\ frame'[w] = frame[w]
    BY <2>1, <2>2 DEF EnvSteps, Outside
  <2>4. Blamed(w) => Blamed(w)'
    <3>1. clearing \in Nat
      BY DEF CrashType
    <3>2. clearing' \in Nat
      BY NextType DEF CrashType
    <3> QED BY <2>1, <2>3, <3>1, <3>2 DEF EnvSteps, Blamed
  <2> QED BY <2>2, <2>3, <2>4
<1> QED BY <1>1, <1>2

LEMMA CrashInvariant == Spec => []CrashInv
<1>1. CrashInv /\ [Next]_vars => CrashInv'
  BY NextType, NextWalk, FlagStep DEF CrashInv
<1> QED BY InitCrash, <1>1, PTL DEF Spec

(* Every variable keeps its type, and a walk has at most FrameLimit frames    *)
(* (gc.c:342).                                                               *)
THEOREM CrashTypeOK == Spec => []TypeOK
<1>1. CrashInv => TypeOK
  <2> SUFFICES ASSUME CrashInv PROVE TypeOK
    OBVIOUS
  <2>1. \A t \in Threads : index[t] \in 0..FrameLimit
    BY CrashAssumption DEF CrashInv, CrashType, WalkInv, WalkOf
  <2> QED BY <2>1, SetFacts DEF CrashInv, CrashType, TypeOK
<1> QED BY <1>1, CrashInvariant, PTL

-----------------------------------------------------------------------------
(* One reporter *)

\* On Windows the flag is set from the moment a thread is in, and was not before.
ReporterInv ==
  platform = "win32" =>
    /\ \A t \in Threads : pc[t] # "claim" /\ (Handling(t) => in_handler)
    /\ \A t, u \in Threads : Handling(t) /\ Handling(u) => t = u

LEMMA ReporterStep ==
  ASSUME CrashInv, ReporterInv, [Next]_vars PROVE ReporterInv'
<1> USE DEF CrashInv
<1>1. ASSUME NEW t \in Threads, Handle(t) PROVE ReporterInv'
  <2>1. HandleSteps(t)
    BY <1>1, HandleMoves
  <2>2. platform' = platform /\ \A u \in Threads : u # t => Handling(u)' = Handling(u) /\ pc'[u] = pc[u]
    BY <2>1 DEF HandleSteps, env_vars, Handling
  <2> SUFFICES ASSUME platform = "win32" PROVE ReporterInv'
    BY <2>2 DEF ReporterInv
  <2>3. CASE Guard(t)
    <3>1. pc'[t] = "frame" /\ in_handler' /\ ~ in_handler
      BY <2>3 DEF Guard, Goto, CrashType
    <3>2. \A u \in Threads : ~ Handling(u)
      BY <3>1 DEF ReporterInv
    <3>3. \A u \in Threads : u # t => ~ Handling(u)'
      BY <2>2, <3>2
    <3> QED BY <2>2, <3>1, <3>3 DEF ReporterInv
  <2>4. CASE ~ Guard(t)
    <3>1. ~ Claim(t)
      BY DEF ReporterInv, Claim
    <3>2. in_handler' = in_handler /\ (pc[t] \in Outside => UNCHANGED <<pc, walk_vars>>)
      BY <2>1, <2>4, <3>1 DEF HandleSteps
    <3>3. pc'[t] # "claim"
      BY <2>1, <3>2 DEF HandleSteps, ReporterInv, Outside
    <3>4. Handling(t)' => Handling(t)
      BY <3>2 DEF Handling, Outside, walk_vars
    <3> QED BY <2>2, <3>2, <3>3, <3>4 DEF ReporterInv
  <2> QED BY <2>3, <2>4
<1>2. CASE \A t \in Threads : ~ Handle(t)
  <2>1. EnvSteps
    BY <1>2, OutsideSteps
  <2>2. \A u \in Threads : /\ Handling(u)' => Handling(u)
                           /\ pc[u] # "claim" => pc'[u] # "claim"
    BY <2>1 DEF EnvSteps, Handling
  <2> QED BY <2>1, <2>2 DEF ReporterInv, EnvSteps
<1> QED BY <1>1, <1>2

(* On Windows the reports of two threads never mix (gc.c:370, gc.c:565). *)
THEOREM OneReports == Spec => []OneReporter
<1>1. Init => ReporterInv
  BY DEF Init, ReporterInv, Handling
<1>2. ReporterInv => OneReporter
  <2> SUFFICES ASSUME ReporterInv, platform = "win32"
               PROVE  Cardinality({t \in Threads : Handling(t)}) <= 1
    BY DEF OneReporter
  <2>1. CASE {t \in Threads : Handling(t)} = {}
    BY <2>1, FS_EmptySet
  <2>2. CASE {t \in Threads : Handling(t)} # {}
    <3>1. PICK t \in Threads : Handling(t)
      BY <2>2
    <3>2. {u \in Threads : Handling(u)} = {t}
      BY <3>1 DEF ReporterInv
    <3> QED BY <3>2, FS_Singleton
  <2> QED BY <2>1, <2>2
<1>3. CrashInv /\ ReporterInv /\ [Next]_vars => ReporterInv'
  BY ReporterStep
<1> QED BY <1>1, <1>2, <1>3, CrashInvariant, PTL DEF Spec

-----------------------------------------------------------------------------
(* The end of the process *)

LEMMA DeadStops ==
  ASSUME Dead, [Next]_vars PROVE UNCHANGED vars
BY DEF Dead, Next, Install, Register, Start, Starting, ShutdownStore, Unmap, Fault,
       Trap, Running, Handle, Alive

\* A thread in the handler ends the process with its report, at its guard, or
\* on a fault for which a page or a table is to blame.
LEMMA HandleEnds ==
  ASSUME CrashInv, NEW t \in Threads, Handle(t)
  PROVE  \/ exit' \in {"no", "report"}
         \/ /\ GuardTaken(t) \/ (pc[t] # "run" /\ Blamed(t))
            /\ UNCHANGED <<pc, frame, gone, clearing, installed>>
<1> USE DEF CrashInv
<1>0. exit = "no"
  BY DEF Handle, Alive
<1>1. ASSUME FaultInside(t), pc[t] # "run", Blamed(t)
      PROVE  \/ exit' = "no"
             \/ UNCHANGED <<pc, frame, gone, clearing, installed>>
  BY <1>0, <1>1 DEF FaultInside, Terminate, walk_vars, memory_vars, image_vars, env_vars
<1>2. CASE GuardTaken(t)
  BY <1>2 DEF GuardTaken, Terminate, walk_vars, memory_vars, image_vars, env_vars
<1>3. CASE Guard(t) \/ Claim(t) \/ FunctionCount(t) \/ Probe(t)
  BY <1>0, <1>3 DEF Guard, Claim, FunctionCount, Probe
<1>4. CASE FunctionTable(t)
  BY <1>0, <1>1, <1>4, FaultBlame DEF FunctionTable
<1>5. CASE LocationCount(t)
  BY <1>0, <1>5 DEF LocationCount, PrintFrame
<1>6. CASE LocationTable(t)
  BY <1>0, <1>1, <1>6, FaultBlame DEF LocationTable, PrintFrame
<1>7. CASE Deref(t)
  BY <1>0, <1>1, <1>7, FaultBlame DEF Deref
<1>8. CASE Finish(t)
  BY <1>8 DEF Finish, Terminate
<1> QED BY <1>2, <1>3, <1>4, <1>5, <1>6, <1>7, <1>8 DEF Handle

Faulted == {t \in Threads : pc[t] # "run"}

LEMMA ManyFaulted == Cardinality(Faulted') > 1 => DeathIsReported'
BY DEF Faulted, DeathIsReported

LEMMA DeathStep ==
  ASSUME CrashInv, DeathIsReported, [Next]_vars PROVE DeathIsReported'
<1>1. CASE Dead
  <2>1. UNCHANGED vars
    BY <1>1, DeadStops
  <2>2. UNCHANGED <<exit, installed, pc, frame, gone, clearing>>
    BY <2>1 DEF vars, env_vars, image_vars, memory_vars, walk_vars
  <2> QED BY <2>2 DEF DeathIsReported, Dead, Alive
<1>2. CASE exit' \in {"no", "report", "overflow"}
  BY <1>2 DEF DeathIsReported, Dead, Alive
<1>3. CASE Alive /\ exit' \notin {"no", "report", "overflow"}
  <2>1. ASSUME NEW t \in Threads, Handle(t) PROVE DeathIsReported'
    <3>1. /\ GuardTaken(t) \/ (pc[t] # "run" /\ Blamed(t))
          /\ UNCHANGED <<pc, frame, gone, clearing, installed>>
      BY <1>3, <2>1, HandleEnds
    <3>2. CASE pc[t] # "run" /\ Blamed(t)
      BY <3>1, <3>2 DEF DeathIsReported, Blamed
    <3>3. CASE GuardTaken(t) /\ ~ Blamed(t)
      <4>1. PICK w \in Threads : w # t /\ pc[w] # "run"
        BY <3>3 DEF CrashInv, FlagInv, GuardTaken, Outside
      <4> DEFINE S == Faulted
      <4>2. t \in S /\ w \in S
        BY <3>3, <4>1 DEF GuardTaken, Faulted
      <4>3. IsFiniteSet(S)
        BY CrashAssumption, FS_Subset DEF Faulted
      <4>4. Cardinality(S) \in Nat
        BY <4>3, FS_CardinalityType
      <4>5. Cardinality({t, w}) = 2 /\ {t, w} \subseteq S
        <5>1. IsFiniteSet({t}) /\ Cardinality({t}) = 1
          BY FS_Singleton
        <5>2. {t, w} = {t} \cup {w} /\ w \notin {t}
          BY <4>1
        <5> QED BY <4>2, <5>1, <5>2, FS_AddElement
      <4>6. Cardinality({t, w}) <= Cardinality(S)
        BY <4>3, <4>5, FS_Subset
      <4>7. Cardinality(S) > 1
        <5> HIDE DEF S
        <5> QED BY <4>4, <4>5, <4>6
      <4>8. Cardinality(S') > 1
        <5>1. S' = S
          BY <3>1 DEF Faulted
        <5> HIDE DEF S
        <5> QED BY <4>7, <5>1
      <4> QED BY <4>8, ManyFaulted
    <3> QED BY <3>1, <3>2, <3>3 DEF GuardTaken
  <2>2. CASE \A t \in Threads : ~ Handle(t)
    <3>1. exit' = exit \/ (exit' = "default" /\ ~ installed')
      <4>1. ASSUME NEW t \in Threads, NEW s, NEW addr, NEW fp, Fault(t, s, addr, fp)
            PROVE  exit' = exit \/ (exit' = "default" /\ ~ installed')
        BY <1>3, <4>1 DEF Fault, Terminate, EnterHandler, env_vars
      <4> QED BY <2>2, <4>1 DEF Next, Install, Register, Start, ShutdownStore, Unmap, Trap,
                                EnterHandler, vars
    <3> QED BY <1>3, <3>1 DEF DeathIsReported, Alive
  <2> QED BY <2>1, <2>2
<1> QED BY <1>1, <1>2, <1>3 DEF Dead

(* A process with the handler installed dies with a whole report, unless a    *)
(* second thread faulted, a page or a table went away under the walk, or a    *)
(* stack without an alternative overflowed (gc.c:330-356).                    *)
THEOREM DeathsReported == Spec => []DeathIsReported
<1>1. Init => DeathIsReported
  BY DEF Init, DeathIsReported, Dead, Alive
<1>2. CrashInv /\ DeathIsReported /\ [Next]_vars => DeathIsReported'
  BY DeathStep
<1> QED BY <1>1, <1>2, CrashInvariant, PTL DEF Spec

-----------------------------------------------------------------------------
(* The names of the frames *)

NearestOf(ls, f, addr) ==
  LET below == {i \in DOMAIN ls : Inside(f, ls[i].address) /\ ls[i].address <= addr}
      Before(i, j) == \/ ls[i].address < ls[j].address
                      \/ ls[i].address = ls[j].address /\ i < j
  IN  IF below = {} THEN f.name
      ELSE ls[CHOOSE i \in below : \A j \in below \ {i} : Before(j, i)].name

LEMMA NearestIsOf ==
  ASSUME NEW f, NEW addr
  PROVE  /\ NearestIn(f, addr) = NearestOf(image.locations, f, addr)
         /\ NearestIn(f, addr)' = NearestOf(image'.locations, f, addr)
BY DEF NearestIn, NearestOf

\* What the loop over the locations found is the nearest one.
LEMMA SymbolIsNearest ==
  ASSUME CrashType, NEW addr \in Nat, NEW f \in FunctionInfo
  PROVE  Symbol(f, FindLocation(addr, f)) = NearestOf(image.locations, f, addr)
<1> DEFINE ls == image.locations
           l == FindLocation(addr, f)
           below == {i \in DOMAIN ls : Inside(f, ls[i].address) /\ ls[i].address <= addr}
           Before(i, j) == \/ ls[i].address < ls[j].address
                           \/ ls[i].address = ls[j].address /\ i < j
           Best(i) == \A j \in below \ {i} : Before(j, i)
<1>1. f # None
  BY DataAssumption
<1>2. /\ DOMAIN ls = 1..Len(ls) /\ Len(ls) \in Nat
      /\ \A i \in DOMAIN ls : ls[i] \in LocationInfo
  BY DataAssumption DEF CrashType
<1>3. BestOf(DOMAIN ls, l, addr, f)
  BY LocationFound
<1>4. \A i \in DOMAIN ls : ls[i] # None /\ ls[i].address \in Nat /\ i \in Nat
  BY <1>2, DataAssumption DEF LocationInfo
<1>5. \A i \in DOMAIN ls : i \in below <=> Fits(ls[i], addr, f)
  BY <1>1 DEF Fits
<1>6. NearestOf(ls, f, addr) = IF below = {} THEN f.name
                               ELSE ls[CHOOSE i \in below : Best(i)].name
  BY DEF NearestOf
<1>7. below \subseteq DOMAIN ls
  OBVIOUS
<1> HIDE DEF ls, l, below
<1>8. CASE below = {}
  <2>1. l = None
    BY <1>3, <1>5, <1>8 DEF BestOf, ls
  <2> QED BY <1>1, <1>6, <1>8, <2>1 DEF Symbol, l, ls
<1>9. CASE below # {}
  <2>1. PICK i \in DOMAIN ls :
           /\ l = ls[i] /\ Fits(l, addr, f)
           /\ \A j \in DOMAIN ls : Fits(ls[j], addr, f) =>
                \/ ls[j].address < l.address
                \/ ls[j].address = l.address /\ j <= i
    BY <1>3, <1>5, <1>7, <1>9 DEF BestOf, ls
  <2>2. i \in below /\ Best(i)
    <3>1. i \in below
      BY <1>5, <2>1
    <3>2. ASSUME NEW j \in below \ {i} PROVE Before(j, i)
      BY <1>4, <1>5, <1>7, <2>1
    <3> QED BY <3>1, <3>2
  <2>3. ASSUME NEW k \in below, Best(k) PROVE k = i
    <3> SUFFICES ASSUME k # i PROVE FALSE
      OBVIOUS
    <3>1. Before(i, k) /\ Before(k, i)
      BY <2>2, <2>3
    <3>2. ls[i].address \in Nat /\ ls[k].address \in Nat /\ i \in Nat /\ k \in Nat
      BY <1>4, <1>7, <2>2
    <3> QED BY <3>1, <3>2
  <2> HIDE DEF Best
  <2>4. (CHOOSE k \in below : Best(k)) = i
    BY <2>2, <2>3
  <2>5. NearestOf(ls, f, addr) = ls[i].name
    BY <1>6, <1>9, <2>4
  <2>6. l # None
    BY <1>4, <2>1
  <2> QED BY <2>1, <2>5, <2>6 DEF Symbol, l, ls
<1> QED BY <1>8, <1>9

\* With the tables in place, the frame at hand has its function.
NamesOf(t) ==
  \A f \in Range(image.functions) :
    /\ pc[t] \in {"place", "locations"} /\ Inside(f, at[t]) => function[t] = f
    /\ shown[t] # None /\ Inside(f, shown[t].at) =>
         shown[t].symbol = NearestOf(image.locations, f, shown[t].at)

NamedInv ==
  /\ ~ started => \A t \in Threads : shown[t] = None
  /\ known = 4 /\ clearing = 0 => \A t \in Threads : NamesOf(t)

LEMMA FunctionTyped ==
  ASSUME CrashType, NEW f \in Range(image.functions) PROVE f \in FunctionInfo
<1>1. image.functions \in Seq(FunctionInfo)
  BY DataAssumption DEF CrashType
<1> QED BY <1>1 DEF Range

LEMMA PrintNames ==
  ASSUME CrashType, NEW t \in Threads, NamesOf(t), pc[t] = "locations",
         PrintFrame(t, FindLocation(at[t], function[t]))
  PROVE  NamesOf(t)'
<1>1. pc'[t] = "probe"
  BY GotoType DEF PrintFrame, Labels
<1>2. image' = image
  BY DEF PrintFrame, env_vars
<1>3. shown'[t] = [at |-> at[t], symbol |-> Symbol(function[t], FindLocation(at[t], function[t]))]
  BY DEF PrintFrame, CrashType
<1>4. ASSUME NEW f \in Range(image.functions), Inside(f, at[t])
      PROVE  shown'[t].symbol = NearestOf(image.locations, f, at[t])
  <2>1. function[t] = f
    BY <1>4 DEF NamesOf
  <2>2. f \in FunctionInfo /\ at[t] \in Nat
    BY FunctionTyped DEF CrashType
  <2>3. Symbol(f, FindLocation(at[t], f)) = NearestOf(image.locations, f, at[t])
    BY <2>2, SymbolIsNearest
  <2> QED BY <1>3, <2>1, <2>3
<1>5. shown'[t].at = at[t]
  BY <1>3
<1> QED BY <1>1, <1>2, <1>4, <1>5 DEF NamesOf

\* Nothing of it changes away from the tables.
LEMMA NamesKept ==
  ASSUME NEW t \in Threads, NamesOf(t), image' = image, shown'[t] = shown[t],
         \/ pc'[t] \notin {"place", "locations"}
         \/ /\ pc[t] \in {"place", "locations"}
            /\ at'[t] = at[t] /\ function'[t] = function[t]
  PROVE  NamesOf(t)'
BY DEF NamesOf

LEMMA FaultNames ==
  ASSUME CrashType, NEW t \in Threads, NamesOf(t), FaultInside(t) PROVE NamesOf(t)'
<1>1. CASE Terminate("default")
  BY <1>1, NamesKept DEF Terminate, env_vars, walk_vars
<1>2. CASE Goto(t, "guard") /\ UNCHANGED <<env_vars, walk_vars>>
  <2>1. pc'[t] = "guard"
    BY <1>2, GotoType DEF Labels
  <2> QED BY <1>2, <2>1, NamesKept DEF env_vars, walk_vars
<1> QED BY <1>1, <1>2 DEF FaultInside

LEMMA HandleNames ==
  ASSUME CrashType, NEW t \in Threads, Handle(t), NamesOf(t), known = 4, clearing = 0
  PROVE  NamesOf(t)'
<1>1. IsSet("functionCount") /\ IsSet("functions") /\ IsSet("locationCount") /\ IsSet("locations")
  BY SetFacts
<1>2. CASE GuardTaken(t) \/ Finish(t)
  BY <1>2, NamesKept DEF GuardTaken, Finish, Terminate, env_vars, walk_vars
<1>3. CASE Guard(t)
  <2>1. pc'[t] \in {"frame", "claim"}
    BY <1>3, GotoType DEF Guard, Labels
  <2> QED BY <1>3, <2>1, NamesKept DEF Guard, env_vars, walk_vars
<1>4. CASE Claim(t)
  <2>1. pc'[t] = "frame"
    BY <1>4, GotoType DEF Claim, Labels
  <2> QED BY <1>4, <2>1, NamesKept DEF Claim, env_vars, walk_vars
<1>5. CASE FunctionCount(t)
  <2>1. pc'[t] = "functions"
    BY <1>1, <1>5, GotoType DEF FunctionCount, Labels
  <2> QED BY <1>5, <2>1, NamesKept DEF FunctionCount, env_vars, walk_vars
<1>6. CASE FunctionTable(t)
  <2>1. /\ function'[t] = FindFunction(at[t])
        /\ UNCHANGED <<env_vars, at, shown>>
    BY <1>1, <1>6 DEF FunctionTable, CrashType
  <2>2. at[t] \in Nat
    BY DEF CrashType
  <2>3. \A f \in Range(image.functions) : Inside(f, at[t]) => function'[t] = f
    BY <2>1, <2>2, FunctionFound
  <2> QED BY <2>1, <2>3 DEF NamesOf, env_vars
<1>7. CASE LocationCount(t)
  BY <1>1, <1>7, NamesKept DEF LocationCount, env_vars, walk_vars
<1>8. CASE LocationTable(t)
  BY <1>1, <1>8, PrintNames DEF LocationTable
<1>9. CASE Probe(t)
  <2>1. pc'[t] \in {"deref", "end"}
    BY <1>9, GotoType DEF Probe, Labels
  <2> QED BY <1>9, <2>1, NamesKept DEF Probe, env_vars, walk_vars
<1>10. CASE Deref(t)
  <2>1. CASE FaultInside(t)
    BY <2>1, FaultNames
  <2>2. CASE ~ FaultInside(t)
    <3>1. pc'[t] \in {"end", "frame"}
      BY <1>10, <2>2, GotoType DEF Deref, Labels
    <3> QED BY <1>10, <2>2, <3>1, NamesKept DEF Deref, env_vars
  <2> QED BY <2>1, <2>2
<1> QED BY <1>2, <1>3, <1>4, <1>5, <1>6, <1>7, <1>8, <1>9, <1>10 DEF Handle

LEMMA NameStep ==
  ASSUME CrashInv, NamedInv, [Next]_vars PROVE NamedInv'
<1> USE DEF CrashInv
<1>0. clearing \in Nat /\ clearing' \in Nat
  BY NextType DEF CrashType
<1>1. ASSUME NEW t \in Threads, Handle(t) PROVE NamedInv'
  <2>1. HandleSteps(t)
    BY <1>1, HandleMoves
  <2>2. started
    BY <1>1 DEF WalkInv, Handle, GuardTaken, Guard, Claim, FunctionCount, FunctionTable,
                LocationCount, LocationTable, Probe, Deref, Finish
  <2>3. started' = started /\ known' = known /\ clearing' = clearing /\ image' = image
    BY <2>1 DEF HandleSteps, env_vars, image_vars
  <2>4. ASSUME known = 4, clearing = 0, NEW u \in Threads PROVE NamesOf(u)'
    <3>1. NamesOf(u)
      BY <2>4 DEF NamedInv
    <3>2. CASE u = t
      BY <1>1, <2>4, <3>1, <3>2, HandleNames
    <3>3. CASE u # t
      <4>1. pc'[u] = pc[u] /\ at'[u] = at[u] /\ function'[u] = function[u] /\ shown'[u] = shown[u]
        BY <2>1, <3>3 DEF HandleSteps
      <4> QED BY <2>3, <3>1, <4>1, NamesKept
    <3> QED BY <3>2, <3>3
  <2> QED BY <2>2, <2>3, <2>4 DEF NamedInv
<1>2. CASE \A t \in Threads : ~ Handle(t)
  <2>1. EnvSteps
    BY <1>2, OutsideSteps
  <2>2. started => started'
    BY <1>2 DEF Next, Install, Register, Start, ShutdownStore, Unmap, Fault, Trap, Terminate,
                EnterHandler, env_vars, vars
  <2>3. known' = 4 => known = 4 \/ ~ started
    BY <1>2 DEF Next, Install, Register, Start, Starting, ShutdownStore, Unmap, Fault, Trap,
                Terminate, EnterHandler, image_vars, vars
  <2>4. ASSUME known' = 4, clearing' = 0, NEW u \in Threads PROVE NamesOf(u)'
    <3>1. clearing = 0
      BY <1>0, <2>1, <2>4 DEF EnvSteps
    <3>2. pc[u] = "run" => pc'[u] \notin {"place", "locations"}
      BY <2>1 DEF EnvSteps
    <3>3. image' = image /\ shown' = shown /\ function' = function
      BY <2>1 DEF EnvSteps
    <3>4. CASE known = 4
      <4>1. NamesOf(u)
        BY <3>1, <3>4 DEF NamedInv
      <4>2. \/ pc'[u] \notin {"place", "locations"}
            \/ pc[u] \in {"place", "locations"} /\ at'[u] = at[u]
        BY <2>1, <3>2 DEF EnvSteps
      <4> QED BY <3>3, <4>1, <4>2, NamesKept
    <3>5. CASE ~ started
      <4>1. pc[u] = "run" /\ shown[u] = None
        BY <3>5 DEF WalkInv, NamedInv
      <4> QED BY <3>2, <3>3, <4>1 DEF NamesOf
    <3> QED BY <2>3, <2>4, <3>4, <3>5
  <2>5. ~ started' => \A t \in Threads : shown'[t] = None
    BY <2>1, <2>2 DEF EnvSteps, NamedInv
  <2> QED BY <2>4, <2>5 DEF NamedInv
<1> QED BY <1>1, <1>2

(* With the tables in place a frame inside a function is reported at the       *)
(* nearest location of that function at or below it, or else by the name of    *)
(* the function (gc.c:244-279).                                               *)
THEOREM NamesAreNearest == Spec => []FramesNamed
<1>1. Init => NamedInv
  BY DEF Init, NamedInv, NamesOf
<1>2. CrashInv /\ NamedInv => FramesNamed
  <2> SUFFICES ASSUME CrashInv, NamedInv, known = 4, clearing = 0,
                      NEW t \in Threads, NEW f \in Range(image.functions),
                      shown[t] # None, Inside(f, shown[t].at)
               PROVE  shown[t].symbol = NearestIn(f, shown[t].at)
    BY SetFacts DEF FramesNamed, CrashInv
  <2>1. shown[t].symbol = NearestOf(image.locations, f, shown[t].at)
    BY DEF NamedInv, NamesOf
  <2> QED BY <2>1, NearestIsOf
<1>3. CrashInv /\ NamedInv /\ [Next]_vars => NamedInv'
  BY NameStep
<1> QED BY <1>1, <1>2, <1>3, CrashInvariant, PTL DEF Spec
=============================================================================
