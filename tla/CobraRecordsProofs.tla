------------------------- MODULE CobraRecordsProofs -------------------------
(***************************************************************************)
(* Theorems about what the records of CobraHooks say: the class of an      *)
(* error, whether a view is one of help or of an unknown command, and the  *)
(* suggestion, for every tree, every list of options, and any number of    *)
(* Executes.                                                               *)
(***************************************************************************)
EXTENDS CobraHooksProofs, SuggestProofs

-----------------------------------------------------------------------------
(* What a list of options makes of a configuration.                        *)

Names == STRING \cup {None}

LEMMA ApplyIsConfig ==
    ASSUME NEW cfg \in Configs, NEW option \in HookOptions
    PROVE  Apply(cfg, option) \in Configs
<1>1. option.sets \in Without \cup {"category", "reason", "both"} /\ option.fn \in Names
  BY DEF HookOptions, Names
<1>2. CASE option.sets \in Without
  BY <1>2 DEF Apply, Configs, Without
<1>3. CASE option.sets \notin Without /\ option.fn = None
  BY <1>3 DEF Apply
<1>4. CASE option.sets = "both" /\ option.fn # None
  BY <1>1, <1>4 DEF Apply, Configs, Without, Names
<1>5. CASE option.sets \in {"category", "reason"} /\ option.fn # None
  BY <1>1, <1>5 DEF Apply, Configs, Without, Names
<1>6. QED BY <1>1, <1>2, <1>3, <1>4, <1>5

\* The configurations that cfg becomes, one option after the other.
IsApplied(f, cfg, opts) ==
    /\ f \in [0..Len(opts) -> Configs] /\ f[0] = cfg
    /\ \A k \in 1..Len(opts) : f[k] = Apply(f[k - 1], opts[k])

LEMMA ApplyAllRuns ==
    ASSUME NEW cfg \in Configs, NEW opts \in Seq(HookOptions)
    PROVE  \E f : IsApplied(f, cfg, opts) /\ ApplyAll(cfg, opts) = f[Len(opts)]
<1> DEFINE n == Len(opts)
           iter[s \in SUBSET DOMAIN opts] ==
              IF s = {} THEN cfg ELSE Apply(iter[s \ {Max(s)}], opts[Max(s)])
           Rec(h) == [s \in SUBSET DOMAIN opts |->
              IF s = {} THEN cfg ELSE Apply(h[s \ {Max(s)}], opts[Max(s)])]
           step == [i \in 1..n |-> [c \in Configs |-> Apply(c, opts[i])]]
<1>1. n \in Nat /\ DOMAIN opts = 1..n /\ \A i \in 1..n : opts[i] \in HookOptions
  OBVIOUS
<1>2. ApplyAll(cfg, opts) = iter[DOMAIN opts]
  BY Zenon DEF ApplyAll, FoldLeft, MapThenFoldSet
<1>3. step \in [1..n -> [Configs -> Configs]]
  <2>1. \A i \in 1..n : \A c \in Configs : Apply(c, opts[i]) \in Configs
    BY <1>1, ApplyIsConfig
  <2>2. QED BY <2>1
<1>4. PICK g : FoldTable(g, n, Configs, cfg, step)
  <2> HIDE DEF step, n, iter, Rec
  <2>1. QED BY <1>1, <1>3, FoldExists
<1>5. g = Rec(g)
  <2>1. ASSUME NEW s \in SUBSET (1..n), s # {}
        PROVE  g[s] = Apply(g[s \ {Max(s)}], opts[Max(s)])
    <3>1. s \ {Max(s)} \in SUBSET (1..n) /\ Max(s) \in 1..n
      BY <1>4, <2>1 DEF FoldTable
    <3>2. g[s \ {Max(s)}] \in Configs
      BY <1>4, <3>1 DEF FoldTable
    <3>3. step[Max(s)][g[s \ {Max(s)}]] = Apply(g[s \ {Max(s)}], opts[Max(s)])
      BY <3>1, <3>2
    <3> HIDE DEF step
    <3>4. QED BY <1>4, <2>1, <3>3 DEF FoldTable
  <2>2. \A s \in SUBSET DOMAIN opts : g[s] = Rec(g)[s]
    BY <1>1, <1>4, <2>1 DEF FoldTable
  <2>3. QED BY <1>1, <1>4, <2>2 DEF FoldTable
<1>6. iter = Rec(iter)
  <2>1. \E h : h = Rec(h)
    BY <1>5, Zenon
  <2>2. QED BY <2>1, Zenon
<1> HIDE DEF iter
<1> DEFINE f == [k \in 0..n |-> iter[1..k]]
<1>7. iter[{}] = cfg
  <2>1. {} \in SUBSET DOMAIN opts
    OBVIOUS
  <2>2. QED BY <1>6, <2>1, Zenon
<1>8. ASSUME NEW k \in 1..n PROVE iter[1..k] = Apply(iter[1..(k - 1)], opts[k])
  <2>1. /\ 1..k \in SUBSET DOMAIN opts /\ 1..k # {} /\ Max(1..k) = k
        /\ (1..k) \ {k} = 1..(k - 1)
    BY <1>1, FoldRuns
  <2>2. iter[1..k] = Apply(iter[(1..k) \ {Max(1..k)}], opts[Max(1..k)])
    BY <1>6, <2>1, Zenon
  <2>3. QED BY <2>1, <2>2
<1>9. f[0] = cfg /\ \A k \in 1..n : f[k] = Apply(f[k - 1], opts[k])
  <2>1. 0 \in 0..n /\ 1..0 = {} /\ \A k \in 1..n : k \in 0..n /\ k - 1 \in 0..n
    BY <1>1
  <2>2. QED BY <1>7, <1>8, <2>1
<1>10. f \in [0..n -> Configs]
  <2> DEFINE S == {k \in 0..n : f[k] \in Configs}
  <2>1. 0 \in S
    BY <1>1, <1>9
  <2>2. ASSUME NEW k \in 1..n, k - 1 \in S PROVE k \in S
    <3>1. f[k - 1] \in Configs /\ k \in 0..n /\ opts[k] \in HookOptions
      BY <1>1, <2>2
    <3>2. f[k] = Apply(f[k - 1], opts[k])
      BY <1>9
    <3> HIDE DEF f, n
    <3>3. f[k] \in Configs
      BY <3>1, <3>2, ApplyIsConfig
    <3>4. QED BY <3>1, <3>3
  <2> HIDE DEF S
  <2>3. \A k \in 0..n : k \in S
    BY <1>1, <2>1, <2>2, Induction
  <2>4. QED BY <2>3 DEF S
<1>11. n \in 0..n /\ iter[1..n] = f[n]
  BY <1>1
<1> HIDE DEF f
<1>12. QED BY <1>1, <1>2, <1>9, <1>10, <1>11 DEF IsApplied

LEMMA ApplyAllIsConfig ==
    ASSUME NEW cfg \in Configs, NEW opts \in Seq(HookOptions)
    PROVE  ApplyAll(cfg, opts) \in Configs
<1>1. PICK f : IsApplied(f, cfg, opts) /\ ApplyAll(cfg, opts) = f[Len(opts)]
  BY ApplyAllRuns
<1>2. Len(opts) \in 0..Len(opts)
  OBVIOUS
<1>3. QED BY <1>1, <1>2 DEF IsApplied

LEMMA PlainConfigs == DefaultConfig \in Configs /\ NoConfig \in Configs
BY DEF DefaultConfig, NoConfig, Configs

-----------------------------------------------------------------------------
(* The class that the last options say.                                    *)

LEMMA LargestNatural ==
    ASSUME NEW k \in Nat, NEW T \in SUBSET (0..k), T # {}
    PROVE  Max(T) \in T /\ \A y \in T : Max(T) >= y
<1> DEFINE D == {k - t : t \in T}
<1>1. D \in SUBSET Nat /\ D # {}
  <2>1. \A t \in T : t \in 0..k
    OBVIOUS
  <2>2. \A t \in 0..k : k - t \in Nat
    OBVIOUS
  <2>3. QED BY <2>1, <2>2
<1>2. PICK d \in D : \A e \in D : d <= e
  <2> HIDE DEF D
  <2> QED BY <1>1, LeastNatural
<1>3. PICK t \in T : d = k - t
  BY <1>2
<1>4. ASSUME NEW y \in T PROVE t >= y
  <2>1. k - y \in D
    OBVIOUS
  <2>2. d <= k - y
    BY <1>2, <2>1
  <2>3. t \in 0..k /\ y \in 0..k
    OBVIOUS
  <2>4. QED BY <1>3, <2>2, <2>3
<1>5. QED BY <1>3, <1>4, Zenon DEF Max

\* Option k gives a function for what it sets.
Effective(opts, sets, k) == opts[k].sets = sets /\ opts[k].fn # None

\* The last such option after from among the first k.
LastOf(opts, sets, from, k) == Max({from} \cup {i \in 1..k : i > from /\ Effective(opts, sets, i)})

LEMMA LastFacts ==
    ASSUME NEW opts, NEW sets, NEW k \in Nat, NEW from \in 0..k
    PROVE  /\ LastOf(opts, sets, from, k) \in from..k
           /\ LastOf(opts, sets, from, k) > from => Effective(opts, sets, LastOf(opts, sets, from, k))
           /\ \A i \in 1..k : i > from /\ Effective(opts, sets, i) => LastOf(opts, sets, from, k) >= i
<1> DEFINE E(i) == Effective(opts, sets, i)
           T == {from} \cup {i \in 1..k : i > from /\ E(i)}
           m == LastOf(opts, sets, from, k)
<1> HIDE DEF E
<1>1. T \in SUBSET (0..k) /\ T # {}
  OBVIOUS
<1>2. m = Max(T)
  BY DEF LastOf, E
<1> HIDE DEF m
<1>3. m \in T /\ \A y \in T : m >= y
  <2> HIDE DEF T
  <2> QED BY <1>1, <1>2, LargestNatural
<1>4. m \in from..k /\ (m > from => E(m)) /\ \A i \in 1..k : i > from /\ E(i) => m >= i
  BY <1>3
<1>5. QED BY <1>4 DEF m, E

LEMMA LastUnique ==
    ASSUME NEW opts, NEW sets, NEW k \in Nat, NEW from \in 0..k, NEW m \in from..k,
           m > from => Effective(opts, sets, m),
           \A i \in 1..k : i > from /\ Effective(opts, sets, i) => m >= i
    PROVE  LastOf(opts, sets, from, k) = m
<1> DEFINE n == LastOf(opts, sets, from, k)
<1>1. /\ n \in from..k /\ (n > from => Effective(opts, sets, n))
      /\ \A i \in 1..k : i > from /\ Effective(opts, sets, i) => n >= i
  BY LastFacts
<1> HIDE DEF n
<1>2. m >= n
  BY <1>1
<1>3. n >= m
  BY <1>1
<1>4. n = m
  BY <1>1, <1>2, <1>3
<1>5. QED BY <1>4 DEF n

\* One more option: it is the last one, or it does not matter.
LEMMA LastStep ==
    ASSUME NEW opts, NEW sets, NEW k \in Nat \ {0}, NEW from \in 0..(k - 1)
    PROVE  LastOf(opts, sets, from, k) =
              IF Effective(opts, sets, k) THEN k ELSE LastOf(opts, sets, from, k - 1)
<1>1. CASE Effective(opts, sets, k)
  <2>1. k \in from..k /\ from \in 0..k
    OBVIOUS
  <2>2. QED BY <1>1, <2>1, LastUnique
<1>2. CASE ~ Effective(opts, sets, k)
  <2> DEFINE m == LastOf(opts, sets, from, k - 1)
  <2>1. k - 1 \in Nat
    OBVIOUS
  <2>2. /\ m \in from..(k - 1) /\ (m > from => Effective(opts, sets, m))
        /\ \A i \in 1..(k - 1) : i > from /\ Effective(opts, sets, i) => m >= i
    BY <2>1, LastFacts
  <2> HIDE DEF m
  <2>3. m \in from..k /\ from \in 0..k
    BY <2>2
  <2>4. ASSUME NEW i \in 1..k, i > from, Effective(opts, sets, i) PROVE m >= i
    <3>1. i # k
      BY <1>2, <2>4
    <3>2. i \in 1..(k - 1)
      BY <3>1
    <3>3. QED BY <2>2, <2>4, <3>2
  <2>5. LastOf(opts, sets, from, k) = m
    BY <2>2, <2>3, <2>4, LastUnique
  <2>6. QED BY <1>2, <2>5 DEF m
<1>3. QED BY <1>1, <1>2

LastBoth(opts, k) == LastOf(opts, "both", 0, k)
LastSince(opts, sets, k) == LastOf(opts, sets, LastBoth(opts, k), k)

\* The function for a category or a reason that the first k options leave.
Since(opts, sets, k) ==
    IF LastSince(opts, sets, k) > LastBoth(opts, k) THEN opts[LastSince(opts, sets, k)].fn ELSE None

\* What the configuration is after the first k options.
Says(cfg, opts, k) ==
    /\ cfg.category = Since(opts, "category", k) /\ cfg.reason = Since(opts, "reason", k)
    /\ cfg.both = IF /\ Since(opts, "category", k) = None /\ Since(opts, "reason", k) = None
                     /\ LastBoth(opts, k) > 0
                  THEN opts[LastBoth(opts, k)].fn ELSE None

LEMMA SinceStep ==
    ASSUME NEW opts, NEW k \in Nat \ {0}, NEW sets, sets # "both"
    PROVE  /\ Effective(opts, "both", k) => LastBoth(opts, k) = k /\ Since(opts, sets, k) = None
           /\ Effective(opts, sets, k) => /\ LastBoth(opts, k) = LastBoth(opts, k - 1)
                                          /\ Since(opts, sets, k) = opts[k].fn
           /\ ~ Effective(opts, "both", k) /\ ~ Effective(opts, sets, k) =>
                 /\ LastBoth(opts, k) = LastBoth(opts, k - 1)
                 /\ Since(opts, sets, k) = Since(opts, sets, k - 1)
<1> DEFINE b == LastBoth(opts, k - 1)
<1>1. k - 1 \in Nat /\ 0 \in 0..(k - 1)
  OBVIOUS
<1>2. b \in 0..(k - 1)
  BY <1>1, LastFacts DEF LastBoth
<1>3. LastBoth(opts, k) = IF Effective(opts, "both", k) THEN k ELSE b
  BY <1>1, LastStep DEF LastBoth
<1>4. CASE Effective(opts, "both", k)
  <2>1. LastBoth(opts, k) = k
    BY <1>3, <1>4
  <2>2. k \in 0..k
    OBVIOUS
  <2>3. LastOf(opts, sets, k, k) \in k..k
    BY <2>2, LastFacts
  <2>4. ~ (LastSince(opts, sets, k) > LastBoth(opts, k))
    BY <2>1, <2>3 DEF LastSince
  <2>5. ~ Effective(opts, sets, k)
    BY <1>4 DEF Effective
  <2>6. QED BY <1>4, <2>1, <2>4, <2>5 DEF Since
<1>5. CASE ~ Effective(opts, "both", k)
  <2>1. LastBoth(opts, k) = b
    BY <1>3, <1>5
  <2>2. LastOf(opts, sets, b, k) = IF Effective(opts, sets, k) THEN k ELSE LastOf(opts, sets, b, k - 1)
    BY <1>2, LastStep
  <2>3. LastSince(opts, sets, k) = IF Effective(opts, sets, k) THEN k ELSE LastSince(opts, sets, k - 1)
    BY <2>1, <2>2 DEF LastSince
  <2>4. CASE Effective(opts, sets, k)
    <3>1. LastSince(opts, sets, k) = k /\ k > b
      BY <1>2, <2>3, <2>4
    <3>2. QED BY <1>5, <2>1, <2>4, <3>1 DEF Since
  <2>5. CASE ~ Effective(opts, sets, k)
    BY <1>5, <2>1, <2>3, <2>5 DEF Since
  <2>6. QED BY <2>4, <2>5
<1>6. QED BY <1>4, <1>5

LEMMA SaysStep ==
    ASSUME NEW opts \in Seq(HookOptions), NEW k \in 1..Len(opts), NEW cfg \in Configs,
           Says(cfg, opts, k - 1)
    PROVE  Says(Apply(cfg, opts[k]), opts, k)
<1> DEFINE option == opts[k]
           new == Apply(cfg, option)
<1>1. /\ option \in HookOptions /\ k \in Nat \ {0}
      /\ option.sets \in Without \cup {"category", "reason", "both"}
  <2>1. option \in HookOptions /\ k \in Nat \ {0}
    OBVIOUS
  <2>2. QED BY <2>1 DEF HookOptions
<1>2. \A sets : Effective(opts, sets, k) <=> option.sets = sets /\ option.fn # None
  BY DEF Effective
<1>3. /\ cfg.category = Since(opts, "category", k - 1) /\ cfg.reason = Since(opts, "reason", k - 1)
      /\ cfg.both = IF /\ Since(opts, "category", k - 1) = None /\ Since(opts, "reason", k - 1) = None
                       /\ LastBoth(opts, k - 1) > 0
                    THEN opts[LastBoth(opts, k - 1)].fn ELSE None
  BY DEF Says
<1>4. ASSUME NEW sets \in {"category", "reason"}
      PROVE  /\ Effective(opts, "both", k) => LastBoth(opts, k) = k /\ Since(opts, sets, k) = None
             /\ Effective(opts, sets, k) => /\ LastBoth(opts, k) = LastBoth(opts, k - 1)
                                            /\ Since(opts, sets, k) = option.fn
             /\ ~ Effective(opts, "both", k) /\ ~ Effective(opts, sets, k) =>
                   /\ LastBoth(opts, k) = LastBoth(opts, k - 1)
                   /\ Since(opts, sets, k) = Since(opts, sets, k - 1)
  <2>1. sets # "both"
    OBVIOUS
  <2>2. QED BY <1>1, <2>1, SinceStep
<1>5. CASE option.fn = None \/ option.sets \in Without
  <2>1. /\ ~ Effective(opts, "both", k) /\ ~ Effective(opts, "category", k)
        /\ ~ Effective(opts, "reason", k)
    BY <1>2, <1>5 DEF Without
  <2>2. new.category = cfg.category /\ new.reason = cfg.reason /\ new.both = cfg.both
    BY <1>5 DEF Apply, Configs, Without
  <2> HIDE DEF new, option
  <2>3. QED BY <1>3, <1>4, <2>1, <2>2 DEF Says, new, option
<1>6. CASE option.sets = "both" /\ option.fn # None
  <2>1. Effective(opts, "both", k)
    BY <1>2, <1>6
  <2>2. new.category = None /\ new.reason = None /\ new.both = option.fn
    BY <1>6 DEF Apply, Configs, Without
  <2>3. LastBoth(opts, k) = k /\ Since(opts, "category", k) = None /\ Since(opts, "reason", k) = None
    BY <1>4, <2>1
  <2>4. k > 0
    OBVIOUS
  <2> HIDE DEF new
  <2>5. QED BY <2>2, <2>3, <2>4 DEF Says, new
<1>7. CASE option.sets = "category" /\ option.fn # None
  <2>1. Effective(opts, "category", k) /\ ~ Effective(opts, "both", k) /\ ~ Effective(opts, "reason", k)
    BY <1>2, <1>7
  <2>2. new.category = option.fn /\ new.reason = cfg.reason /\ new.both = None
    BY <1>7 DEF Apply, Configs, Without
  <2>3. Since(opts, "category", k) = option.fn /\ Since(opts, "reason", k) = cfg.reason
    BY <1>3, <1>4, <2>1
  <2> HIDE DEF new, option
  <2>4. QED BY <1>7, <2>2, <2>3 DEF Says, new, option
<1>8. CASE option.sets = "reason" /\ option.fn # None
  <2>1. Effective(opts, "reason", k) /\ ~ Effective(opts, "both", k) /\ ~ Effective(opts, "category", k)
    BY <1>2, <1>8
  <2>2. new.reason = option.fn /\ new.category = cfg.category /\ new.both = None
    BY <1>8 DEF Apply, Configs, Without
  <2>3. Since(opts, "reason", k) = option.fn /\ Since(opts, "category", k) = cfg.category
    BY <1>3, <1>4, <2>1
  <2> HIDE DEF new, option
  <2>4. QED BY <1>8, <2>2, <2>3 DEF Says, new, option
<1>9. QED BY <1>1, <1>5, <1>6, <1>7, <1>8

LEMMA SaysNothing ==
    ASSUME NEW opts, NEW cfg, cfg = DefaultConfig PROVE Says(cfg, opts, 0)
<1>1. 0 \in Nat /\ 0 \in 0..0
  OBVIOUS
<1>2. \A sets : LastOf(opts, sets, 0, 0) \in 0..0
  BY <1>1, LastFacts
<1>3. \A sets : LastOf(opts, sets, 0, 0) = 0
  BY <1>2
<1>4. LastBoth(opts, 0) = 0 /\ \A sets : LastSince(opts, sets, 0) = 0
  BY <1>3 DEF LastBoth, LastSince
<1>5. QED BY <1>4 DEF Says, Since, DefaultConfig

LEMMA SaysAll ==
    ASSUME NEW opts \in Seq(HookOptions), NEW f, IsApplied(f, DefaultConfig, opts)
    PROVE  Says(f[Len(opts)], opts, Len(opts))
<1> DEFINE n == Len(opts)
           S == {k \in 0..n : Says(f[k], opts, k)}
<1>1. n \in Nat /\ f \in [0..n -> Configs] /\ f[0] = DefaultConfig
      /\ \A k \in 1..n : f[k] = Apply(f[k - 1], opts[k])
  BY DEF IsApplied
<1>2. 0 \in S
  BY <1>1, SaysNothing
<1>3. ASSUME NEW k \in 1..n, k - 1 \in S PROVE k \in S
  <2>1. Says(f[k - 1], opts, k - 1) /\ k - 1 \in 0..n /\ k \in 0..n
    BY <1>3
  <2>2. f[k - 1] \in Configs /\ f[k] = Apply(f[k - 1], opts[k])
    BY <1>1, <2>1
  <2>3. Says(f[k], opts, k)
    BY <2>1, <2>2, SaysStep
  <2>4. QED BY <2>1, <2>3
<1> HIDE DEF S
<1>4. \A k \in 0..n : k \in S
  BY <1>1, <1>2, <1>3, Induction
<1>5. n \in S
  BY <1>1, <1>4
<1>6. QED BY <1>5 DEF S

\* The last options decide how an error is classified, whatever came before.
LEMMA SaysClass ==
    ASSUME NEW opts \in Seq(HookOptions), NEW cfg, Says(cfg, opts, Len(opts))
    PROVE  classify(cfg) = Classification(opts)
<1> DEFINE n == Len(opts)
           b == LastBoth(opts, n)
           category == Since(opts, "category", n)
           reason == Since(opts, "reason", n)
<1>1. DOMAIN opts = 1..n /\ n \in Nat
  OBVIOUS
<1> DEFINE last(sets, from) ==
              Max({from} \cup {k \in DOMAIN opts :
                                 k > from /\ opts[k].sets = sets /\ opts[k].fn # None})
           both == last("both", 0)
           By(sets) == IF last(sets, both) > both THEN opts[last(sets, both)].fn ELSE None
<1>2. Classification(opts) =
         IF By("category") = None /\ By("reason") = None /\ both > 0
         THEN [category |-> opts[both].fn, reason |-> opts[both].fn]
         ELSE [category |-> By("category"), reason |-> By("reason")]
  BY Zenon DEF Classification
<1>3. both = b /\ By("category") = category /\ By("reason") = reason
  <2>1. \A sets, from : last(sets, from) = LastOf(opts, sets, from, n)
    BY <1>1, Zenon DEF LastOf, Effective
  <2> HIDE DEF last
  <2>2. both = b
    BY <2>1 DEF LastBoth
  <2> HIDE DEF both, b
  <2>3. \A sets : last(sets, both) = LastSince(opts, sets, n)
    BY <2>1, <2>2 DEF LastSince, b
  <2>4. QED BY <2>2, <2>3 DEF Since, b
<1>4. b > 0 => opts[b].fn # None
  <2>1. 0 \in 0..n
    BY <1>1
  <2>2. LastOf(opts, "both", 0, n) > 0 => Effective(opts, "both", LastOf(opts, "both", 0, n))
    BY <1>1, <2>1, LastFacts
  <2>3. QED BY <2>2 DEF Effective, LastBoth
<1>5. /\ cfg.category = category /\ cfg.reason = reason
      /\ cfg.both = IF category = None /\ reason = None /\ b > 0 THEN opts[b].fn ELSE None
  BY DEF Says
<1> HIDE DEF b, category, reason, both, By
<1>6. QED BY <1>2, <1>3, <1>4, <1>5 DEF classify

\* An error is classified by the function for both that was given last, or by
\* those for its category and its reason that followed: for every list of
\* options that InstrumentCobra applies to its defaults (cobrasdk.go:131-232).
THEOREM LastOptionsClassify ==
    ASSUME NEW opts \in Seq(HookOptions)
    PROVE  classify(ApplyAll(DefaultConfig, opts)) = Classification(opts)
<1>1. PICK f : IsApplied(f, DefaultConfig, opts)
               /\ ApplyAll(DefaultConfig, opts) = f[Len(opts)]
  BY PlainConfigs, ApplyAllRuns
<1>2. Says(f[Len(opts)], opts, Len(opts))
  BY <1>1, SaysAll
<1>3. QED BY <1>1, <1>2, SaysClass

\* The configurations of one list after the other.
LEMMA AppliedTwice ==
    ASSUME NEW cfg, NEW opts \in Seq(HookOptions), NEW more \in Seq(HookOptions),
           NEW f, IsApplied(f, cfg, opts), NEW g, IsApplied(g, f[Len(opts)], more)
    PROVE  \E h : IsApplied(h, cfg, opts \o more) /\ h[Len(opts \o more)] = g[Len(more)]
<1> DEFINE n == Len(opts)
           m == Len(more)
           all == opts \o more
           h == [k \in 0..(n + m) |-> IF k <= n THEN f[k] ELSE g[k - n]]
<1>1. n \in Nat /\ m \in Nat /\ all \in Seq(HookOptions) /\ Len(all) = n + m
      /\ \A k \in 1..(n + m) : all[k] = IF k <= n THEN opts[k] ELSE more[k - n]
  OBVIOUS
<1>2. /\ f \in [0..n -> Configs] /\ f[0] = cfg
      /\ \A k \in 1..n : f[k] = Apply(f[k - 1], opts[k])
      /\ g \in [0..m -> Configs] /\ g[0] = f[n]
      /\ \A k \in 1..m : g[k] = Apply(g[k - 1], more[k])
  BY DEF IsApplied
<1> HIDE DEF all
<1>3. \A k \in 0..n : h[k] = f[k]
  BY <1>1
<1>4. \A k \in 0..m : h[n + k] = g[k]
  <2>1. TAKE k \in 0..m
  <2>2. n + k \in 0..(n + m) /\ n + k - n = k
    BY <1>1
  <2>3. CASE k = 0
    <3>1. h[n + 0] = f[n]
      BY <1>1, <1>3
    <3>2. QED BY <1>2, <2>3, <3>1
  <2>4. CASE k # 0
    <3>1. ~ (n + k <= n)
      BY <1>1, <2>4
    <3>2. QED BY <2>2, <3>1
  <2>5. QED BY <2>3, <2>4
<1>5. h \in [0..(n + m) -> Configs]
  <2>1. ASSUME NEW k \in 0..(n + m) PROVE (IF k <= n THEN f[k] ELSE g[k - n]) \in Configs
    <3>1. CASE k <= n
      <4>1. k \in 0..n
        BY <1>1, <3>1
      <4>2. QED BY <1>2, <3>1, <4>1
    <3>2. CASE ~ (k <= n)
      <4>1. k - n \in 0..m
        BY <1>1, <3>2
      <4>2. QED BY <1>2, <3>2, <4>1
    <3>3. QED BY <3>1, <3>2
  <2>2. QED BY <2>1
<1> HIDE DEF h
<1>6. ASSUME NEW k \in 1..(n + m) PROVE h[k] = Apply(h[k - 1], all[k])
  <2>1. CASE k <= n
    <3>1. k \in 1..n /\ k \in 0..n /\ k - 1 \in 0..n
      BY <1>1, <2>1
    <3>2. all[k] = opts[k]
      BY <1>1, <2>1
    <3>3. QED BY <1>2, <1>3, <3>1, <3>2
  <2>2. CASE ~ (k <= n)
    <3> DEFINE j == k - n
    <3>1. j \in 1..m /\ j \in 0..m /\ j - 1 \in 0..m /\ k = n + j /\ k - 1 = n + (j - 1)
      BY <1>1, <2>2
    <3>2. all[k] = more[j]
      BY <1>1, <2>2
    <3> HIDE DEF j
    <3>3. h[k] = g[j] /\ h[k - 1] = g[j - 1]
      BY <1>4, <3>1
    <3>4. QED BY <1>2, <3>1, <3>2, <3>3
  <2>3. QED BY <2>1, <2>2
<1>7. h[0] = cfg
  <2>1. 0 \in 0..n
    BY <1>1
  <2>2. h[0] = f[0]
    BY <1>3, <2>1
  <2>3. QED BY <1>2, <2>2
<1>8. h[n + m] = g[m]
  BY <1>1, <1>4
<1>9. IsApplied(h, cfg, all) /\ h[Len(all)] = g[m]
  BY <1>1, <1>5, <1>6, <1>7, <1>8 DEF IsApplied
<1>10. QED BY <1>9 DEF all

\* The options of an exit are applied over those of the tree, as if they had
\* been given to it last (RecordExitError, cobrasdk.go).
THEOREM ExitOptionsFollow ==
    ASSUME NEW opts \in Seq(HookOptions), NEW more \in Seq(HookOptions)
    PROVE  classify(ApplyAll(ApplyAll(DefaultConfig, opts), more)) = Classification(opts \o more)
<1> DEFINE cfg == ApplyAll(DefaultConfig, opts)
<1>1. PICK f : IsApplied(f, DefaultConfig, opts) /\ cfg = f[Len(opts)]
  BY PlainConfigs, ApplyAllRuns
<1>2. cfg \in Configs
  BY PlainConfigs, ApplyAllIsConfig
<1> HIDE DEF cfg
<1>3. PICK g : IsApplied(g, cfg, more) /\ ApplyAll(cfg, more) = g[Len(more)]
  BY <1>2, ApplyAllRuns
<1>4. PICK h : IsApplied(h, DefaultConfig, opts \o more) /\ h[Len(opts \o more)] = g[Len(more)]
  BY <1>1, <1>3, AppliedTwice
<1>5. opts \o more \in Seq(HookOptions)
  OBVIOUS
<1>6. Says(h[Len(opts \o more)], opts \o more, Len(opts \o more))
  BY <1>4, <1>5, SaysAll
<1>7. classify(g[Len(more)]) = Classification(opts \o more)
  BY <1>4, <1>5, <1>6, SaysClass
<1>8. QED BY <1>3, <1>7 DEF cfg

-----------------------------------------------------------------------------
(* The types.                                                              *)

\* Both exits as one action: by is the list of options that is given, if any.
Exiting(code, failed, by) ==
    /\ at = "inner" /\ code \in Nat /\ failed \in BOOLEAN /\ (code # 0 => failed)
    /\ by \in ExitOptions \cup {None}
    /\ ExitWith(code, failed, IF by = None THEN NoConfig ELSE ApplyAll(config, by), by)
    /\ UNCHANGED <<given, top, ctx, flags, executes, known, asks>>

LEMMA ExitSteps ==
    ASSUME [Next]_vars
    PROVE  \/ \E c \in Commands : Execute(c)
           \/ \E c \in Commands, typed \in Typed \cup {None}, asked \in BOOLEAN :
                 Help(c, typed, asked)
           \/ \E c \in Commands : ShowHelp(c)
           \/ \E c \in Commands, typed \in Typed : RecordExecuteError(c, typed)
           \/ \E c, cmd \in Commands : Call(c, cmd)
           \/ \E code, failed, by : Exiting(code, failed, by)
           \/ Hook \/ Finish \/ Panic \/ Leave \/ Raise \/ Record \/ recordPanic
           \/ UNCHANGED vars
<1>1. ASSUME NEW code \in ExitCodes, RecordExit(code) PROVE Exiting(code, code # 0, None)
  <2>1. code \in Nat /\ (code # 0) \in BOOLEAN
    BY HooksAssumption
  <2>2. QED BY <1>1, <2>1 DEF RecordExit, Exiting
<1>2. ASSUME NEW code \in ExitCodes, NEW failed \in BOOLEAN, NEW opts \in ExitOptions,
             RecordExitError(code, failed, opts)
      PROVE  Exiting(code, failed, opts)
  <2>1. code \in Nat /\ opts # None
    BY HooksAssumption, OptionsAssumption
  <2> DEFINE cfg == ApplyAll(config, opts)
  <2>2. cfg = IF opts = None THEN NoConfig ELSE ApplyAll(config, opts)
    BY <2>1
  <2>3. /\ at = "inner" /\ (code # 0 => failed) /\ ExitWith(code, failed, cfg, opts)
        /\ UNCHANGED <<given, top, ctx, flags, executes, known, asks>>
    BY <1>2 DEF RecordExitError
  <2> HIDE DEF cfg
  <2>4. QED BY <2>1, <2>2, <2>3 DEF Exiting
<1>3. Stopped => UNCHANGED vars
  BY DEF Stopped
<1> HIDE DEF vars
<1>4. QED BY <1>1, <1>2, <1>3, Zenon DEF Next, Instrumentation

\* What TypeOK says beyond Shape, and that config is what options make it.
Values ==
    /\ options \in OptionLists /\ config = ApplyAll(DefaultConfig, options)
    /\ Len(runs) <= MaxRuns
    /\ value \in {None, "ok", "err"} \cup Panics
    /\ at \in {"unwind", "raise", "crashed"} => value \in Panics
    /\ known \subseteq Commands

LEMMA ValuesInit == ASSUME Init PROVE Values
<1>1. options \in OptionLists /\ config = ApplyAll(DefaultConfig, options)
  BY DEF Init
<1>2. Len(runs) = 0 /\ MaxRuns \in Nat
  BY HooksAssumption DEF Init
<1>3. value = None /\ at = "idle" /\ known = {}
  BY DEF Init
<1>4. QED BY <1>1, <1>2, <1>3 DEF Values

\* What is kept of the flags, and of what an observer was given to see.
Flagged ==
    /\ IsSeq(asks)
    /\ flags \in [Commands -> [typed : Typed \cup {None}, help : BOOLEAN]]
    /\ \A c \in Commands : flags[c].typed # None => Kind[c] = "none"

LEMMA FlaggedInit == ASSUME Init PROVE Flagged
<1>1. asks = <<>> /\ flags = [c \in Commands |-> NotParsed]
  BY DEF Init
<1>2. NotParsed \in [typed : Typed \cup {None}, help : BOOLEAN] /\ NotParsed.typed = None
  BY DEF NotParsed
<1>3. IsSeq(asks)
  BY <1>1, ShortSeqs
<1>4. QED BY <1>1, <1>2, <1>3 DEF Flagged

LEMMA AskIsSeq == ASSUME Flagged, NEW by, NEW c, NEW typed, NEW asked, Ask(by, c, typed, asked)
                  PROVE  IsSeq(asks')
<1>1. PICK a : asks' = Append(asks, a)
  BY DEF Ask
<1>2. Append(asks, a) = asks \o <<a>>
  BY DEF Flagged, IsSeq
<1>3. IsSeq(asks \o <<a>>)
  BY Joined, ShortSeqs DEF Flagged
<1>4. QED BY <1>1, <1>2, <1>3

\* Only an Execute that shows help parses, and only observers see anything.
LEMMA FlaggedKept == ASSUME Flagged, UNCHANGED <<flags, asks>> PROVE Flagged'
BY DEF Flagged, IsSeq

LEMMA FlaggedStep == ASSUME Flagged, [Next]_vars PROVE Flagged'
<1>1. ASSUME NEW c \in Commands, NEW typed \in Typed \cup {None}, NEW asked \in BOOLEAN,
             Help(c, typed, asked)
      PROVE  Flagged'
  <2> DEFINE new == [typed |-> typed, help |-> asked \/ flags[c].help]
  <2>1. flags' = [flags EXCEPT ![c] = new] /\ (typed # None => Kind[c] = "none")
        /\ Ask("help", c, typed, asked)
    BY <1>1 DEF Help, Flagged
  <2>2. new \in [typed : Typed \cup {None}, help : BOOLEAN] /\ new.typed = typed
    OBVIOUS
  <2> HIDE DEF new
  <2>3. flags' \in [Commands -> [typed : Typed \cup {None}, help : BOOLEAN]]
    BY <2>1, <2>2 DEF Flagged
  <2>4. \A d \in Commands : flags'[d].typed # None => Kind[d] = "none"
    BY <2>1, <2>2 DEF Flagged
  <2>5. IsSeq(asks')
    BY <2>1, AskIsSeq
  <2>6. QED BY <2>3, <2>4, <2>5 DEF Flagged, IsSeq
<1>2. ASSUME NEW c \in Commands, NEW typed \in Typed, ShowHelp(c) \/ RecordExecuteError(c, typed)
      PROVE  Flagged'
  <2>1. UNCHANGED flags /\ (Ask("run", c, None, TRUE) \/ Ask("error", c, typed, FALSE))
    BY <1>2 DEF ShowHelp, RecordExecuteError
  <2>2. IsSeq(asks')
    BY <2>1, AskIsSeq
  <2>3. QED BY <2>1, <2>2 DEF Flagged, IsSeq
<1>3. ASSUME NEW c \in Commands, ShowHelp(c) PROVE Flagged'
  <2>1. UNCHANGED flags /\ Ask("run", c, None, TRUE)
    BY <1>3 DEF ShowHelp
  <2>2. IsSeq(asks')
    BY <2>1, AskIsSeq
  <2>3. QED BY <2>1, <2>2 DEF Flagged, IsSeq
<1>4. ASSUME \/ \E c \in Commands : Execute(c)
             \/ \E c, cmd \in Commands : Call(c, cmd)
             \/ \E code, failed, by : Exiting(code, failed, by)
             \/ Hook \/ Finish \/ Panic \/ Leave \/ Raise \/ Record \/ recordPanic
             \/ UNCHANGED vars
      PROVE  UNCHANGED <<flags, asks>>
  BY <1>4 DEF Execute, Call, Exiting, Hook, Finish, Panic, Leave, Raise, Record, recordPanic,
     vars, host
<1>5. QED BY ExitSteps, <1>1, <1>2, <1>3, <1>4, FlaggedKept

LEMMA SameLength ==
    ASSUME NEW S, NEW s \in Seq(S), NEW t \in Seq(S), DOMAIN s = DOMAIN t
    PROVE  Len(s) = Len(t)
<1>1. Len(s) \in Nat /\ Len(t) \in Nat /\ 1..Len(s) = 1..Len(t)
  OBVIOUS
<1> DEFINE n == Len(s)
           m == Len(t)
<1> HIDE DEF n, m
<1>2. n \in Nat /\ m \in Nat /\ 1..n = 1..m
  BY <1>1 DEF n, m
<1>3. n = 0 \/ n \in 1..n
  BY <1>2
<1>4. m = 0 \/ m \in 1..m
  BY <1>2
<1>5. n <= m
  BY <1>2, <1>3
<1>6. m <= n
  BY <1>2, <1>4
<1>7. n = m
  BY <1>2, <1>5, <1>6
<1>8. QED BY <1>7 DEF n, m

LEMMA SameNumber ==
    ASSUME Shape, NEW i, NEW how, Closes(i, how) PROVE Len(runs') = Len(runs)
<1>1. runs \in Seq(CallRecords) /\ runs' \in Seq(CallRecords) /\ DOMAIN runs' = DOMAIN runs
  BY DEF Shape, Closes
<1>2. QED BY <1>1, SameLength

LEMMA OneMore ==
    ASSUME NEW fn, NEW cmd, NEW execute, Enter(fn, cmd, execute), Shape, Flagged, Room
    PROVE  Len(runs') <= MaxRuns
<1>1. runs \in Seq(CallRecords)
  BY DEF Shape
<1>2. PICK r : runs' = Append(runs, r)
  BY DEF Enter
<1>3. Len(runs') = Len(runs) + 1
  BY <1>1, <1>2
<1>4. Len(runs) \in Nat /\ Len(asks) \in Nat /\ Len(runs) + Len(asks) < MaxRuns
  BY <1>1 DEF Flagged, IsSeq, Room
<1>5. QED BY <1>3, <1>4, HooksAssumption

LEMMA OutcomePanics ==
    ASSUME NEW i, NEW cfg, NEW failed, NEW code, NEW o \in Outcomes(i, cfg, failed, code)
    PROVE  o.panic = None \/ o.panic \in Panics
BY DEF Outcomes, Panics

LEMMA AllPaths == commandPaths = Commands
BY TreeAssumption DEF commandPaths

\* A run ends by a panic with a value of Panics.
LEMMA PanicValues ==
    ASSUME Shape, Values, NEW i \in DOMAIN runs, NEW v \in Panics, PanicIn(i, v),
           UNCHANGED <<given, known>>
    PROVE  Values'
<1>1. Closes(i, "panicked") /\ value' = v
  BY PanicInFacts DEF PanicIn
<1>2. Len(runs') = Len(runs)
  BY <1>1, SameNumber
<1>3. QED BY <1>1, <1>2 DEF Values, given

\* A step that leaves the runs and the options alone.
LEMMA ValuesKept ==
    ASSUME Values, UNCHANGED <<given, runs>>, known' \in {known, commandPaths},
           value' \in {None, "ok", "err"} \cup Panics,
           at' \in {"unwind", "raise", "crashed"} => value' \in Panics
    PROVE  Values'
BY AllPaths DEF Values, given

LEMMA ValuesStep == ASSUME Shape, Flagged, Values, [Next]_vars PROVE Values'
<1>1. ASSUME NEW c \in Commands, Execute(c) PROVE Values'
  <2>1. /\ Enter(c, c, executes') /\ Room
        /\ at' = "hook" /\ value' = None /\ UNCHANGED <<given, known>>
    BY <1>1 DEF Execute
  <2>2. Len(runs') <= MaxRuns
    BY <2>1, OneMore
  <2>3. QED BY <2>1, <2>2 DEF Values, given
<1>2. ASSUME NEW c, NEW typed, NEW asked,
             Help(c, typed, asked) \/ ShowHelp(c) \/ RecordExecuteError(c, typed)
      PROVE  Values'
  <2>1. at \in {"idle", "inner"} /\ at' = at /\ value' = value /\ UNCHANGED <<given, runs>>
    BY <1>2 DEF Help, ShowHelp, RecordExecuteError, Again
  <2>2. known' \in {known, commandPaths}
    <3>1. HelpFunc(c) => known' \in {known, commandPaths}
      BY DEF HelpFunc, recordUnknown, client
    <3>2. RecordExecuteError(c, typed) => known' \in {known, commandPaths}
      BY DEF RecordExecuteError, recordUnknown, client
    <3>3. QED BY <1>2, <3>1, <3>2 DEF Help, ShowHelp
  <2>3. value' \in {None, "ok", "err"} \cup Panics
    BY <2>1 DEF Values
  <2>4. QED BY <2>1, <2>2, <2>3, ValuesKept
<1>3. ASSUME NEW d \in Commands, NEW cmd \in Commands, Call(d, cmd) PROVE Values'
  <2>1. /\ at = "inner" /\ Room /\ UNCHANGED <<given, known>>
        /\ \/ PanicIn(top, "nilRun") /\ top' = top
           \/ Enter(d, cmd, 0) /\ at' = at /\ value' = value
    BY <1>3 DEF Call, client
  <2>2. CASE PanicIn(top, "nilRun")
    <3>1. top \in DOMAIN runs /\ "nilRun" \in Panics
      BY <2>1, TopIsRun DEF Shape, Panics
    <3>2. QED BY <2>1, <2>2, <3>1, PanicValues
  <2>3. CASE Enter(d, cmd, 0) /\ at' = at /\ value' = value
    <3>1. Len(runs') <= MaxRuns
      BY <2>1, <2>3, OneMore
    <3>2. QED BY <2>1, <2>3, <3>1 DEF Values, given
  <2>4. QED BY <2>1, <2>2, <2>3
<1>4. ASSUME NEW code, NEW failed, NEW by, Exiting(code, failed, by) PROVE Values'
  <2> DEFINE cfg == IF by = None THEN NoConfig ELSE ApplyAll(config, by)
  <2>1. /\ at = "inner" /\ code \in Nat /\ failed \in BOOLEAN /\ by \in ExitOptions \cup {None}
        /\ ExitWith(code, failed, cfg, by) /\ UNCHANGED <<given, known>>
    BY <1>4 DEF Exiting
  <2> HIDE DEF cfg
  <2>2. top \in DOMAIN runs
    BY <2>1, TopIsRun DEF Shape
  <2>3. PICK o \in Outcomes(top, cfg, failed, code) :
           IF o.panic = None
           THEN /\ runs' = [Ended(top, "exited", code) EXCEPT ![top].exit = by]
                /\ closed' = TRUE /\ at' = "exited" /\ UNCHANGED value
           ELSE PanicIn(top, o.panic) /\ UNCHANGED closed
    BY <2>1 DEF ExitWith
  <2>4. CASE o.panic = None
    <3>1. Len(runs') = Len(runs)
      BY <2>3, <2>4 DEF Ended, Shape
    <3>2. QED BY <2>1, <2>3, <2>4, <3>1 DEF Values, given
  <2>5. CASE o.panic # None
    <3>1. o.panic \in Panics
      BY <2>5, OutcomePanics
    <3>2. PanicIn(top, o.panic)
      BY <2>3, <2>5
    <3>3. QED BY <2>1, <2>2, <3>1, <3>2, PanicValues
  <2>6. QED BY <2>4, <2>5
<1>5. ASSUME Hook PROVE Values'
  <2>1. /\ UNCHANGED <<given, known>>
        /\ \/ at' = "inner" /\ value' = None
           \/ at' = "return" /\ value' = "err"
           \/ at' = "raise" /\ value' = "host"
    BY <1>5 DEF Hook, client
  <2>2. Len(runs') = Len(runs)
    BY <1>5, HookFacts, SameNumber
  <2>3. QED BY <2>1, <2>2 DEF Values, given, Panics
<1>6. ASSUME Finish PROVE Values'
  <2>1. /\ UNCHANGED <<given, known>> /\ at' \in {"record", "return"} /\ value' \in {"ok", "err"}
    BY <1>6 DEF Finish, client
  <2>2. Len(runs') = Len(runs)
    BY <1>6, FinishFacts, SameNumber
  <2>3. QED BY <2>1, <2>2 DEF Values, given
<1>7. ASSUME Panic PROVE Values'
  <2>1. top \in DOMAIN runs /\ "host" \in Panics
    BY <1>7, TopIsRun DEF Panic, Shape, Panics
  <2>2. PanicIn(top, "host") /\ UNCHANGED <<given, known>>
    BY <1>7 DEF Panic, client
  <2>3. QED BY <2>1, <2>2, PanicValues
<1>8. ASSUME Leave PROVE Values'
  <2>1. /\ UNCHANGED <<given, runs>> /\ known' \in {known, commandPaths}
        /\ value' = None /\ at' \in {"idle", "inner"}
    BY <1>8 DEF Leave, client
  <2>2. QED BY <2>1, ValuesKept
<1>9. ASSUME Raise PROVE Values'
  <2>1. at = "raise" /\ top # 0 /\ top' = runs[top].caller /\ UNCHANGED <<given, known>>
    BY <1>9 DEF Raise, Shape, client
  <2>2. value \in Panics
    BY <2>1 DEF Values
  <2>3. CASE at' \in {"idle", "inner", "crashed"} /\ value' \in {None, value} /\ UNCHANGED runs
             /\ (at' = "crashed" => value' = value)
    <3>1. UNCHANGED <<given, runs>> /\ known' \in {known, commandPaths}
      BY <2>1, <2>3
    <3>2. value' \in {None, "ok", "err"} \cup Panics
      BY <2>2, <2>3
    <3>3. at' \in {"unwind", "raise", "crashed"} => value' \in Panics
      BY <2>2, <2>3
    <3>4. QED BY <3>1, <3>2, <3>3, ValuesKept
  <2>4. CASE top' # 0 /\ PanicIn(top', value)
    <3>1. PICK t : t = top'
      OBVIOUS
    <3>2. t \in DOMAIN runs
      <4>1. top \in DOMAIN runs /\ runs[top].caller \in Nat /\ runs[top].caller < top
        BY <2>1, TopIsRun, RunsFacts
      <4>2. QED BY <2>1, <2>4, <3>1, <4>1, RunsFacts
    <3>3. PanicIn(t, value)
      BY <2>4, <3>1
    <3>4. QED BY <2>1, <2>2, <3>2, <3>3, PanicValues
  <2>5. QED BY <1>9, <2>3, <2>4 DEF Raise
<1>10. ASSUME Record PROVE Values'
  <2>1. PICK o \in Outcomes(top, config, value = "err", IF value = "err" THEN 1 ELSE 0) :
           IF o.panic = None THEN at' = "return" /\ UNCHANGED value
                             ELSE at' = "unwind" /\ value' = o.panic
    BY <1>10 DEF Record
  <2>2. UNCHANGED <<given, runs>> /\ known' \in {known, commandPaths}
    BY <1>10 DEF Record
  <2>3. o.panic = None \/ o.panic \in Panics
    BY OutcomePanics
  <2>4. value' \in {None, "ok", "err"} \cup Panics
    BY <2>1, <2>3 DEF Values
  <2>5. at' \in {"unwind", "raise", "crashed"} => value' \in Panics
    BY <2>1, <2>3
  <2>6. QED BY <2>2, <2>4, <2>5, ValuesKept
<1>11. ASSUME recordPanic PROVE Values'
  <2>1. /\ at = "unwind" /\ value' = value /\ UNCHANGED <<given, runs>>
        /\ known' \in {known, commandPaths}
    BY <1>11 DEF recordPanic
  <2>2. value' \in Panics
    BY <2>1 DEF Values
  <2>3. QED BY <2>1, <2>2, ValuesKept
<1>12. ASSUME UNCHANGED vars PROVE Values'
  BY <1>12 DEF Values, vars, given, host, client
<1>13. QED
  BY ExitSteps, <1>1, <1>2, <1>3, <1>4, <1>5, <1>6, <1>7, <1>8, <1>9, <1>10, <1>11, <1>12

\* No flag is parsed as anything but what somebody may have typed, and the
\* arguments are kept of commands only that cannot run.
THEOREM FlagsCorrect == Spec => []Flagged
<1>1. Init => Flagged
  BY FlaggedInit
<1>2. Flagged /\ [Next]_vars => Flagged'
  BY FlaggedStep
<1>3. QED BY <1>1, <1>2, PTL DEF Spec

\* TypeOK: whatever the options and the calls, a panic on its way has a value,
\* the configuration is one that options make, and the stack stays in bounds.
THEOREM TypeCorrect == Spec => []TypeOK
<1>1. Init => Values
  BY ValuesInit
<1>2. Shape /\ Flagged /\ Values /\ [Next]_vars => Values'
  BY ValuesStep
<1>3. Shape /\ Flagged /\ Values => TypeOK
  <2>1. SUFFICES ASSUME Shape, Flagged, Values PROVE TypeOK
    OBVIOUS
  <2>2. config \in Configs
    BY <2>1, PlainConfigs, ApplyAllIsConfig, OptionsAssumption DEF Values
  <2>3. QED BY <2>1, <2>2 DEF Shape, Flagged, Values, TypeOK
<1>4. QED BY <1>1, <1>2, <1>3, StackCorrect, FlagsCorrect, PTL DEF Spec

-----------------------------------------------------------------------------
(* The views: of help, or of an unknown command.                           *)

ViewCalls == {"help", "unknown"}

\* What a step adds to the views.
Fresh == {j \in DOMAIN log' : j \notin DOMAIN log /\ log'[j].call \in ViewCalls}

Other == Grows /\ Fresh = {}

\* What was typed, or what an earlier Execute has left in its place.
Word(a) == IF Misled(a) THEN a.left.typed ELSE a.typed

\* The bodies of UnknownOnce and SuggestionNearest.
Answered(n) ==
    IF Due(asks[n]) = None THEN Own(n) = {}
    ELSE \E j \in Views : /\ Own(n) = {j}
                         /\ log[j].call = Due(asks[n]) /\ log[j].cmd = asks[n].cmd

Nearest(n) ==
    \A j \in Own(n) :
        log[j].call = "unknown" => IsNearest(asks[n].cmd, Word(asks[n]), log[j].suggestion)

Counted ==
    /\ \A n \in DOMAIN asks : asks[n].at \in 0..Len(log)
    /\ \A j \in Views : \E n \in DOMAIN asks : j \in Own(n)
    /\ \A n \in DOMAIN asks : Answered(n) /\ Nearest(n)

LEMMA CountedInit == ASSUME Init PROVE Counted
<1>1. log = <<>> /\ asks = <<>>
  BY DEF Init
<1>2. DOMAIN log = {} /\ DOMAIN asks = {}
  BY <1>1
<1>3. QED BY <1>2 DEF Counted, Views

LEMMA LogGrows == ASSUME Grows PROVE DOMAIN log' = 1..Len(log') /\ Len(log') \in Nat /\ Len(log) <= Len(log')
<1>1. DOMAIN log' = 1..Len(log') /\ Len(log') \in Nat
  BY DEF Grows, IsSeq
<1>2. DOMAIN log = 1..Len(log) /\ Len(log) \in Nat /\ DOMAIN log \subseteq DOMAIN log'
  BY DEF Grows
<1>3. Len(log) = 0 \/ Len(log) \in DOMAIN log'
  BY <1>2
<1>4. QED BY <1>1, <1>2, <1>3

LEMMA LogGrowsBy ==
    ASSUME IsSeq(log), NEW m, IsSeq(m), log' = log \o m
    PROVE  /\ Grows /\ DOMAIN log' = 1..(Len(log) + Len(m)) /\ DOMAIN m = 1..Len(m)
           /\ Len(m) \in Nat /\ \A j \in DOMAIN m : log'[Len(log) + j] = m[j]
BY Joined DEF Grows

LEMMA FreshViews ==
    ASSUME Grows PROVE Views' = Views \cup Fresh /\ Views \subseteq DOMAIN log
BY DEF Views, Fresh, ViewCalls, Grows

\* Nothing but the log grows, and by no view.
LEMMA CountedKept == ASSUME Counted, Other, UNCHANGED <<asks, config>> PROVE Counted'
<1>1. Views' = Views /\ \A j \in Views : log'[j] = log[j]
  BY FreshViews DEF Other, Grows
<1>2. \A n \in DOMAIN asks : Own(n)' = Own(n)
  BY <1>1 DEF Own
<1>3. \A n \in DOMAIN asks : Due(asks[n])' = Due(asks[n])
  BY DEF Due
<1>4. \A n \in DOMAIN asks : Own(n) \subseteq Views
  BY DEF Own
<1>5. ASSUME NEW n \in DOMAIN asks PROVE Answered(n)' /\ Nearest(n)'
  <2>1. Answered(n) /\ Nearest(n) /\ asks' = asks
    BY DEF Counted
  <2>2. Answered(n)'
    BY <1>1, <1>2, <1>3, <2>1 DEF Answered
  <2>3. Nearest(n)'
    BY <1>1, <1>2, <1>4, <2>1 DEF Nearest, Word, Misled, Mistyped
  <2>4. QED BY <2>2, <2>3
<1>6. \A n \in DOMAIN asks : asks[n].at \in 0..Len(log')
  BY LogGrows DEF Counted, Other, Grows
<1>7. QED BY <1>1, <1>2, <1>5, <1>6 DEF Counted

\* A step in which an observer is given a to see, and records what is due.
Records(a) ==
    /\ Grows /\ UNCHANGED config /\ asks' = asks \o <<a>> /\ a.at = Len(log)
    /\ IF Due(a) = None THEN Fresh = {}
       ELSE \E j \in Fresh :
               /\ Fresh = {j} /\ log'[j].call = Due(a) /\ log'[j].cmd = a.cmd
               /\ Due(a) = "unknown" => IsNearest(a.cmd, Word(a), log'[j].suggestion)

LEMMA CountedMore == ASSUME Counted, Flagged, NEW a, Records(a) PROVE Counted'
<1>0. PICK m : m = Len(asks)
  OBVIOUS
<1>1. /\ Grows /\ UNCHANGED config /\ a.at = Len(log) /\ Len(log) \in Nat
      /\ DOMAIN log = 1..Len(log) /\ \A j \in DOMAIN log : log'[j] = log[j]
  BY DEF Records, Grows
<1>2. /\ DOMAIN asks = 1..m /\ m \in Nat /\ DOMAIN asks' = 1..(m + 1) /\ asks'[m + 1] = a
      /\ \A n \in DOMAIN asks : asks'[n] = asks[n]
  <2>1. IsSeq(asks) /\ IsSeq(<<a>>) /\ DOMAIN <<a>> = {1} /\ Len(<<a>>) = 1 /\ <<a>>[1] = a
    BY ShortSeqs DEF Flagged
  <2>2. /\ DOMAIN asks = 1..Len(asks) /\ Len(asks) \in Nat
        /\ DOMAIN (asks \o <<a>>) = 1..(Len(asks) + 1)
        /\ \A j \in DOMAIN asks : (asks \o <<a>>)[j] = asks[j]
        /\ (asks \o <<a>>)[Len(asks) + 1] = a
    BY <2>1, Joined
  <2>3. QED BY <1>0, <2>2 DEF Records
<1>3. Views' = Views \cup Fresh /\ Views \subseteq DOMAIN log
  BY <1>1, FreshViews
<1>4. \A j \in Fresh : j \in Nat /\ Len(log) < j
  BY <1>1, LogGrows DEF Fresh
<1>5. ASSUME NEW n \in DOMAIN asks PROVE Own(n)' = Own(n)
  <2>1. asks'[n] = asks[n] /\ n < m + 1 /\ m + 1 \in DOMAIN asks'
    BY <1>2
  <2>2. ASSUME NEW j \in Own(n)' PROVE j \in Own(n)
    <3>1. j <= Len(log)
      BY <1>1, <1>2, <2>1, <2>2 DEF Own
    <3>2. j \in Views
      BY <1>1, <1>3, <1>4, <2>2, <3>1 DEF Own
    <3>3. QED BY <1>2, <2>1, <2>2, <3>2 DEF Own
  <2>3. ASSUME NEW j \in Own(n) PROVE j \in Own(n)'
    <3>1. j \in Views' /\ asks'[n].at < j /\ j <= Len(log)
      BY <1>1, <1>3, <2>1, <2>3 DEF Own
    <3>2. ASSUME NEW k \in DOMAIN asks', n < k PROVE j <= asks'[k].at
      <4>1. CASE k = m + 1
        BY <1>1, <1>2, <3>1, <4>1
      <4>2. CASE k \in DOMAIN asks
        BY <1>2, <2>3, <3>2, <4>2 DEF Own
      <4>3. QED BY <1>2, <4>1, <4>2
    <3>3. QED BY <3>1, <3>2 DEF Own
  <2>4. QED BY <2>2, <2>3
<1>6. Own(m + 1)' = Fresh
  <2>1. \A k \in DOMAIN asks' : ~(m + 1 < k)
    BY <1>2
  <2>2. \A j \in Views : ~(Len(log) < j)
    BY <1>1, <1>3
  <2>3. QED BY <1>1, <1>2, <1>3, <1>4, <2>1, <2>2 DEF Own
<1>7. \A n \in DOMAIN asks' : n \in DOMAIN asks \/ n = m + 1
  BY <1>2
<1>8. ASSUME NEW j \in Views' PROVE \E n \in DOMAIN asks' : j \in Own(n)'
  <2>1. CASE j \in Views
    <3>1. PICK n \in DOMAIN asks : j \in Own(n)
      BY <2>1 DEF Counted
    <3>2. j \in Own(n)' /\ n \in DOMAIN asks'
      BY <1>2, <1>5, <3>1
    <3>3. QED BY <3>2
  <2>2. CASE j \in Fresh
    BY <1>2, <1>6, <2>2
  <2>3. QED BY <1>3, <2>1, <2>2
<1>9. ASSUME NEW n \in DOMAIN asks PROVE Answered(n)' /\ Nearest(n)'
  <2>1. Answered(n) /\ Nearest(n) /\ asks'[n] = asks[n] /\ Own(n)' = Own(n)
    BY <1>2, <1>5 DEF Counted
  <2>2. Own(n) \subseteq Views /\ Views \subseteq Views' /\ \A j \in Views : log'[j] = log[j]
    BY <1>1, <1>3 DEF Own
  <2>3. Due(asks[n])' = Due(asks[n])
    BY <1>1, <2>1 DEF Due, CountsAsUnknown, Mistyped, Misled
  <2>4. Answered(n)'
    BY <2>1, <2>2, <2>3 DEF Answered
  <2>5. Nearest(n)'
    BY <2>1, <2>2 DEF Nearest, Word, Misled, Mistyped
  <2>6. QED BY <2>4, <2>5
<1>10. Answered(m + 1)' /\ Nearest(m + 1)'
  <2>1. Due(asks[m + 1])' = Due(a)
    BY <1>1, <1>2 DEF Due, CountsAsUnknown, Mistyped, Misled
  <2>2. Fresh \subseteq Views'
    BY <1>3
  <2>3. Answered(m + 1)'
    BY <1>2, <1>6, <2>1, <2>2 DEF Records, Answered
  <2>4. Nearest(m + 1)'
    BY <1>2, <1>6 DEF Records, Nearest, Word, Misled, Mistyped
  <2>5. QED BY <2>3, <2>4
<1>11. \A n \in DOMAIN asks' : asks'[n].at \in 0..Len(log')
  <2>1. Len(log) \in 0..Len(log') /\ 0..Len(log) \subseteq 0..Len(log')
    BY <1>1, LogGrows
  <2>2. \A n \in DOMAIN asks : asks'[n].at \in 0..Len(log)
    BY <1>2 DEF Counted
  <2>3. QED BY <1>1, <1>2, <1>7, <2>1, <2>2
<1>12. QED BY <1>7, <1>8, <1>9, <1>10, <1>11 DEF Counted

-----------------------------------------------------------------------------
(* What is added to the log.                                               *)

\* What is added to the log is no view.
NoView(s) == \A j \in DOMAIN s : s[j].call \notin ViewCalls

LEMMA OtherWhenAdded ==
    ASSUME IsSeq(log), NEW m, IsSeq(m), NoView(m), log' = log \o Accepted(m) PROVE Other
<1>1. IsSeq(Accepted(m)) /\ NoView(Accepted(m))
  BY ShortSeqs DEF Accepted, NoView
<1> DEFINE s == Accepted(m)
<1> HIDE DEF s
<1>2. IsSeq(s) /\ NoView(s) /\ log' = log \o s
  BY <1>1 DEF s
<1>3. /\ Grows /\ DOMAIN log' = 1..(Len(log) + Len(s)) /\ DOMAIN s = 1..Len(s) /\ Len(s) \in Nat
      /\ \A j \in DOMAIN s : log'[Len(log) + j] = s[j]
  BY <1>2, LogGrowsBy
<1>4. ASSUME NEW j \in DOMAIN log', j \notin DOMAIN log PROVE log'[j].call \notin ViewCalls
  <2>1. j - Len(log) \in DOMAIN s /\ j = Len(log) + (j - Len(log))
    BY <1>3, <1>4 DEF Grows
  <2>2. QED BY <1>2, <1>3, <2>1 DEF NoView
<1>5. QED BY <1>3, <1>4 DEF Other, Fresh

LEMMA OtherWhenSame == ASSUME IsSeq(log), log' = log PROVE Other
BY LogFacts DEF Other, Grows, Fresh

LEMMA SessionIsNoView == IsSeq(SessionStart) /\ NoView(SessionStart)
<1>1. SessionStart \in {<<>>, <<Session>>} /\ Session.call \notin ViewCalls
  BY DEF SessionStart, Session, ViewCalls
<1>2. QED BY <1>1, ShortSeqs DEF NoView

\* The session record, and what follows it.
LEMMA SessionFirst ==
    ASSUME NEW m, IsSeq(m), NoView(m)
    PROVE  IsSeq(SessionStart \o m) /\ NoView(SessionStart \o m)
<1> DEFINE s == SessionStart
<1>2. IsSeq(s) /\ NoView(s)
  BY SessionIsNoView
<1> HIDE DEF s
<1>3. /\ IsSeq(s \o m) /\ DOMAIN s = 1..Len(s) /\ DOMAIN m = 1..Len(m)
      /\ Len(s) \in Nat /\ Len(m) \in Nat
      /\ DOMAIN (s \o m) = 1..(Len(s) + Len(m))
      /\ \A j \in DOMAIN s : (s \o m)[j] = s[j]
      /\ \A j \in DOMAIN m : (s \o m)[Len(s) + j] = m[j]
  BY <1>2, Joined
<1>4. ASSUME NEW j \in DOMAIN (s \o m) PROVE (s \o m)[j].call \notin ViewCalls
  <2>1. CASE j \in DOMAIN s
    BY <1>2, <1>3, <2>1 DEF NoView
  <2>2. CASE j \notin DOMAIN s
    <3>1. j - Len(s) \in DOMAIN m /\ j = Len(s) + (j - Len(s))
      BY <1>3, <2>2
    <3>2. QED BY <1>3, <3>1 DEF NoView
  <2>3. QED BY <2>1, <2>2
<1>5. QED BY <1>3, <1>4 DEF NoView, s

\* An open client takes one view.
LEMMA OneView ==
    ASSUME IsSeq(log), ~closed, NEW e, e.call \in ViewCalls,
           log' = log \o Accepted(SessionStart \o <<e>>)
    PROVE  Grows /\ \E j \in Fresh : Fresh = {j} /\ log'[j] = e
<1> DEFINE s == SessionStart
<1>1. IsSeq(s) /\ NoView(s) /\ log' = log \o (s \o <<e>>)
  BY SessionIsNoView DEF Accepted
<1> HIDE DEF s
<1>2. IsSeq(<<e>>) /\ Len(<<e>>) = 1 /\ DOMAIN <<e>> = {1} /\ <<e>>[1] = e
  BY ShortSeqs
<1> DEFINE t == s \o <<e>>
           k == Len(s)
           n == Len(log) + (k + 1)
<1>3. /\ IsSeq(t) /\ k \in Nat /\ DOMAIN s = 1..k /\ DOMAIN t = 1..(k + 1)
      /\ (\A j \in DOMAIN s : t[j] = s[j]) /\ t[k + 1] = e
  <2>1. /\ IsSeq(s \o <<e>>) /\ DOMAIN s = 1..Len(s) /\ Len(s) \in Nat
        /\ DOMAIN (s \o <<e>>) = 1..(Len(s) + Len(<<e>>))
        /\ \A j \in DOMAIN s : (s \o <<e>>)[j] = s[j]
        /\ \A j \in DOMAIN <<e>> : (s \o <<e>>)[Len(s) + j] = <<e>>[j]
    BY <1>1, <1>2, Joined
  <2>2. QED BY <1>2, <2>1
<1> HIDE DEF t, k
<1>4. Len(t) = k + 1
  BY <1>3 DEF IsSeq
<1>5. /\ Grows /\ DOMAIN log' = 1..n /\ n \in Nat
      /\ \A j \in DOMAIN t : log'[Len(log) + j] = t[j]
  <2>1. /\ Grows /\ DOMAIN log' = 1..(Len(log) + Len(t))
        /\ \A j \in DOMAIN t : log'[Len(log) + j] = t[j]
    <3>1. log' = log \o t
      BY <1>1 DEF t
    <3>2. IsSeq(log) /\ IsSeq(t)
      BY <1>3
    <3>3. QED BY ONLY <3>1, <3>2, LogGrowsBy
  <2>2. Len(log) \in Nat
    BY <2>1 DEF Grows
  <2>3. n \in Nat
    BY <1>3, <2>2
  <2>4. DOMAIN log' = 1..n
    BY <1>4, <2>1
  <2>5. QED BY <2>1, <2>3, <2>4
<1>6. log'[n] = e /\ n \in DOMAIN log' /\ n \notin DOMAIN log
  <2>1. DOMAIN log = 1..Len(log) /\ Len(log) \in Nat
    BY <1>5 DEF Grows
  <2>2. k + 1 \in DOMAIN t /\ n \in 1..n /\ n \notin 1..Len(log)
    BY <1>3, <2>1
  <2>3. log'[n] = t[k + 1]
    BY <1>5, <2>2
  <2>4. QED BY <1>3, <1>5, <2>1, <2>2, <2>3
<1>7. ASSUME NEW j \in Fresh PROVE j = n
  <2>1. j - Len(log) \in 1..(k + 1) /\ j = Len(log) + (j - Len(log))
    BY <1>3, <1>5 DEF Grows, Fresh
  <2>2. CASE j - Len(log) = k + 1
    BY <2>1, <2>2
  <2>3. CASE j - Len(log) # k + 1
    <3>1. j - Len(log) \in DOMAIN s /\ j - Len(log) \in DOMAIN t
      BY <1>3, <2>1, <2>3
    <3>2. log'[j] = s[j - Len(log)]
      BY <1>3, <1>5, <2>1, <3>1
    <3>3. QED BY <1>1, <3>1, <3>2 DEF NoView, Fresh
  <2>4. QED BY <2>2, <2>3
<1> HIDE DEF n
<1>8. n \in Fresh
  BY <1>6 DEF Fresh
<1>9. QED BY <1>5, <1>6, <1>7, <1>8

LEMMA OutcomesAreOther ==
    ASSUME IsSeq(log), NEW i, NEW cfg, NEW failed, NEW code,
           NEW o \in Outcomes(i, cfg, failed, code), log' = log \o Accepted(o.records)
    PROVE  Other
<1> DEFINE one == Completed(i, code)
           two == Raised(i, cfg)
<1>1. o.records \in {<<>>, <<one>>, <<one, two>>}
  BY DEF Outcomes
<1>2. one.call \notin ViewCalls /\ two.call \notin ViewCalls
  BY DEF Completed, Raised, ViewCalls
<1> HIDE DEF one, two
<1>3. IsSeq(o.records) /\ NoView(o.records)
  BY <1>1, <1>2, ShortSeqs DEF NoView
<1>4. QED BY <1>3, OtherWhenAdded

-----------------------------------------------------------------------------
(* The observers.                                                          *)

\* What recordUnknown records is nearest to what was typed.
LEMMA UnknownRecord ==
    ASSUME IsSeq(log), closed \in BOOLEAN,
           NEW parent \in Commands, NEW typed, typed \in Typed, recordUnknown(parent, typed)
    PROVE  /\ closed => Other
           /\ ~closed => /\ Grows
                         /\ \E j \in Fresh :
                               /\ Fresh = {j} /\ log'[j].call = "unknown" /\ log'[j].cmd = parent
                               /\ IsNearest(parent, typed, log'[j].suggestion)
<1> DEFINE near == nearestCommand(parent, typed)
           suggestion == IF near \in known' THEN near ELSE NoCommand
           e == [call |-> "unknown", cmd |-> parent, suggestion |-> suggestion]
<1>1. /\ known' = IF closed THEN known ELSE commandPaths
      /\ log' = log \o Accepted(SessionStart \o <<e>>)
  BY DEF recordUnknown
<1>2. e.call = "unknown" /\ e.cmd = parent /\ e.suggestion = suggestion
  OBVIOUS
<1>3. IsNearest(parent, typed, near)
  BY NearestCommandIsNearest
<1>4. near \in Commands \cup {NoCommand}
  BY <1>3 DEF IsNearest, Reached, Subcommands
<1> HIDE DEF e, near
<1>5. CASE closed
  <2>1. log' = log \o <<>>
    BY <1>1, <1>5 DEF Accepted
  <2>2. log' = log
    BY <2>1, ConcatEmptySeq DEF IsSeq
  <2>3. QED BY <1>5, <2>2, OtherWhenSame
<1>6. CASE ~closed
  <2>1. suggestion = near
    BY <1>1, <1>4, <1>6, AllPaths, TreeAssumption
  <2> HIDE DEF suggestion
  <2>2. e.call \in ViewCalls
    BY <1>2 DEF ViewCalls
  <2>3. Grows /\ \E j \in Fresh : Fresh = {j} /\ log'[j] = e
    BY <1>1, <1>6, <2>2, OneView
  <2>4. QED BY <1>2, <1>3, <1>6, <2>1, <2>3
<1>7. QED BY <1>5, <1>6

\* An ask is a record of its parts.
IsAsk(a, by, c, typed, asked) ==
    /\ asks' = asks \o <<a>> /\ a.by = by /\ a.cmd = c /\ a.typed = typed
    /\ (a.asked <=> asked) /\ a.left.typed = flags[c].typed
    /\ (a.left.help <=> flags[c].help) /\ (a.open <=> ~closed) /\ a.at = Len(log)

LEMMA AskFacts ==
    ASSUME Flagged, NEW by, NEW c, NEW typed, NEW asked, Ask(by, c, typed, asked)
    PROVE  \E a : IsAsk(a, by, c, typed, asked)
<1> DEFINE a == [by |-> by, cmd |-> c, typed |-> typed, asked |-> asked,
                 left |-> flags[c], open |-> ~closed, at |-> Len(log)]
<1>1. asks' = Append(asks, a)
  BY DEF Ask
<1>2. /\ a.by = by /\ a.cmd = c /\ a.typed = typed /\ (a.asked <=> asked)
      /\ a.left.typed = flags[c].typed /\ (a.left.help <=> flags[c].help)
      /\ (a.open <=> ~closed) /\ a.at = Len(log)
  BY Zenon
<1> HIDE DEF a
<1>3. Append(asks, a) = asks \o <<a>>
  BY DEF Flagged, IsSeq
<1>4. IsAsk(a, by, c, typed, asked)
  BY <1>1, <1>2, <1>3 DEF IsAsk
<1>5. QED BY <1>4

\* The help func records what is due, whether it tells it from the flags of
\* this Execute or from those of an earlier one.
LEMMA HelpFuncRecords ==
    ASSUME Shape, IsSeq(log), NEW c \in Commands, NEW a, HelpFunc(c), UNCHANGED config,
           asks' = asks \o <<a>>, a.cmd = c, a.at = Len(log), a.open <=> ~closed,
           a.by # "error",
           CountsAsUnknown(a) <=> mistypedSubcommand(c),
           mistypedSubcommand(c) => flags'[c].typed \in Typed /\ Word(a) = flags'[c].typed
    PROVE  Records(a)
<1>1. "unknown" # None /\ "help" # None
  BY HooksAssumption
<1>2. CASE ~config.help /\ ~config.unknown /\ UNCHANGED client
  <2>1. Other
    BY <1>2, OtherWhenSame DEF client
  <2>2. Due(a) = None
    BY <1>2 DEF Due
  <2>3. QED BY <2>1, <2>2 DEF Records, Other
<1>3. CASE mistypedSubcommand(c) /\ config.unknown /\ recordUnknown(c, flags'[c].typed)
  <2>1. PICK typed : typed = flags'[c].typed
    OBVIOUS
  <2>2. typed \in Typed /\ recordUnknown(c, typed) /\ Word(a) = typed
    BY <1>3, <2>1
  <2>3. CASE closed
    <3>1. Other
      BY <2>2, <2>3, UnknownRecord DEF Shape
    <3>2. Due(a) = None
      BY <2>3 DEF Due
    <3>3. QED BY <3>1, <3>2 DEF Records, Other
  <2>4. CASE ~closed
    <3>1. Due(a) = "unknown"
      BY <1>3, <2>4 DEF Due
    <3>2. Grows /\ \E j \in Fresh :
                       /\ Fresh = {j} /\ log'[j].call = "unknown" /\ log'[j].cmd = c
                       /\ IsNearest(c, typed, log'[j].suggestion)
      BY <2>2, <2>4, UnknownRecord DEF Shape
    <3>3. QED BY <1>1, <2>2, <3>1, <3>2 DEF Records
  <2>5. QED BY <2>3, <2>4
<1>4. CASE /\ config.help \/ config.unknown
           /\ ~(mistypedSubcommand(c) /\ config.unknown)
           /\ log' = log \o Accepted(SessionStart \o
                        (IF config.help THEN <<[call |-> "help", cmd |-> c]>> ELSE <<>>))
  <2> DEFINE e == [call |-> "help", cmd |-> c]
  <2>1. e.call = "help" /\ e.cmd = c /\ e.call \in ViewCalls
    BY DEF ViewCalls
  <2>2. log' = log \o Accepted(SessionStart \o (IF config.help THEN <<e>> ELSE <<>>))
    BY <1>4
  <2> HIDE DEF e
  <2>3. CASE ~config.help
    <3>1. log' = log \o Accepted(SessionStart \o <<>>)
      BY <2>2, <2>3
    <3>2. Other
      <4>1. IsSeq(<<>>) /\ NoView(<<>>)
        BY ShortSeqs DEF NoView
      <4>2. PICK m : m = <<>>
        OBVIOUS
      <4>3. IsSeq(SessionStart \o m) /\ NoView(SessionStart \o m)
        BY <4>1, <4>2, SessionFirst
      <4>4. QED BY <3>1, <4>2, <4>3, OtherWhenAdded
    <3>3. Due(a) = None
      BY <1>4, <2>3 DEF Due
    <3>4. QED BY <3>2, <3>3 DEF Records, Other
  <2>4. CASE config.help /\ closed
    <3>1. Accepted(SessionStart \o <<e>>) = <<>>
      BY <2>4 DEF Accepted
    <3>2. log' = log
      BY <2>2, <2>4, <3>1, ConcatEmptySeq DEF IsSeq
    <3>3. Other
      BY <3>2, OtherWhenSame
    <3>4. Due(a) = None
      BY <2>4 DEF Due
    <3>5. QED BY <3>3, <3>4 DEF Records, Other
  <2>5. CASE config.help /\ ~closed
    <3>1. Grows /\ \E j \in Fresh : Fresh = {j} /\ log'[j] = e
      BY <2>1, <2>2, <2>5, OneView
    <3>2. Due(a) = "help"
      BY <1>4, <2>5 DEF Due
    <3>3. "help" # "unknown"
      OBVIOUS
    <3>4. QED BY <1>1, <2>1, <3>1, <3>2, <3>3 DEF Records
  <2>6. QED BY <2>3, <2>4, <2>5
<1>5. QED BY <1>2, <1>3, <1>4 DEF HelpFunc

\* What an Execute shows help for, its own flags tell, but for a --help of an
\* earlier one.
LEMMA HelpRecords ==
    ASSUME Shape, Flagged, IsSeq(log), NEW c \in Commands, NEW typed \in Typed \cup {None},
           NEW asked \in BOOLEAN, Help(c, typed, asked)
    PROVE  \E a : Records(a)
<1>0. PICK a : IsAsk(a, "help", c, typed, asked)
  BY AskFacts DEF Help
<1>1. /\ asks' = asks \o <<a>> /\ a.by = "help" /\ a.cmd = c /\ a.typed = typed
      /\ (a.asked <=> asked) /\ a.left.typed = flags[c].typed
      /\ (a.left.help <=> flags[c].help) /\ (a.open <=> ~closed) /\ a.at = Len(log)
  BY <1>0 DEF IsAsk
<1> DEFINE new == [typed |-> typed, help |-> asked \/ flags[c].help]
<1>2. HelpFunc(c) /\ UNCHANGED config /\ (typed # None => Kind[c] = "none")
  BY DEF Help, given
<1>3. flags'[c].typed = typed /\ (flags'[c].help <=> asked \/ flags[c].help)
  <2>1. flags' = [flags EXCEPT ![c] = new]
    BY DEF Help, Flagged
  <2>2. new.typed = typed /\ (new.help <=> asked \/ flags[c].help)
    BY Zenon
  <2> HIDE DEF new
  <2>3. flags'[c] = new
    BY <2>1 DEF Flagged
  <2>4. QED BY <2>2, <2>3
<1>4. CountsAsUnknown(a) <=> mistypedSubcommand(c)
  <2>1. Mistyped(a) <=> typed # None /\ ~asked /\ HasSubCommands(c)
    BY <1>1 DEF Mistyped
  <2>2. Misled(a) <=> Mistyped(a) /\ flags[c].help
    BY <1>1, <2>1 DEF Misled
  <2>3. mistypedSubcommand(c)
          <=> Kind[c] = "none" /\ HasSubCommands(c) /\ ~(asked \/ flags[c].help) /\ typed # None
    BY <1>3 DEF mistypedSubcommand
  <2>4. CountsAsUnknown(a) <=> ~(Mistyped(a) <=> Misled(a))
    BY DEF CountsAsUnknown, Mistyped, Misled
  <2>5. QED BY <1>2, <2>1, <2>2, <2>3, <2>4
<1>5. ASSUME mistypedSubcommand(c) PROVE flags'[c].typed \in Typed /\ Word(a) = flags'[c].typed
  <2>1. typed \in Typed /\ ~flags[c].help
    BY <1>3, <1>5 DEF mistypedSubcommand
  <2>2. ~Misled(a)
    BY <1>1, <2>1 DEF Misled
  <2>3. QED BY <1>1, <1>3, <2>1, <2>2 DEF Word
<1>6. QED BY <1>1, <1>2, <1>4, <1>5, HelpFuncRecords

\* What a run function shows help for, the flags of the last Execute tell.
LEMMA ShowHelpRecords ==
    ASSUME Shape, Flagged, IsSeq(log), NEW c \in Commands, ShowHelp(c)
    PROVE  \E a : Records(a)
<1>0. PICK a : IsAsk(a, "run", c, None, TRUE)
  BY AskFacts DEF ShowHelp
<1>1. /\ asks' = asks \o <<a>> /\ a.by = "run" /\ a.cmd = c /\ a.typed = None
      /\ a.asked /\ a.left.typed = flags[c].typed
      /\ (a.left.help <=> flags[c].help) /\ (a.open <=> ~closed) /\ a.at = Len(log)
  BY <1>0 DEF IsAsk
<1>2. HelpFunc(c) /\ UNCHANGED config /\ UNCHANGED flags
  BY DEF ShowHelp, given
<1>3. CountsAsUnknown(a) <=> mistypedSubcommand(c)
  <2>1. ~Mistyped(a)
    BY <1>1 DEF Mistyped
  <2>2. Misled(a) <=> HasSubCommands(c) /\ flags[c].typed # None /\ ~flags[c].help
    BY <1>1 DEF Misled
  <2>3. mistypedSubcommand(c)
          <=> Kind[c] = "none" /\ HasSubCommands(c) /\ ~flags[c].help /\ flags[c].typed # None
    BY <1>2 DEF mistypedSubcommand
  <2>4. CountsAsUnknown(a) <=> ~(Mistyped(a) <=> Misled(a))
    BY DEF CountsAsUnknown, Mistyped, Misled
  <2>5. flags[c].typed # None => Kind[c] = "none"
    BY DEF Flagged
  <2>6. QED BY <2>1, <2>2, <2>3, <2>4, <2>5
<1>4. ASSUME mistypedSubcommand(c) PROVE flags'[c].typed \in Typed /\ Word(a) = flags'[c].typed
  <2>1. flags[c].typed \in Typed /\ ~flags[c].help /\ HasSubCommands(c) /\ flags[c].typed # None
    BY <1>2, <1>4 DEF mistypedSubcommand, Flagged
  <2>2. Misled(a)
    BY <1>1, <2>1 DEF Misled
  <2>3. QED BY <1>1, <1>2, <2>1, <2>2 DEF Word
<1>5. QED BY <1>1, <1>2, <1>3, <1>4, HelpFuncRecords

\* Execute records what is due of the error that it returns.
LEMMA ErrorRecords ==
    ASSUME Shape, Flagged, IsSeq(log), NEW c \in Commands, NEW typed \in Typed,
           RecordExecuteError(c, typed)
    PROVE  \E a : Records(a)
<1>0. PICK a : IsAsk(a, "error", c, typed, FALSE)
  BY AskFacts DEF RecordExecuteError
<1>1. /\ asks' = asks \o <<a>> /\ a.by = "error" /\ a.cmd = c /\ a.typed = typed
      /\ ~a.asked /\ a.left.typed = flags[c].typed
      /\ (a.left.help <=> flags[c].help) /\ (a.open <=> ~closed) /\ a.at = Len(log)
  BY <1>0 DEF IsAsk
<1>2. UNCHANGED config /\ typed # None /\ "unknown" # None
  BY HooksAssumption DEF RecordExecuteError, given
<1>3. ~Misled(a) /\ (Mistyped(a) <=> HasSubCommands(c)) /\ Word(a) = typed
  BY <1>1, <1>2 DEF Misled, Mistyped, Word
<1>4. CountsAsUnknown(a) <=> HasSubCommands(c)
  <2>1. CountsAsUnknown(a) <=> ~(Mistyped(a) <=> Misled(a))
    BY DEF CountsAsUnknown, Mistyped, Misled
  <2>2. QED BY <1>3, <2>1
<1>5. CASE HasSubCommands(c) /\ ~closed
  <2>1. Due(a) = "unknown"
    BY <1>1, <1>4, <1>5 DEF Due
  <2>2. Grows /\ \E j \in Fresh :
                     /\ Fresh = {j} /\ log'[j].call = "unknown" /\ log'[j].cmd = c
                     /\ IsNearest(c, typed, log'[j].suggestion)
    BY <1>5, UnknownRecord DEF RecordExecuteError, Shape
  <2>3. QED BY <1>1, <1>2, <1>3, <2>1, <2>2 DEF Records
<1>6. CASE closed
  <2>1. Due(a) = None
    BY <1>1, <1>6 DEF Due
  <2>2. CASE HasSubCommands(c)
    <3>1. Other
      BY <1>6, <2>2, UnknownRecord DEF RecordExecuteError, Shape
    <3>2. QED BY <1>1, <1>2, <2>1, <3>1 DEF Records, Other
  <2>3. CASE ~HasSubCommands(c)
    <3>1. Other
      BY <2>3, OtherWhenSame DEF RecordExecuteError, client
    <3>2. QED BY <1>1, <1>2, <2>1, <3>1 DEF Records, Other
  <2>4. QED BY <2>2, <2>3
<1>7. CASE ~HasSubCommands(c)
  <2>1. Due(a) = None
    BY <1>1, <1>4, <1>7 DEF Due
  <2>2. Other
    BY <1>7, OtherWhenSame DEF RecordExecuteError, client
  <2>3. QED BY <1>1, <1>2, <2>1, <2>2 DEF Records, Other
<1>8. QED BY <1>5, <1>6, <1>7

LEMMA CountedStep ==
    ASSUME Shape, Flagged, IsSeq(log), Counted, [Next]_vars PROVE Counted'
<1>1. ASSUME NEW c \in Commands, Execute(c) PROVE Counted'
  <2> DEFINE e == [call |-> "invoked", cmd |-> c]
  <2>1. e.call \notin ViewCalls
    BY DEF ViewCalls
  <2>2. UNCHANGED <<asks, config>>
    BY <1>1 DEF Execute, given
  <2>3. log' = log \/ log' = log \o Accepted(SessionStart \o <<e>>)
    BY <1>1 DEF Execute, PreRun
  <2> HIDE DEF e
  <2>4. IsSeq(SessionStart \o <<e>>) /\ NoView(SessionStart \o <<e>>)
    <3>1. IsSeq(<<e>>) /\ NoView(<<e>>)
      BY <2>1, ShortSeqs DEF NoView
    <3>2. QED BY <3>1, SessionFirst
  <2>5. Other
    BY <2>3, <2>4, OtherWhenSame, OtherWhenAdded
  <2>6. QED BY <2>2, <2>5, CountedKept
<1>2. ASSUME NEW c \in Commands, NEW typed \in Typed \cup {None}, NEW asked \in BOOLEAN,
             Help(c, typed, asked)
      PROVE  Counted'
  BY <1>2, HelpRecords, CountedMore
<1>3. ASSUME NEW c \in Commands, NEW typed \in Typed, RecordExecuteError(c, typed) PROVE Counted'
  BY <1>3, ErrorRecords, CountedMore
<1>4. ASSUME NEW code, NEW failed, NEW by, Exiting(code, failed, by) PROVE Counted'
  <2> DEFINE cfg == IF by = None THEN NoConfig ELSE ApplyAll(config, by)
  <2>1. ExitWith(code, failed, cfg, by) /\ UNCHANGED <<asks, config>>
    BY <1>4 DEF Exiting, given
  <2> HIDE DEF cfg
  <2>2. PICK o \in Outcomes(top, cfg, failed, code) : log' = log \o Accepted(o.records)
    BY <2>1 DEF ExitWith
  <2>3. Other
    BY <2>2, OutcomesAreOther
  <2>4. QED BY <2>1, <2>3, CountedKept
<1>5. ASSUME Record PROVE Counted'
  <2> DEFINE failed == value = "err"
             code == IF value = "err" THEN 1 ELSE 0
  <2>1. PICK o \in Outcomes(top, config, failed, code) : log' = log \o Accepted(o.records)
    BY <1>5 DEF Record
  <2> HIDE DEF failed, code
  <2>2. Other
    BY <2>1, OutcomesAreOther
  <2>3. QED BY <1>5, <2>2, CountedKept DEF Record, given
<1>6. ASSUME recordPanic PROVE Counted'
  <2>1. CASE log' = log
    BY <1>6, <2>1, OtherWhenSame, CountedKept DEF recordPanic, given
  <2>2. CASE \E o \in Outcomes(top, PanicConfig, TRUE, panicExitCode) : log' = log \o Accepted(o.records)
    <3>1. Other
      BY <2>2, OutcomesAreOther
    <3>2. QED BY <1>6, <3>1, CountedKept DEF recordPanic, given
  <2>3. QED BY <1>6, <2>1, <2>2 DEF recordPanic
<1>7. ASSUME \/ \E c, cmd \in Commands : Call(c, cmd)
             \/ Hook \/ Finish \/ Panic \/ Leave \/ Raise \/ UNCHANGED vars
      PROVE  Counted'
  <2>1. log' = log /\ UNCHANGED <<asks, config>>
    BY <1>7 DEF Call, Hook, Finish, Panic, Leave, Raise, vars, client, given
  <2>2. QED BY <2>1, OtherWhenSame, CountedKept
<1>8. ASSUME NEW c \in Commands, ShowHelp(c) PROVE Counted'
  BY <1>8, ShowHelpRecords, CountedMore
<1>9. QED
  BY ExitSteps, <1>1, <1>2, <1>3, <1>4, <1>5, <1>6, <1>7, <1>8

\* Between what an observer is given to see and what the next one is, the log
\* gets the one view that is due, or none.
THEOREM AsksAnswered == Spec => []Counted
<1>1. Init => Counted
  BY CountedInit
<1>2. Shape /\ Flagged /\ Books /\ Counted /\ [Next]_vars => Counted'
  BY CountedStep DEF Books
<1>3. QED BY <1>1, <1>2, StackCorrect, FlagsCorrect, BooksCorrect, PTL DEF Spec

\* UnknownOnce: a mistyped command has one record, and no view of the help,
\* whether the help func or Execute sees it, and help that was asked for has
\* one view and no unknown command, but for what flags of an earlier Execute
\* make of them.
THEOREM UnknownsCountedOnce == Spec => []UnknownOnce
<1>1. Counted => UnknownOnce
  BY DEF Counted, Answered, UnknownOnce
<1>2. QED BY <1>1, AsksAnswered, PTL

\* SuggestionNearest: no edits fewer than those that lead to the suggestion
\* lead to another subcommand, for every tree, limit and word.
THEOREM SuggestionsNearest == Spec => []SuggestionNearest
<1>1. Counted => SuggestionNearest
  BY DEF Counted, Nearest, Word, SuggestionNearest
<1>2. QED BY <1>1, AsksAnswered, PTL

-----------------------------------------------------------------------------
(* The class of an error.                                                  *)

\* The class that the error after record j of run i is to have.
ClassDue(i, j) ==
    CASE log[j].code = panicExitCode /\ runs[i].end # "exited" ->
            [category |-> panicReason, reason |-> panicReason]
      [] log[j].code # panicExitCode /\ runs[i].end = "failed" ->
            Classification(options)
      [] runs[i].exit # None -> Classification(options \o runs[i].exit)
      [] OTHER -> [category |-> None, reason |-> None]

ErrorClassed(i, j) == j - 1 \in CompletedOf(i) /\ log[j].class = ClassDue(i, j - 1)

ClassedOf(i) == \A j \in ErrorsOf(i) : ErrorClassed(i, j)

\* Nothing runs after an exit, and only an exit has options of its own.
ExitOf(i) ==
    /\ runs[i].exit # None => runs[i].end = "exited"
    /\ runs[i].end = "exited" => at = "exited"

Classed ==
    /\ \A j \in DOMAIN log : log[j].call = "error" => log[j].run \in DOMAIN runs
    /\ \A i \in DOMAIN runs : ClassedOf(i) /\ ExitOf(i)

LEMMA ClassedInit == ASSUME Init PROVE Classed
<1>1. DOMAIN log = {} /\ DOMAIN runs = {}
  BY DEF Init
<1>2. QED BY <1>1 DEF Classed

\* A run whose errors are those it had, and which ends only if it had none.
LEMMA ClassedKept ==
    ASSUME Grows, NEW i, ClassedOf(i), UNCHANGED options, ErrorsOf(i)' = ErrorsOf(i),
           CompletedOf(i) \subseteq CompletedOf(i)',
           runs'[i] = runs[i] \/ CompletedOf(i) = {}
    PROVE  ClassedOf(i)'
<1>1. SUFFICES ASSUME NEW j \in ErrorsOf(i) PROVE ErrorClassed(i, j)'
  BY DEF ClassedOf
<1>2. j - 1 \in CompletedOf(i) /\ log[j].class = ClassDue(i, j - 1)
  BY <1>1 DEF ClassedOf, ErrorClassed
<1>3. runs'[i] = runs[i]
  BY <1>2
<1>4. log'[j] = log[j] /\ log'[j - 1] = log[j - 1]
  BY <1>1, <1>2 DEF Grows, ErrorsOf, CompletedOf
<1>5. ClassDue(i, j - 1)' = ClassDue(i, j - 1)
  BY <1>3, <1>4 DEF ClassDue
<1>6. QED BY <1>2, <1>4, <1>5 DEF ErrorClassed

\* A step after which the records of every run that was there are the same,
\* or those of run t are more.
LEMMA ClassedWhenOne ==
    ASSUME Shape, Books, Classed, NEW t, IsSeq(log), UNCHANGED options, DOMAIN runs \subseteq DOMAIN runs',
           NEW code, Quietly \/ AddsOutcome(t, code) \/ AddsFailure(t, code),
           t \in DOMAIN runs => ClassedOf(t)',
           Quietly \/ t \in DOMAIN runs,
           \A i \in DOMAIN runs : i # t => runs'[i] = runs[i],
           \A i \in DOMAIN runs' : i \notin DOMAIN runs => runs'[i].end = "running",
           \A i \in DOMAIN runs' : ExitOf(i)'
    PROVE  Classed'
<1>1. Grows
  BY DEF Quietly, AddsOutcome, AddsFailure
<1>2. ASSUME NEW j \in DOMAIN log', log'[j].call = "error" PROVE log'[j].run \in DOMAIN runs'
  <2>1. CASE j \in DOMAIN log
    BY <1>1, <1>2, <2>1 DEF Classed, Grows
  <2>2. CASE j \notin DOMAIN log
    BY <1>2, <2>2 DEF Quietly, AddsOutcome, AddsFailure, Counts
  <2>3. QED BY <2>1, <2>2
<1>3. ASSUME NEW i \in DOMAIN runs, i # t PROVE ClassedOf(i)'
  <2>1. CompletedOf(i)' = CompletedOf(i) /\ ErrorsOf(i)' = ErrorsOf(i)
    BY <1>3, QuietRecords, OtherRecords
  <2>2. ClassedOf(i) /\ runs'[i] = runs[i]
    BY <1>3 DEF Classed
  <2>3. QED BY <1>1, <2>1, <2>2, ClassedKept
<1>4. ASSUME NEW i \in DOMAIN runs', i \notin DOMAIN runs PROVE ClassedOf(i)'
  <2>1. ErrorsOf(i) = {}
    BY <1>4 DEF Classed, ErrorsOf
  <2>2. CASE Quietly
    <3>1. ErrorsOf(i)' = {}
      BY <2>1, <2>2, QuietRecords
    <3>2. QED BY <3>1 DEF ClassedOf
  <2>3. CASE ~ Quietly
    <3>1. i # t
      BY <1>4, <2>3
    <3>2. ErrorsOf(i)' = {}
      BY <2>1, <2>3, <3>1, OtherRecords
    <3>3. QED BY <3>2 DEF ClassedOf
  <2>4. QED BY <2>2, <2>3
<1>5. QED BY <1>2, <1>3, <1>4 DEF Classed

\* The error that recordOutcome records has the class of its configuration.
LEMMA FailureClass ==
    ASSUME IsSeq(log), NEW i, NEW cfg, NEW failed \in BOOLEAN, NEW code,
           NEW o \in Outcomes(i, cfg, failed, code), log' = log \o Accepted(o.records),
           AddsFailure(i, code)
    PROVE  log'[Len(log) + 2].class = classify(cfg)
<1> DEFINE one == Completed(i, code)
           two == Raised(i, cfg)
           s == Accepted(o.records)
<1>1. s \in {<<>>, <<one>>, <<one, two>>}
  BY DEF Outcomes, Accepted
<1>2. two.class = classify(cfg)
  BY DEF Raised
<1> HIDE DEF one, two, s
<1>3. IsSeq(s) /\ Len(s) \in {0, 1, 2} /\ (Len(s) = 2 => s = <<one, two>>)
  <2>1. CASE s = <<>>
    BY <2>1, ShortSeqs
  <2>2. CASE s = <<one>>
    BY <2>2, ShortSeqs
  <2>3. CASE s = <<one, two>>
    BY <2>3, ShortSeqs
  <2>4. QED BY <1>1, <2>1, <2>2, <2>3
<1>4. log' = log \o s
  BY DEF s
<1>5. /\ DOMAIN log = 1..Len(log) /\ Len(log) \in Nat /\ DOMAIN s = 1..Len(s)
      /\ DOMAIN (log \o s) = 1..(Len(log) + Len(s))
      /\ \A j \in DOMAIN s : (log \o s)[Len(log) + j] = s[j]
  BY <1>3, Joined
<1>6. Len(log) + 2 \in 1..(Len(log) + Len(s))
  BY <1>4, <1>5 DEF AddsFailure
<1>7. Len(s) = 2
  BY <1>3, <1>5, <1>6
<1>8. s[2] = two /\ 2 \in DOMAIN s
  BY <1>3, <1>5, <1>7, ShortSeqs
<1>9. QED BY <1>2, <1>4, <1>5, <1>8

LEMMA ClassedFailure ==
    ASSUME IsSeq(log), NEW t, NEW code, ClassedOf(t), UNCHANGED options, AddsFailure(t, code),
           runs'[t] = runs[t] \/ CompletedOf(t) = {},
           NEW n, n = Len(log) + 1, log'[n + 1].class = ClassDue(t, n)'
    PROVE  ClassedOf(t)'
<1>1. n \in Nat /\ Len(log) + 2 = n + 1 /\ n + 1 - 1 = n
  BY LogFacts
<1>2. /\ CompletedOf(t)' = CompletedOf(t) \cup {n} /\ ErrorsOf(t)' = ErrorsOf(t) \cup {n + 1}
      /\ Grows
  BY <1>1, OwnRecords
<1>3. ASSUME NEW j \in ErrorsOf(t) PROVE ErrorClassed(t, j)'
  <2>1. j - 1 \in CompletedOf(t) /\ log[j].class = ClassDue(t, j - 1)
    BY <1>3 DEF ClassedOf, ErrorClassed
  <2>2. runs'[t] = runs[t]
    BY <2>1
  <2>3. log'[j] = log[j] /\ log'[j - 1] = log[j - 1]
    BY <1>2, <1>3, <2>1 DEF Grows, ErrorsOf, CompletedOf
  <2>4. ClassDue(t, j - 1)' = ClassDue(t, j - 1)
    BY <2>2, <2>3 DEF ClassDue
  <2>5. QED BY <1>2, <2>1, <2>3, <2>4 DEF ErrorClassed
<1>4. ErrorClassed(t, n + 1)'
  <2>1. n + 1 - 1 \in CompletedOf(t)'
    BY <1>1, <1>2
  <2>2. ClassDue(t, n + 1 - 1)' = ClassDue(t, n)'
    BY <1>1
  <2>3. QED BY <2>1, <2>2 DEF ErrorClassed
<1>5. QED BY <1>2, <1>3, <1>4 DEF ClassedOf

LEMMA NoErrors ==
    ASSUME NEW i, ClassedOf(i), CompletedOf(i) = {} PROVE ErrorsOf(i) = {}
BY DEF ClassedOf, ErrorClassed

\* While the process goes on, no run has ended by an exit.
LEMMA NoExits ==
    ASSUME Classed, at # "exited", NEW i \in DOMAIN runs
    PROVE  runs[i].exit = None /\ runs[i].end # "exited"
BY DEF Classed, ExitOf

LEMMA EndedExit ==
    ASSUME Shape, NEW i \in DOMAIN runs, NEW how, NEW code, runs' = Ended(i, how, code)
    PROVE  runs'[i].exit = runs[i].exit
<1>1. runs[i] \in CallRecords
  BY DEF Shape
<1> DEFINE rec == [runs[i] EXCEPT !.end = how, !.code = code, !.open = ~closed,
                                  !.seen = ctx[runs[i].cmd] # NoContext]
<1>2. rec.exit = runs[i].exit
  BY <1>1 DEF CallRecords
<1>3. runs' = [runs EXCEPT ![i] = rec]
  BY <1>1 DEF Ended
<1> HIDE DEF rec
<1>4. QED BY <1>2, <1>3

LEMMA EnterExit ==
    ASSUME Shape, NEW fn, NEW cmd, NEW execute, Enter(fn, cmd, execute)
    PROVE  /\ DOMAIN runs' = DOMAIN runs \cup {Len(runs) + 1}
           /\ \A k \in DOMAIN runs : runs'[k] = runs[k]
           /\ runs'[Len(runs) + 1].end = "running" /\ runs'[Len(runs) + 1].exit = None
<1> DEFINE rec == [fn |-> fn, cmd |-> cmd, caller |-> top, execute |-> execute,
                   end |-> "running", code |-> 0, open |-> FALSE, seen |-> FALSE, exit |-> None]
<1>1. runs \in Seq(CallRecords) /\ runs' = Append(runs, rec)
  BY DEF Shape, Enter
<1>2. rec.end = "running" /\ rec.exit = None
  OBVIOUS
<1> HIDE DEF rec
<1>3. IsSeq(runs)
  <2>1. runs \in [1..Len(runs) -> {runs[i] : i \in DOMAIN runs}] /\ Len(runs) \in Nat
    BY <1>1
  <2>2. QED BY <2>1, SeqDef DEF IsSeq
<1>4. runs' = runs \o <<rec>>
  BY <1>1
<1>5. QED BY <1>2, <1>3, <1>4, Joined, ShortSeqs

\* No record is about an outcome, and a run that ends does not end the process.
LEMMA ClassedWhenQuiet ==
    ASSUME Shape, Books, Classed, Quietly, UNCHANGED options, at # "exited",
           DOMAIN runs \subseteq DOMAIN runs',
           NEW t, \A i \in DOMAIN runs : i # t => runs'[i] = runs[i],
           t \in DOMAIN runs => \/ runs'[t] = runs[t]
                                \/ /\ runs[t].end = "running" /\ runs'[t].end # "exited"
                                   /\ runs'[t].exit = runs[t].exit,
           \A i \in DOMAIN runs' : i \notin DOMAIN runs => runs'[i].end = "running" /\ runs'[i].exit = None
    PROVE  Classed'
<1>1. IsSeq(log) /\ Grows
  BY DEF Books, Quietly
<1>2. ASSUME t \in DOMAIN runs PROVE ClassedOf(t)'
  <2>1. ClassedOf(t) /\ BooksOf(t)
    BY <1>2 DEF Classed, Books
  <2>2. CompletedOf(t)' = CompletedOf(t) /\ ErrorsOf(t)' = ErrorsOf(t)
    BY <1>1, QuietRecords
  <2>3. runs'[t] = runs[t] \/ CompletedOf(t) = {}
    BY <1>2, <2>1 DEF BooksOf
  <2>4. QED BY <1>1, <2>1, <2>2, <2>3, ClassedKept
<1>3. ASSUME NEW i \in DOMAIN runs' PROVE ExitOf(i)'
  <2>1. CASE i \in DOMAIN runs
    <3>1. runs[i].exit = None /\ runs[i].end # "exited"
      BY <2>1, NoExits
    <3>2. runs'[i].exit = None /\ runs'[i].end # "exited"
      BY <2>1, <3>1
    <3>3. QED BY <3>2 DEF ExitOf
  <2>2. CASE i \notin DOMAIN runs
    BY <1>3, <2>2 DEF ExitOf
  <2>3. QED BY <2>1, <2>2
<1>4. QED BY <1>1, <1>2, <1>3, ClassedWhenOne

\* The class that the wrapper records is that of the options of the tree.
LEMMA TreeClass == ASSUME Values PROVE classify(config) = Classification(options)
BY LastOptionsClassify, OptionsAssumption DEF Values

LEMMA PanicClass ==
    /\ classify(PanicConfig) = [category |-> panicReason, reason |-> panicReason]
    /\ classify(NoConfig) = [category |-> None, reason |-> None]
<1>1. panicReason # None
  BY OptionsAssumption
<1>2. PanicConfig.both = panicReason
  BY DEF PanicConfig, NoConfig
<1>3. NoConfig.both = None /\ NoConfig.category = None /\ NoConfig.reason = None
  BY DEF NoConfig
<1>4. QED BY <1>1, <1>2, <1>3 DEF classify

\* The ways of recordOutcome, by name.
Outcome(i, failed, code, o) ==
    \/ log' = log
    \/ AddsOutcome(i, code)
    \/ failed /\ o.panic = None /\ AddsFailure(i, code)

LEMMA OutcomeNamed ==
    ASSUME IsSeq(log), NEW i, NEW cfg, NEW failed \in BOOLEAN, NEW code,
           NEW o \in Outcomes(i, cfg, failed, code), log' = log \o Accepted(o.records)
    PROVE  Outcome(i, failed, code, o)
BY OutcomeFacts DEF Outcome

\* recordOutcome for run t: what becomes of the classes of its errors.
LEMMA ClassedByOutcome ==
    ASSUME Shape, Books, Classed, UNCHANGED options, NEW t \in DOMAIN runs,
           NEW cfg, NEW failed \in BOOLEAN, NEW code, NEW o \in Outcomes(t, cfg, failed, code),
           log' = log \o Accepted(o.records), runs'[t] = runs[t] \/ CompletedOf(t) = {},
           DOMAIN runs' = DOMAIN runs, \A i \in DOMAIN runs : i # t => runs'[i] = runs[i],
           \A i \in DOMAIN runs' : ExitOf(i)',
           \A n : o.panic = None /\ failed /\ log'[n].code = code => ClassDue(t, n)' = classify(cfg)
    PROVE  Classed'
<1>1. IsSeq(log) /\ ClassedOf(t)
  BY DEF Books, Classed
<1>2. Outcome(t, failed, code, o)
  BY <1>1, OutcomeNamed
<1>3. CASE log' = log
  <2>1. Quietly /\ Grows
    BY <1>1, <1>3, QuietWhenSame DEF Quietly
  <2>2. CompletedOf(t)' = CompletedOf(t) /\ ErrorsOf(t)' = ErrorsOf(t)
    BY <1>1, <2>1, QuietRecords
  <2>3. ClassedOf(t)'
    BY <1>1, <2>1, <2>2, ClassedKept
  <2>4. QED BY <1>1, <2>1, <2>3, ClassedWhenOne
<1>4. CASE AddsOutcome(t, code)
  <2>1. /\ CompletedOf(t)' = CompletedOf(t) \cup {Len(log) + 1} /\ ErrorsOf(t)' = ErrorsOf(t)
        /\ Grows
    BY <1>1, <1>4, OwnRecords
  <2>2. ClassedOf(t)'
    BY <1>1, <2>1, ClassedKept
  <2>3. QED BY <1>1, <1>4, <2>2, ClassedWhenOne
<1>5. CASE AddsFailure(t, code) /\ failed /\ o.panic = None
  <2>1. PICK n : n = Len(log) + 1
    OBVIOUS
  <2>2. log'[Len(log) + 2].class = classify(cfg)
    BY <1>1, <1>5, FailureClass
  <2>3. n + 1 = Len(log) + 2
    BY <1>1, <2>1, LogFacts
  <2>4. log'[n].code = code
    BY <1>5, <2>1 DEF AddsFailure, Counts
  <2>5. log'[n + 1].class = ClassDue(t, n)'
    BY <1>5, <2>2, <2>3, <2>4
  <2>6. ClassedOf(t)'
    BY <1>1, <1>5, <2>1, <2>5, ClassedFailure
  <2>7. QED BY <1>1, <1>5, <2>6, ClassedWhenOne
<1>6. QED BY <1>2, <1>3, <1>4, <1>5 DEF Outcome

LEMMA ClassedRecord ==
    ASSUME Shape, Values, Books, Classed, Record, NEW t, t = top PROVE Classed'
<1> DEFINE failed == value = "err"
           code == IF value = "err" THEN 1 ELSE 0
<1>1. /\ at = "record" /\ UNCHANGED <<options, runs>> /\ t \in DOMAIN runs /\ at' \in {"return", "unwind"}
  BY DEF Record, Shape, given
<1>2. PICK o \in Outcomes(t, config, failed, code) : log' = log \o Accepted(o.records)
  BY DEF Record
<1>3. failed \in BOOLEAN /\ (failed => code = 1) /\ (failed => runs[t].end = "failed")
  BY <1>1 DEF Books, BooksOf, Recording
<1> HIDE DEF failed, code
<1>4. ASSUME NEW i \in DOMAIN runs PROVE ExitOf(i)'
  <2>1. runs[i].exit = None /\ runs[i].end # "exited"
    BY <1>1, NoExits
  <2>2. QED BY <1>1, <2>1 DEF ExitOf
<1>5. ASSUME NEW n, failed, log'[n].code = code PROVE ClassDue(t, n)' = classify(config)
  <2>1. log'[n].code # panicExitCode /\ runs'[t].end = "failed"
    BY <1>1, <1>3, <1>5 DEF panicExitCode
  <2>2. runs'[t].exit = None
    BY <1>1, NoExits
  <2>3. ClassDue(t, n)' = Classification(options')
    BY <2>1, <2>2 DEF ClassDue
  <2>4. QED BY <1>1, <2>3, TreeClass
<1>6. QED BY <1>1, <1>2, <1>3, <1>4, <1>5, ClassedByOutcome

LEMMA ClassedRecordPanic ==
    ASSUME Shape, Values, Books, Classed, recordPanic, NEW t, t = top PROVE Classed'
<1>1. /\ at = "unwind" /\ UNCHANGED <<options, runs>> /\ t \in DOMAIN runs /\ at' = "raise"
  BY DEF recordPanic, Shape, given
<1>2. ASSUME NEW i \in DOMAIN runs
      PROVE  ExitOf(i)' /\ runs'[i].end # "exited" /\ runs'[i].exit = None
  <2>1. runs[i].exit = None /\ runs[i].end # "exited"
    BY <1>1, NoExits
  <2>2. QED BY <1>1, <2>1 DEF ExitOf
<1>3. CASE log' = log
  <2>1. Quietly
    BY <1>3, QuietWhenSame DEF Books
  <2>2. DOMAIN runs \subseteq DOMAIN runs' /\ runs'[t] = runs[t]
        /\ \A i \in DOMAIN runs : i # t => runs'[i] = runs[i]
    BY <1>1
  <2>3. \A i \in DOMAIN runs' : i \notin DOMAIN runs => runs'[i].end = "running" /\ runs'[i].exit = None
    BY <1>1
  <2>4. QED BY <1>1, <2>1, <2>2, <2>3, ClassedWhenQuiet
<1>4. CASE \E o \in Outcomes(t, PanicConfig, TRUE, panicExitCode) : log' = log \o Accepted(o.records)
  <2>1. PICK o \in Outcomes(t, PanicConfig, TRUE, panicExitCode) : log' = log \o Accepted(o.records)
    BY <1>4
  <2>2. ASSUME NEW n, log'[n].code = panicExitCode PROVE ClassDue(t, n)' = classify(PanicConfig)
    BY <1>1, <1>2, <2>2, PanicClass DEF ClassDue
  <2> DEFINE failed == TRUE
             cfg == PanicConfig
             code == panicExitCode
  <2>3. failed \in BOOLEAN /\ o \in Outcomes(t, cfg, failed, code)
        /\ \A n : o.panic = None /\ failed /\ log'[n].code = code => ClassDue(t, n)' = classify(cfg)
    BY <2>2
  <2> HIDE DEF failed, cfg, code
  <2>4. QED BY <1>1, <1>2, <2>1, <2>3, ClassedByOutcome
<1>5. QED BY <1>3, <1>4 DEF recordPanic

\* What the process exits with: the class is that of the options of the exit
\* over those of the tree, or none.
LEMMA ExitClass ==
    ASSUME Values, NEW by \in ExitOptions \cup {None}
    PROVE  classify(IF by = None THEN NoConfig ELSE ApplyAll(config, by)) =
              IF by # None THEN Classification(options \o by)
                           ELSE [category |-> None, reason |-> None]
<1>1. CASE by = None
  BY <1>1, PanicClass
<1>2. CASE by # None
  <2>1. by \in Seq(HookOptions) /\ options \in Seq(HookOptions)
    BY <1>2, OptionsAssumption DEF Values
  <2>2. classify(ApplyAll(ApplyAll(DefaultConfig, options), by)) = Classification(options \o by)
    BY <2>1, ExitOptionsFollow
  <2>3. config = ApplyAll(DefaultConfig, options)
    BY DEF Values
  <2>4. QED BY <1>2, <2>2, <2>3
<1>3. QED BY <1>1, <1>2

LEMMA ClassedExit ==
    ASSUME Shape, Stack, Values, Books, Classed, NEW t, t = top,
           NEW code, NEW failed, NEW by, Exiting(code, failed, by)
    PROVE  Classed'
<1> DEFINE cfg == IF by = None THEN NoConfig ELSE ApplyAll(config, by)
<1>1. /\ at = "inner" /\ code \in Nat /\ failed \in BOOLEAN /\ by \in ExitOptions \cup {None}
      /\ ExitWith(code, failed, cfg, by) /\ UNCHANGED options
  BY DEF Exiting, given
<1>2. t \in DOMAIN runs /\ runs[t].end = "running" /\ runs[t].exit = None
      /\ runs[t] \in CallRecords /\ runs \in Seq(CallRecords)
  BY <1>1, TopIsRun, NoExits DEF Stack, Shape
<1>3. CompletedOf(t) = {}
  BY <1>2 DEF Books, BooksOf
<1>4. classify(cfg) = IF by # None THEN Classification(options \o by)
                                   ELSE [category |-> None, reason |-> None]
  BY <1>1, ExitClass
<1> HIDE DEF cfg
<1>5. PICK o \in Outcomes(t, cfg, failed, code) :
         /\ log' = log \o Accepted(o.records)
         /\ IF o.panic = None
              THEN /\ runs' = [Ended(t, "exited", code) EXCEPT ![t].exit = by]
                   /\ closed' = TRUE /\ at' = "exited" /\ UNCHANGED value
              ELSE PanicIn(t, o.panic) /\ UNCHANGED closed
  BY <1>1 DEF ExitWith
<1>6. CASE o.panic = None
  <2> DEFINE rec == [runs[t] EXCEPT !.end = "exited", !.code = code, !.open = ~closed,
                                    !.seen = ctx[runs[t].cmd] # NoContext, !.exit = by]
  <2>1. runs' = [runs EXCEPT ![t] = rec]
    BY <1>2, <1>5, <1>6 DEF Ended
  <2>2. rec.end = "exited" /\ rec.exit = by
    BY <1>2 DEF CallRecords
  <2> HIDE DEF rec
  <2>3. /\ DOMAIN runs' = DOMAIN runs /\ runs'[t].end = "exited" /\ runs'[t].exit = by
        /\ \A i \in DOMAIN runs : i # t => runs'[i] = runs[i]
    BY <1>2, <2>1, <2>2
  <2>4. ASSUME NEW i \in DOMAIN runs' PROVE ExitOf(i)'
    <3>1. CASE i = t
      BY <1>5, <1>6, <2>3, <3>1 DEF ExitOf
    <3>2. CASE i # t
      BY <1>1, <2>3, <2>4, <3>2, NoExits DEF ExitOf
    <3>3. QED BY <3>1, <3>2
  <2>5. ASSUME NEW n PROVE ClassDue(t, n)' = classify(cfg)
    <3>1. runs'[t].end # "failed" /\ ~ (runs'[t].end # "exited")
      BY <2>3
    <3>2. ClassDue(t, n)' = IF by # None THEN Classification(options \o by)
                                         ELSE [category |-> None, reason |-> None]
      BY <1>1, <2>3, <3>1 DEF ClassDue
    <3>3. QED BY <1>4, <3>2
  <2>6. QED BY <1>1, <1>2, <1>3, <1>5, <2>3, <2>4, <2>5, ClassedByOutcome
<1>7. CASE o.panic # None
  <2>1. runs' = Ended(t, "panicked", panicExitCode) /\ at' \in {"unwind", "raise"}
    BY <1>5, <1>7 DEF PanicIn
  <2>2. Closes(t, "panicked")
    BY <1>2, <1>5, <1>7, PanicInFacts
  <2>3. /\ DOMAIN runs' = DOMAIN runs /\ runs'[t].end = "panicked" /\ runs'[t].exit = None
        /\ \A i \in DOMAIN runs : i # t => runs'[i] = runs[i]
    BY <1>2, <2>1, <2>2, EndedExit DEF Closes
  <2>4. ASSUME NEW i \in DOMAIN runs' PROVE ExitOf(i)'
    <3>1. CASE i = t
      BY <2>3, <3>1 DEF ExitOf
    <3>2. CASE i # t
      BY <1>1, <2>3, <2>4, <3>2, NoExits DEF ExitOf
    <3>3. QED BY <3>1, <3>2
  <2>5. \A n : o.panic = None => ClassDue(t, n)' = classify(cfg)
    BY <1>7
  <2>6. QED BY <1>1, <1>2, <1>3, <1>5, <2>3, <2>4, <2>5, ClassedByOutcome
<1>8. QED BY <1>6, <1>7

\* A panic, or an end, of run t that records nothing.
LEMMA ClassedEnd ==
    ASSUME Shape, Books, Classed, NEW t \in DOMAIN runs, runs[t].end = "running", at # "exited",
           NEW how \in {"ok", "failed", "panicked"}, NEW code \in Nat, runs' = Ended(t, how, code),
           UNCHANGED <<options, log>>
    PROVE  Classed'
<1>1. Closes(t, how)
  BY EndedCloses
<1>2. runs'[t].exit = runs[t].exit
  BY EndedExit
<1>3. Quietly
  BY QuietWhenSame DEF Books
<1>4. /\ DOMAIN runs' = DOMAIN runs /\ runs'[t].end # "exited"
      /\ \A i \in DOMAIN runs : i # t => runs'[i] = runs[i]
  BY <1>1 DEF Closes
<1>5. QED BY <1>2, <1>3, <1>4, ClassedWhenQuiet

LEMMA ClassedPanic ==
    ASSUME Shape, Books, Classed, NEW t \in DOMAIN runs, runs[t].end = "running", at # "exited",
           NEW v, PanicIn(t, v), UNCHANGED <<options, log>>
    PROVE  Classed'
BY ClassedEnd DEF PanicIn, panicExitCode

\* A step that records nothing of an outcome and ends no run.
LEMMA ClassedMove ==
    ASSUME Shape, Books, Classed, Quietly, UNCHANGED options, at # "exited",
           \/ UNCHANGED runs
           \/ \E fn, cmd, execute : Enter(fn, cmd, execute)
    PROVE  Classed'
<1>1. PICK t : t = 0
  OBVIOUS
<1>2. t \notin DOMAIN runs
  BY <1>1 DEF Shape
<1>3. CASE UNCHANGED runs
  BY <1>2, <1>3, ClassedWhenQuiet
<1>4. CASE \E fn, cmd, execute : Enter(fn, cmd, execute)
  <2>1. /\ DOMAIN runs \subseteq DOMAIN runs' /\ \A k \in DOMAIN runs : runs'[k] = runs[k]
        /\ \A i \in DOMAIN runs' : i \notin DOMAIN runs => runs'[i].end = "running" /\ runs'[i].exit = None
    BY <1>4, EnterExit
  <2>2. QED BY <1>2, <2>1, ClassedWhenQuiet
<1>5. QED BY <1>3, <1>4

LEMMA ClassedHook ==
    ASSUME Shape, Stack, Books, Classed, Hook, NEW t, t = top PROVE Classed'
<1>1. at = "hook" /\ t \in DOMAIN runs /\ UNCHANGED <<options, log>>
      /\ (UNCHANGED runs \/ Closes(t, "skipped"))
  BY HookFacts, TopIsRun DEF given, client
<1>2. Quietly
  BY <1>1, QuietWhenSame DEF Books
<1>3. CASE UNCHANGED runs
  BY <1>1, <1>2, <1>3, ClassedMove
<1>4. CASE runs' = [runs EXCEPT ![t].end = "skipped"]
  <2>1. runs \in Seq(CallRecords) /\ runs[t] \in CallRecords
    BY <1>1 DEF Shape
  <2> DEFINE rec == [runs[t] EXCEPT !.end = "skipped"]
  <2>2. rec.end = "skipped" /\ rec.exit = runs[t].exit
    BY <2>1 DEF CallRecords
  <2>3. runs' = [runs EXCEPT ![t] = rec]
    BY <1>4, <2>1
  <2> HIDE DEF rec
  <2>4. /\ DOMAIN runs' = DOMAIN runs /\ runs'[t].end = "skipped" /\ runs'[t].exit = runs[t].exit
        /\ \A i \in DOMAIN runs : i # t => runs'[i] = runs[i]
    BY <1>1, <2>1, <2>2, <2>3
  <2>5. runs[t].end = "running"
    BY <1>1 DEF Stack
  <2>6. QED BY <1>1, <1>2, <2>4, <2>5, ClassedWhenQuiet
<1>5. QED BY <1>3, <1>4 DEF Hook

LEMMA ClassedStep ==
    ASSUME Shape, Stack, Values, Books, Classed, [Next]_vars PROVE Classed'
<1>1. IsSeq(log)
  BY DEF Books
<1>2. ASSUME NEW c \in Commands, NEW typed, NEW asked,
             \/ Execute(c) \/ Help(c, typed, asked) \/ ShowHelp(c)
             \/ RecordExecuteError(c, typed)
      PROVE  Classed'
  <2>1. Quietly
    BY <1>1, <1>2, QuietSteps
  <2>2. UNCHANGED options /\ at \in {"idle", "inner"}
    BY <1>2 DEF Execute, Help, ShowHelp, RecordExecuteError, Again, given
  <2>3. UNCHANGED runs \/ \E fn, cmd, execute : Enter(fn, cmd, execute)
    BY <1>2 DEF Execute, Help, ShowHelp, RecordExecuteError
  <2>4. QED BY <2>1, <2>2, <2>3, ClassedMove
<1>3. ASSUME NEW d \in Commands, NEW cmd \in Commands, Call(d, cmd) PROVE Classed'
  <2>1. /\ at = "inner" /\ UNCHANGED <<options, log>>
        /\ PanicIn(top, "nilRun") \/ Enter(d, cmd, 0)
    BY <1>3 DEF Call, given, client
  <2>2. CASE PanicIn(top, "nilRun")
    <3>1. PICK t : t = top
      OBVIOUS
    <3>2. t \in DOMAIN runs /\ runs[t].end = "running" /\ PanicIn(t, "nilRun")
      BY <2>1, <2>2, <3>1, TopIsRun DEF Stack, Shape
    <3>3. QED BY <2>1, <3>2, ClassedPanic
  <2>3. CASE Enter(d, cmd, 0)
    BY <1>1, <2>1, <2>3, QuietWhenSame, ClassedMove
  <2>4. QED BY <2>1, <2>2, <2>3
<1>4. ASSUME NEW code, NEW failed, NEW by, Exiting(code, failed, by) PROVE Classed'
  <2>1. PICK t : t = top
    OBVIOUS
  <2>2. QED BY <1>4, <2>1, ClassedExit
<1>5. Hook => Classed'
  <2>1. PICK t : t = top
    OBVIOUS
  <2>2. QED BY <2>1, ClassedHook
<1>6. ASSUME Finish \/ Panic PROVE Classed'
  <2>1. PICK t : t = top
    OBVIOUS
  <2>2. /\ at = "inner" /\ UNCHANGED <<options, log>>
        /\ \/ PanicIn(t, "host")
           \/ runs' = Ended(t, "ok", 0)
           \/ runs' = Ended(t, "failed", 1)
    BY <1>6, <2>1 DEF Finish, Panic, given, client
  <2>3. t \in DOMAIN runs /\ runs[t].end = "running"
    BY <2>1, <2>2, TopIsRun DEF Stack, Shape
  <2>4. CASE PanicIn(t, "host")
    BY <2>2, <2>3, <2>4, ClassedPanic
  <2>5. CASE runs' = Ended(t, "ok", 0)
    BY <2>2, <2>3, <2>5, ClassedEnd
  <2>6. CASE runs' = Ended(t, "failed", 1)
    BY <2>2, <2>3, <2>6, ClassedEnd
  <2>7. QED BY <2>2, <2>4, <2>5, <2>6
<1>7. ASSUME Leave PROVE Classed'
  <2>1. at = "return" /\ UNCHANGED <<options, log, runs>>
    BY <1>7 DEF Leave, given, client
  <2>2. QED BY <1>1, <2>1, QuietWhenSame, ClassedMove
<1>8. ASSUME Raise PROVE Classed'
  <2>1. at = "raise" /\ top # 0 /\ top' = runs[top].caller /\ UNCHANGED <<options, log>>
    BY <1>8 DEF Raise, Shape, given, client
  <2>2. CASE UNCHANGED runs
    BY <1>1, <2>1, <2>2, QuietWhenSame, ClassedMove
  <2>3. CASE top' # 0 /\ PanicIn(top', value)
    <3>1. PICK t : t = top'
      OBVIOUS
    <3>2. t \in DOMAIN runs /\ runs[t].end = "running"
      <4>1. top \in DOMAIN runs /\ Live(top) /\ runs[top].caller \in Nat /\ runs[top].caller < top
        BY <2>1, TopIsRun, RunsFacts DEF Live
      <4>2. runs[t].end = "running" /\ t > 0 /\ t = runs[top].caller
        BY <2>1, <2>3, <3>1, <4>1 DEF Stack
      <4>3. QED BY <4>1, <4>2, RunsFacts
    <3>3. PanicIn(t, value)
      BY <2>3, <3>1
    <3>4. QED BY <2>1, <3>2, <3>3, ClassedPanic
  <2>4. QED BY <1>8, <2>2, <2>3 DEF Raise
<1>9. Record => Classed'
  <2>1. PICK t : t = top
    OBVIOUS
  <2>2. QED BY <2>1, ClassedRecord
<1>10. recordPanic => Classed'
  <2>1. PICK t : t = top
    OBVIOUS
  <2>2. QED BY <2>1, ClassedRecordPanic
<1>11. ASSUME UNCHANGED vars PROVE Classed'
  <2>1. UNCHANGED <<options, runs, at, log>>
    BY <1>11 DEF vars, given, host, client
  <2>2. ASSUME NEW i \in DOMAIN runs PROVE ClassedOf(i)' /\ ExitOf(i)'
    <3>1. ClassedOf(i) /\ ExitOf(i)
      BY <2>2 DEF Classed
    <3>2. Quietly
      BY <1>1, <2>1, QuietWhenSame
    <3>3. CompletedOf(i)' = CompletedOf(i) /\ ErrorsOf(i)' = ErrorsOf(i) /\ Grows
      BY <1>1, <3>2, QuietRecords DEF Quietly
    <3>4. ClassedOf(i)'
      BY <2>1, <3>1, <3>3, ClassedKept
    <3>5. QED BY <2>1, <3>1, <3>4 DEF ExitOf
  <2>3. QED BY <2>1, <2>2 DEF Classed
<1>12. QED
  BY ExitSteps, <1>2, <1>3, <1>4, <1>5, <1>6, <1>7, <1>8, <1>9, <1>10, <1>11

\* ErrorsClassified: an error follows its command, under the class that the
\* last options say, wherever the panics of classifiers and the exits fall.
THEOREM ErrorsCorrectlyClassified == Spec => []ErrorsClassified
<1>1. Init => Values /\ Classed
  BY ValuesInit, ClassedInit
<1>2. Shape /\ Stack /\ Flagged /\ Values /\ Books /\ Classed /\ [Next]_vars => (Values /\ Classed)'
  BY ValuesStep, ClassedStep
<1>3. Classed => ErrorsClassified
  BY DEF Classed, ClassedOf, ErrorClassed, ClassDue, ErrorsClassified
<1>4. QED BY <1>1, <1>2, <1>3, StackCorrect, FlagsCorrect, BooksCorrect, PTL DEF Spec
=============================================================================
