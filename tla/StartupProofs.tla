--------------------------- MODULE StartupProofs ---------------------------
(***************************************************************************)
(* Proofs about module Startup and the encrypted store under it, for any   *)
(* number of processes, profiles, connection strings and starts.           *)
(*                                                                         *)
(* The store: at most one key is ever made, by a process that has the lock *)
(* and sees nothing encrypted, and all that is encrypted is under it; a    *)
(* transaction belongs to a process whose call opened the store.  So what  *)
(* is there can be read by whoever opens the store next.                   *)
(*                                                                         *)
(* The processes: a program is a sequence of calls, and what a process may *)
(* connect to or save follows from the calls that are left in it.  The     *)
(* calls that settle the primary connection come in the order of Stage;    *)
(* Settles says what a program relies on from the calls it still has, and  *)
(* stays true when another process writes in between, because what is      *)
(* encrypted once is never replaced by another value.                      *)
(***************************************************************************)
EXTENDS Startup, SequenceTheorems, TLAPS

(***************************************************************************)
(* Programs as sequences of calls.                                         *)
(***************************************************************************)
\* The call c is in the program s.
Has(s, c)  == \E i \in 1 .. Len(s) : s[i] = c

LEMMA TailOf ==
    ASSUME NEW S, NEW s \in Seq(S), s # <<>>
    PROVE  /\ Len(s) \in Nat \ {0} /\ Head(s) = s[1] /\ Head(s) \in S
           /\ Tail(s) \in Seq(S) /\ Len(Tail(s)) = Len(s) - 1
           /\ \A i \in 1 .. Len(s) - 1 : Tail(s)[i] = s[i + 1]
    BY HeadTailProperties, ElementOfSeq, LenProperties, EmptySeq

\* What a program has: its first call and what the rest of it has.
LEMMA HasTail ==
    ASSUME NEW S, NEW s \in Seq(S), s # <<>>, NEW c
    PROVE  Has(s, c) <=> (Head(s) = c \/ Has(Tail(s), c))
    <1>1. /\ Len(s) \in Nat \ {0} /\ Head(s) = s[1] /\ Len(Tail(s)) = Len(s) - 1
          /\ \A i \in 1 .. Len(s) - 1 : Tail(s)[i] = s[i + 1]
        BY TailOf
    <1>2. ASSUME Has(s, c), Head(s) # c PROVE Has(Tail(s), c)
        <2>1. PICK i \in 1 .. Len(s) : s[i] = c
            BY <1>2 DEF Has
        <2>2. i - 1 \in 1 .. Len(s) - 1 /\ Tail(s)[i - 1] = c
            BY <1>1, <1>2, <2>1
        <2> QED
            BY <1>1, <2>2 DEF Has
    <1>3. ASSUME Has(Tail(s), c) PROVE Has(s, c)
        <2>1. PICK i \in 1 .. Len(s) - 1 : Tail(s)[i] = c
            BY <1>1, <1>3 DEF Has
        <2>2. i + 1 \in 1 .. Len(s) /\ s[i + 1] = c
            BY <1>1, <2>1
        <2> QED
            BY <2>2 DEF Has
    <1>4. Head(s) = c => Has(s, c)
        BY <1>1 DEF Has
    <1> QED
        BY <1>2, <1>3, <1>4

LEMMA HasConcat ==
    ASSUME NEW S, NEW s \in Seq(S), NEW t \in Seq(S), NEW c
    PROVE  Has(s \o t, c) <=> (Has(s, c) \/ Has(t, c))
    <1>1. /\ Len(s) \in Nat /\ Len(t) \in Nat /\ Len(s \o t) = Len(s) + Len(t)
          /\ \A i \in 1 .. Len(s) + Len(t) :
                (s \o t)[i] = IF i <= Len(s) THEN s[i] ELSE t[i - Len(s)]
        BY ConcatProperties, LenProperties
    <1>2. ASSUME Has(s \o t, c) PROVE Has(s, c) \/ Has(t, c)
        <2>1. PICK i \in 1 .. Len(s) + Len(t) : (s \o t)[i] = c
            BY <1>1, <1>2 DEF Has
        <2>2. CASE i <= Len(s)
            BY <1>1, <2>1, <2>2 DEF Has
        <2>3. CASE i > Len(s)
            <3>1. i - Len(s) \in 1 .. Len(t) /\ t[i - Len(s)] = c
                BY <1>1, <2>1, <2>3
            <3> QED
                BY <3>1 DEF Has
        <2> QED
            BY <1>1, <2>1, <2>2, <2>3
    <1>3. ASSUME Has(s, c) PROVE Has(s \o t, c)
        <2>1. PICK i \in 1 .. Len(s) : s[i] = c
            BY <1>3 DEF Has
        <2>2. i \in 1 .. Len(s) + Len(t) /\ (s \o t)[i] = c
            BY <1>1, <2>1
        <2> QED
            BY <1>1, <2>2 DEF Has
    <1>4. ASSUME Has(t, c) PROVE Has(s \o t, c)
        <2>1. PICK i \in 1 .. Len(t) : t[i] = c
            BY <1>4 DEF Has
        <2>2. i + Len(s) \in 1 .. Len(s) + Len(t) /\ (s \o t)[i + Len(s)] = c
            BY <1>1, <2>1
        <2> QED
            BY <1>1, <2>2 DEF Has
    <1> QED
        BY <1>2, <1>3, <1>4


LEMMA HasOne == \A x, c : Has(<<x>>, c) <=> c = x
    BY DEF Has

LEMMA HasTwo == \A x, y, c : Has(<<x, y>>, c) <=> c \in {x, y}
    <1> SUFFICES ASSUME NEW x, NEW y, NEW c PROVE Has(<<x, y>>, c) <=> c \in {x, y}
        OBVIOUS
    <1>1. Len(<<x, y>>) = 2 /\ <<x, y>>[1] = x /\ <<x, y>>[2] = y
        OBVIOUS
    <1>2. 1 .. 2 = {1, 2}
        OBVIOUS
    <1> QED
        BY <1>1, <1>2 DEF Has

LEMMA OneCall == \A S : \A x \in S : <<x>> \in Seq(S)
    OBVIOUS

LEMMA TwoCalls == \A S : \A x, y \in S : <<x, y>> \in Seq(S)
    OBVIOUS

LEMMA CallsDiffer == \A d, k, e, l : Call(d, k) = Call(e, l) <=> (d = e /\ k = l)
    BY DEF Call

LEMMA CallFields == \A d, k : Call(d, k).do = d /\ Call(d, k).key = k
    BY DEF Call

(***************************************************************************)
(* The order of the calls that settle the primary connection.              *)
(***************************************************************************)
Stage(c) ==
    CASE c = Call("disk", "all") -> 1
      [] c = Call("ensure", "primary") -> 1
      [] c = Call("hydrate", "primary") -> 2
      [] c = Call("match", "primary") -> 3
      [] c = Call("set", "primary") -> 4
      [] c = Call("set", "imported") -> 5
      [] c = Call("scrub", "primary") -> 6
      [] OTHER -> 0

\* The calls that have a stage, and those that matter to the primary connection.
Staged == {Call("disk", "all"), Call("ensure", "primary"), Call("hydrate", "primary"),
           Call("match", "primary"), Call("set", "primary"), Call("set", "imported"),
           Call("scrub", "primary")}
Relevant == Staged \cup {Call("rewrite", "primary")}

\* No call of the program s matters to the primary connection.
Quiet(s) == \A c \in Relevant : ~Has(s, c)

Ordered(s) ==
    \A i, j \in 1 .. Len(s) :
        i < j /\ Stage(s[i]) > 0 /\ Stage(s[j]) > 0 => Stage(s[i]) < Stage(s[j])

LEMMA Stages ==
    /\ \A c : Stage(c) \in 0 .. 6
    /\ Stage(Call("disk", "all")) = 1 /\ Stage(Call("ensure", "primary")) = 1
    /\ Stage(Call("hydrate", "primary")) = 2 /\ Stage(Call("match", "primary")) = 3
    /\ Stage(Call("set", "primary")) = 4 /\ Stage(Call("set", "imported")) = 5
    /\ Stage(Call("scrub", "primary")) = 6
    /\ \A d, k : /\ d \notin {"disk", "ensure", "hydrate", "match", "set", "scrub"} => Stage(Call(d, k)) = 0
                 /\ d \in {"ensure", "hydrate", "set"} /\ k \notin {"primary", "imported"} => Stage(Call(d, k)) = 0
    BY CallsDiffer DEF Stage

LEMMA OrderedTail ==
    ASSUME NEW S, NEW s \in Seq(S), s # <<>>, Ordered(s)
    PROVE  /\ Ordered(Tail(s))
           /\ \A c : Has(Tail(s), c) /\ Stage(c) > 0 /\ Stage(Head(s)) > 0 => Stage(Head(s)) < Stage(c)
    <1>1. /\ Len(s) \in Nat \ {0} /\ Head(s) = s[1] /\ Len(Tail(s)) = Len(s) - 1
          /\ \A i \in 1 .. Len(s) - 1 : Tail(s)[i] = s[i + 1]
        BY TailOf
    <1>2. Ordered(Tail(s))
        <2> SUFFICES ASSUME NEW i \in 1 .. Len(Tail(s)), NEW j \in 1 .. Len(Tail(s)), i < j,
                            Stage(Tail(s)[i]) > 0, Stage(Tail(s)[j]) > 0
                     PROVE  Stage(Tail(s)[i]) < Stage(Tail(s)[j])
            BY DEF Ordered
        <2>1. /\ i + 1 \in 1 .. Len(s) /\ j + 1 \in 1 .. Len(s) /\ i + 1 < j + 1
              /\ Tail(s)[i] = s[i + 1] /\ Tail(s)[j] = s[j + 1]
            BY <1>1
        <2> QED
            BY <2>1 DEF Ordered
    <1>3. ASSUME NEW c, Has(Tail(s), c), Stage(c) > 0, Stage(Head(s)) > 0
          PROVE  Stage(Head(s)) < Stage(c)
        <2>1. PICK i \in 1 .. Len(s) - 1 : Tail(s)[i] = c
            BY <1>1, <1>3 DEF Has
        <2>2. i + 1 \in 1 .. Len(s) /\ 1 \in 1 .. Len(s) /\ 1 < i + 1 /\ s[i + 1] = c
            BY <1>1, <2>1
        <2> QED
            BY <1>1, <1>3, <2>2 DEF Ordered
    <1> QED
        BY <1>2, <1>3

LEMMA OrderedConcat ==
    ASSUME NEW S, NEW s \in Seq(S), NEW t \in Seq(S), Ordered(s), Ordered(t),
           \A c, d : Has(s, c) /\ Has(t, d) /\ Stage(c) > 0 /\ Stage(d) > 0 => Stage(c) < Stage(d)
    PROVE  Ordered(s \o t)
    <1>1. /\ Len(s) \in Nat /\ Len(t) \in Nat /\ Len(s \o t) = Len(s) + Len(t)
          /\ \A i \in 1 .. Len(s) + Len(t) :
                (s \o t)[i] = IF i <= Len(s) THEN s[i] ELSE t[i - Len(s)]
        BY ConcatProperties, LenProperties
    <1> SUFFICES ASSUME NEW i \in 1 .. Len(s \o t), NEW j \in 1 .. Len(s \o t), i < j,
                        Stage((s \o t)[i]) > 0, Stage((s \o t)[j]) > 0
                 PROVE  Stage((s \o t)[i]) < Stage((s \o t)[j])
        BY DEF Ordered
    <1>2. CASE j <= Len(s)
        <2>1. i \in 1 .. Len(s) /\ j \in 1 .. Len(s) /\ (s \o t)[i] = s[i] /\ (s \o t)[j] = s[j]
            BY <1>1, <1>2
        <2> QED
            BY <2>1 DEF Ordered
    <1>3. CASE i > Len(s)
        <2>1. /\ i - Len(s) \in 1 .. Len(t) /\ j - Len(s) \in 1 .. Len(t) /\ i - Len(s) < j - Len(s)
              /\ (s \o t)[i] = t[i - Len(s)] /\ (s \o t)[j] = t[j - Len(s)]
            BY <1>1, <1>3
        <2> QED
            BY <2>1 DEF Ordered
    <1>4. CASE i <= Len(s) /\ j > Len(s)
        <2>1. /\ i \in 1 .. Len(s) /\ j - Len(s) \in 1 .. Len(t)
              /\ (s \o t)[i] = s[i] /\ (s \o t)[j] = t[j - Len(s)]
            BY <1>1, <1>4
        <2>2. Has(s, s[i]) /\ Has(t, t[j - Len(s)])
            BY <2>1 DEF Has
        <2> QED
            BY <2>1, <2>2
    <1> QED
        BY <1>1, <1>2, <1>3, <1>4

LEMMA UnstagedIsOrdered ==
    ASSUME NEW s, \A c : Has(s, c) => Stage(c) = 0
    PROVE  Ordered(s)
    BY Stages DEF Ordered, Has

LEMMA OrderedOne == \A x : Ordered(<<x>>)
    BY DEF Ordered

LEMMA OrderedTwo == \A x, y : (Stage(x) > 0 /\ Stage(y) > 0 => Stage(x) < Stage(y)) => Ordered(<<x, y>>)
    <1> SUFFICES ASSUME NEW x, NEW y, Stage(x) > 0 /\ Stage(y) > 0 => Stage(x) < Stage(y)
                 PROVE  Ordered(<<x, y>>)
        OBVIOUS
    <1>1. Len(<<x, y>>) = 2 /\ <<x, y>>[1] = x /\ <<x, y>>[2] = y
        OBVIOUS
    <1>2. \A i, j \in 1 .. 2 : i < j => i = 1 /\ j = 2
        OBVIOUS
    <1> QED
        BY <1>1, <1>2 DEF Ordered

(***************************************************************************)
(* The calls a program is made of.                                         *)
(***************************************************************************)
ProgramCalls ==
    [do : {"init", "disk", "resolve", "check", "list", "menu", "ui", "connect", "save", "demo"},
     key : {"all"}]
    \cup [do : {"marker"}, key : {"imported"}]
    \cup [do : {"ensure"}, key : {"theme", "primary", "tick"}]
    \cup [do : {"set"}, key : SettingKeys]
    \cup [do : {"hydrate"}, key : {"theme", "primary"}]
    \cup [do : {"settings"}, key : {"theme", "tick"}]
    \cup [do : {"match", "scrub", "rewrite"}, key : {"primary"}]
    \cup [do : {"remove"}, key : Names]

Programs == Seq(ProgramCalls)

LEMMA CallTypes ==
    /\ \A d \in {"init", "disk", "resolve", "check", "list", "menu", "ui", "connect", "save", "demo"} :
          Call(d, "all") \in ProgramCalls
    /\ Call("marker", "imported") \in ProgramCalls
    /\ \A k \in {"theme", "primary", "tick"} : Call("ensure", k) \in ProgramCalls
    /\ \A k \in SettingKeys : Call("set", k) \in ProgramCalls
    /\ \A k \in {"theme", "primary"} : Call("hydrate", k) \in ProgramCalls
    /\ \A k \in {"theme", "tick"} : Call("settings", k) \in ProgramCalls
    /\ \A d \in {"match", "scrub", "rewrite"} : Call(d, "primary") \in ProgramCalls
    /\ \A n \in Names : Call("remove", n) \in ProgramCalls
    BY DEF Call, ProgramCalls

\* What a call does tells its key, or what it may be.
LEMMA KeysOfCalls ==
    ASSUME NEW c \in ProgramCalls
    PROVE  /\ c = Call(c.do, c.key)
           /\ \A d \in {"init", "disk", "resolve", "check", "list", "menu", "ui", "connect", "save", "demo"} :
                 c.do = d => c = Call(d, "all")
           /\ c.do = "marker" => c = Call("marker", "imported")
           /\ c.do = "ensure" => c.key \in {"theme", "primary", "tick"}
           /\ c.do = "set" => c.key \in SettingKeys
           /\ c.do = "hydrate" => c.key \in {"theme", "primary"}
           /\ c.do = "settings" => c.key \in {"theme", "tick"}
           /\ \A d \in {"match", "scrub", "rewrite"} : c.do = d => c = Call(d, "primary")
           /\ c.do = "remove" => c.key \in Names
    BY DEF Call, ProgramCalls

LEMMA ProgramConcat ==
    \A s, t \in Programs : /\ s \o t \in Programs
                          /\ \A c : Has(s \o t, c) <=> (Has(s, c) \/ Has(t, c))
    BY HasConcat, ConcatProperties DEF Programs

LEMMA TwoSettings ==
    \A d : Calls(d, ConfigKeys) = <<Call(d, "theme"), Call(d, "primary")>>
    <1> SUFFICES ASSUME NEW d PROVE Calls(d, ConfigKeys) = <<Call(d, "theme"), Call(d, "primary")>>
        OBVIOUS
    <1>1. Len(ConfigKeys) = 2 /\ ConfigKeys[1] = "theme" /\ ConfigKeys[2] = "primary"
        BY DEF ConfigKeys
    <1>2. Calls(d, ConfigKeys) = [i \in 1 .. 2 |-> Call(d, ConfigKeys[i])]
        BY <1>1 DEF Calls
    <1>3. [i \in 1 .. 2 |-> Call(d, ConfigKeys[i])] = <<Call(d, "theme"), Call(d, "primary")>>
        BY <1>1
    <1> QED
        BY <1>2, <1>3

LEMMA OneUiSetting == LoadUiSettings = <<Call("ensure", "tick")>>
    <1>1. Len(UiSettingKeys) = 1 /\ UiSettingKeys[1] = "tick"
        BY DEF UiSettingKeys
    <1>2. LoadUiSettings = [i \in 1 .. 1 |-> Call("ensure", UiSettingKeys[i])]
        BY <1>1 DEF Calls, LoadUiSettings
    <1>3. [i \in 1 .. 1 |-> Call("ensure", UiSettingKeys[i])] = <<Call("ensure", "tick")>>
        BY <1>1
    <1> QED
        BY <1>2, <1>3

\* After the configuration come only the UI settings and the menu, or the choice.
LEMMA AfterConfigCalls ==
    ASSUME NEW p
    PROVE  /\ AfterConfig(p) \in Programs
           /\ \A c : Has(AfterConfig(p), c) =>
                 c \in {Call("ensure", "tick"), Call("list", "all"), Call("resolve", "all")}
    <1> DEFINE last == IF proc[p].fromMainUi THEN Call("list", "all") ELSE Call("resolve", "all")
    <1>1. AfterConfig(p) = <<Call("ensure", "tick")>> \o <<last>>
        BY OneUiSetting DEF AfterConfig
    <1>2. last \in ProgramCalls /\ last \in {Call("list", "all"), Call("resolve", "all")}
        BY CallTypes
    <1> HIDE DEF last
    <1>3. <<Call("ensure", "tick")>> \in Programs /\ <<last>> \in Programs
        BY <1>2, CallTypes, OneCall DEF Programs
    <1>4. /\ <<Call("ensure", "tick")>> \o <<last>> \in Programs
          /\ \A c : Has(<<Call("ensure", "tick")>> \o <<last>>, c) <=>
                        (Has(<<Call("ensure", "tick")>>, c) \/ Has(<<last>>, c))
        BY <1>3, ProgramConcat
    <1>5. \A c : Has(<<Call("ensure", "tick")>> \o <<last>>, c) =>
                    c = Call("ensure", "tick") \/ c = last
        BY <1>4, HasOne
    <1> QED
        BY <1>1, <1>2, <1>4, <1>5

\* Before the import: config.toml is read, compared and written to the store.
LEMMA ImportCalls ==
    LET s == LoadConfig(FALSE)
    IN  /\ s \in Programs /\ Ordered(s)
        /\ \A c : Has(s, c) <=>
              c \in {Call("disk", "all"), Call("hydrate", "theme"), Call("hydrate", "primary"),
                     Call("match", "primary"), Call("set", "theme"), Call("set", "primary"),
                     Call("set", "imported"), Call("scrub", "primary")}
    <1> DEFINE a == <<Call("disk", "all")>>
               h == <<Call("hydrate", "theme"), Call("hydrate", "primary")>>
               m == <<Call("match", "primary")>>
               w == <<Call("set", "theme"), Call("set", "primary")>>
               e == <<Call("set", "imported"), Call("scrub", "primary")>>
    <1>1. LoadConfig(FALSE) = a \o h \o m \o w \o e
        <2>1. h = Calls("hydrate", ConfigKeys) /\ w = Calls("set", ConfigKeys)
            BY TwoSettings
        <2> HIDE DEF h, w
        <2> QED
            BY <2>1 DEF LoadConfig
    <1>2. a \in Programs /\ h \in Programs /\ m \in Programs /\ w \in Programs /\ e \in Programs
        BY CallTypes, OneCall, TwoCalls DEF Programs, SettingKeys
    <1>3. Ordered(a) /\ Ordered(h) /\ Ordered(m) /\ Ordered(w) /\ Ordered(e)
        <2>1. Ordered(a) /\ Ordered(m)
            BY OrderedOne
        <2>2. Ordered(h) /\ Ordered(w) /\ Ordered(e)
            BY OrderedTwo, Stages
        <2> QED
            BY <2>1, <2>2
    <1>4. \A c : /\ Has(a, c) <=> c = Call("disk", "all")
                 /\ Has(h, c) <=> c \in {Call("hydrate", "theme"), Call("hydrate", "primary")}
                 /\ Has(m, c) <=> c = Call("match", "primary")
                 /\ Has(w, c) <=> c \in {Call("set", "theme"), Call("set", "primary")}
                 /\ Has(e, c) <=> c \in {Call("set", "imported"), Call("scrub", "primary")}
        BY HasOne, HasTwo
    <1> HIDE DEF a, h, m, w, e
    <1>5. /\ a \o h \in Programs /\ Ordered(a \o h)
          /\ \A c : Has(a \o h, c) <=> Has(a, c) \/ Has(h, c)
        <2>1. a \o h \in Programs /\ \A c : Has(a \o h, c) <=> Has(a, c) \/ Has(h, c)
            BY <1>2, ProgramConcat
        <2>2. \A c, d : Has(a, c) /\ Has(h, d) /\ Stage(c) > 0 /\ Stage(d) > 0 => Stage(c) < Stage(d)
            BY <1>4, Stages
        <2> QED
            BY <1>2, <1>3, <2>1, <2>2, OrderedConcat DEF Programs
    <1>6. /\ a \o h \o m \in Programs /\ Ordered(a \o h \o m)
          /\ \A c : Has(a \o h \o m, c) <=> Has(a, c) \/ Has(h, c) \/ Has(m, c)
        <2>1. /\ a \o h \o m \in Programs
              /\ \A c : Has(a \o h \o m, c) <=> Has(a \o h, c) \/ Has(m, c)
            BY <1>2, <1>5, ProgramConcat
        <2>2. \A c, d : Has(a \o h, c) /\ Has(m, d) /\ Stage(c) > 0 /\ Stage(d) > 0 => Stage(c) < Stage(d)
            BY <1>4, <1>5, Stages
        <2>3. Ordered(a \o h \o m)
            BY <1>2, <1>3, <1>5, <2>2, OrderedConcat DEF Programs
        <2> QED
            BY <1>5, <2>1, <2>3
    <1>7. /\ a \o h \o m \o w \in Programs /\ Ordered(a \o h \o m \o w)
          /\ \A c : Has(a \o h \o m \o w, c) <=> Has(a, c) \/ Has(h, c) \/ Has(m, c) \/ Has(w, c)
        <2>1. /\ a \o h \o m \o w \in Programs
              /\ \A c : Has(a \o h \o m \o w, c) <=> Has(a \o h \o m, c) \/ Has(w, c)
            BY <1>2, <1>6, ProgramConcat
        <2>2. \A c, d : Has(a \o h \o m, c) /\ Has(w, d) /\ Stage(c) > 0 /\ Stage(d) > 0
                            => Stage(c) < Stage(d)
            BY <1>4, <1>6, Stages
        <2>3. Ordered(a \o h \o m \o w)
            BY <1>2, <1>3, <1>6, <2>2, OrderedConcat DEF Programs
        <2> QED
            BY <1>6, <2>1, <2>3
    <1>8. /\ a \o h \o m \o w \o e \in Programs /\ Ordered(a \o h \o m \o w \o e)
          /\ \A c : Has(a \o h \o m \o w \o e, c) <=>
                        Has(a, c) \/ Has(h, c) \/ Has(m, c) \/ Has(w, c) \/ Has(e, c)
        <2>1. /\ a \o h \o m \o w \o e \in Programs
              /\ \A c : Has(a \o h \o m \o w \o e, c) <=> Has(a \o h \o m \o w, c) \/ Has(e, c)
            BY <1>2, <1>7, ProgramConcat
        <2>2. \A c, d : Has(a \o h \o m \o w, c) /\ Has(e, d) /\ Stage(c) > 0 /\ Stage(d) > 0
                            => Stage(c) < Stage(d)
            BY <1>4, <1>7, Stages
        <2>3. Ordered(a \o h \o m \o w \o e)
            BY <1>2, <1>3, <1>7, <2>2, OrderedConcat DEF Programs
        <2> QED
            BY <1>7, <2>1, <2>3
    <1> QED
        BY <1>1, <1>4, <1>8

\* After it: the settings are ensured, then read back.
LEMMA ImportedCalls ==
    LET s == LoadConfig(TRUE)
    IN  /\ s \in Programs /\ Ordered(s)
        /\ \A c : Has(s, c) <=>
              c \in {Call("ensure", "theme"), Call("ensure", "primary"), Call("hydrate", "theme"),
                     Call("hydrate", "primary"), Call("scrub", "primary")}
    <1> DEFINE a == <<Call("ensure", "theme"), Call("ensure", "primary")>>
               h == <<Call("hydrate", "theme"), Call("hydrate", "primary")>>
               e == <<Call("scrub", "primary")>>
    <1>1. LoadConfig(TRUE) = a \o h \o e
        <2>1. a = Calls("ensure", ConfigKeys) /\ h = Calls("hydrate", ConfigKeys)
            BY TwoSettings
        <2> HIDE DEF a, h
        <2> QED
            BY <2>1 DEF LoadConfig
    <1>2. a \in Programs /\ h \in Programs /\ e \in Programs
        BY CallTypes, OneCall, TwoCalls DEF Programs
    <1>3. Ordered(a) /\ Ordered(h) /\ Ordered(e)
        <2>1. Ordered(e)
            BY OrderedOne
        <2>2. Ordered(a) /\ Ordered(h)
            BY OrderedTwo, Stages
        <2> QED
            BY <2>1, <2>2
    <1>4. \A c : /\ Has(a, c) <=> c \in {Call("ensure", "theme"), Call("ensure", "primary")}
                 /\ Has(h, c) <=> c \in {Call("hydrate", "theme"), Call("hydrate", "primary")}
                 /\ Has(e, c) <=> c = Call("scrub", "primary")
        BY HasOne, HasTwo
    <1> HIDE DEF a, h, e
    <1>5. /\ a \o h \in Programs /\ Ordered(a \o h)
          /\ \A c : Has(a \o h, c) <=> Has(a, c) \/ Has(h, c)
        <2>1. a \o h \in Programs /\ \A c : Has(a \o h, c) <=> Has(a, c) \/ Has(h, c)
            BY <1>2, ProgramConcat
        <2>2. \A c, d : Has(a, c) /\ Has(h, d) /\ Stage(c) > 0 /\ Stage(d) > 0 => Stage(c) < Stage(d)
            BY <1>4, Stages
        <2> QED
            BY <1>2, <1>3, <2>1, <2>2, OrderedConcat DEF Programs
    <1>6. /\ a \o h \o e \in Programs /\ Ordered(a \o h \o e)
          /\ \A c : Has(a \o h \o e, c) <=> Has(a, c) \/ Has(h, c) \/ Has(e, c)
        <2>1. /\ a \o h \o e \in Programs
              /\ \A c : Has(a \o h \o e, c) <=> Has(a \o h, c) \/ Has(e, c)
            BY <1>2, <1>5, ProgramConcat
        <2>2. \A c, d : Has(a \o h, c) /\ Has(e, d) /\ Stage(c) > 0 /\ Stage(d) > 0 => Stage(c) < Stage(d)
            BY <1>4, <1>5, Stages
        <2>3. Ordered(a \o h \o e)
            BY <1>2, <1>3, <1>5, <2>2, OrderedConcat DEF Programs
        <2> QED
            BY <1>5, <2>1, <2>3
    <1> QED
        BY <1>1, <1>4, <1>6
(***************************************************************************)
(* The store and the keyring.                                              *)
(***************************************************************************)
PrimaryRow == disk.settings["primary"]

\* A row that is encrypted is under the one key ever made.
ProfileRowOK(r) == r = Absent \/ r \in [val : Uris, key : {keyring}]
PrimaryRowOK(r) == r \in {Absent, Null} \/ r \in [val : Uris, key : {keyring}]

OneKey ==
    /\ keyring \in 0 .. MaxKeys /\ made = keyring
    /\ cache \in [Procs -> 0 .. MaxKeys]
    /\ \A p \in Procs : cache[p] \in {0, keyring}

DiskType == [version : {0, 3}, id : BOOLEAN, completed : BOOLEAN, keyInitialized : BOOLEAN,
             profiles : [Names -> Rows], settings : [SettingKeys -> SettingRows]]

\* What is encrypted can be read again, and the metadata says that it can.
Readable(d) ==
    /\ d \in DiskType
    /\ \A n \in Names : ProfileRowOK(d.profiles[n])
    /\ PrimaryRowOK(d.settings["primary"])
    /\ SensitiveRows(d) # {} => keyring # 0 /\ d.completed /\ d.keyInitialized

RowsOK == Readable(disk)

\* The transaction belongs to a process that has opened the store.
TxOK ==
    /\ tx \in [by : Procs \cup {NoProc}, key : 0 .. MaxKeys]
    /\ tx # NoTx => /\ tx.by \in Procs /\ tx.key = keyring /\ keyring # 0
                    /\ proc[tx.by].open
OpenOK == \A p \in Procs : proc[p].open => Encrypts(p) /\ disk.completed

(***************************************************************************)
(* The processes.                                                          *)
(***************************************************************************)
SettingVals == Uris \cup {"absent", "null", "default", "toml", "chosen", "true"}
ToldNames == Names \cup {"none", "primary"}
MaybeUri  == Uris \cup {"null"}

ConfigState == [imported : BOOLEAN, theme : SettingVals, primary : MaybeUri, given : MaybeUri,
                text : {"unset", "toml"}]
FormState   == [is : {"list", "form", "test"}, locked : BOOLEAN, name : ToldNames, uri : MaybeUri]
ChoiceState == [name : ToldNames, uri : MaybeUri, save : BOOLEAN, editing : BOOLEAN]
Listings    == [Names -> Uris \cup {"absent"}]

ProcState ==
    [todo : Programs, open : BOOLEAN, config : ConfigState, listed : Listings, form : FormState,
     choice : ChoiceState, fromMainUi : BOOLEAN]

ProcsOK == proc \in [Procs -> ProcState]

\* The call c is in what the process still has to do.
Ahead(p, c) == Has(proc[p].todo, c)

\* What a process is about to connect to is a string, what it is about to save
\* has connected, what it saves as the demo is named so.
ChoiceFits(r, connected) ==
    /\ Has(r.todo, Call("connect", "all")) => r.choice.uri \in Uris
    /\ Has(r.todo, Call("save", "all")) => r.choice.uri \in connected
    /\ Has(r.todo, Call("demo", "all")) =>
          r.choice.uri \in connected /\ r.choice.name = DemoName /\ r.choice.editing

ChoiceOK == \A p \in Procs : ChoiceFits(proc[p], reached)

BaseInv ==
    /\ OneKey /\ RowsOK /\ TxOK /\ OpenOK
    /\ ProcsOK /\ ChoiceOK /\ toml \in TomlFile /\ reached \subseteq Uris

(***************************************************************************)
(* Each process keeps its type, and a step changes one process.            *)
(***************************************************************************)
LEMMA EndedType == Ended \in ProcState
    <1>1. <<>> \in Programs
        BY EmptySeq DEF Programs
    <1>2. NoProfiles \in Listings
        BY DEF NoProfiles, Listings
    <1>3. NoConfig \in ConfigState /\ NoForm \in FormState /\ NoChoice \in ChoiceState
        BY DEF NoConfig, NoForm, NoChoice, ConfigState, FormState, ChoiceState, SettingVals, MaybeUri,
               ToldNames
    <1> QED
        BY <1>1, <1>2, <1>3 DEF Ended, ProcState

\* What every proof about a step of a process needs of its program.
LEMMA ProgramFacts ==
    ASSUME ProcsOK, NEW p \in Procs
    PROVE  /\ proc[p] \in ProcState /\ proc[p].todo \in Programs
           /\ Running(p) => /\ Head1(p) \in ProgramCalls /\ Rest(p) \in Programs
                            /\ \A c \in ProgramCalls : <<c>> \o Rest(p) \in Programs
           /\ \A c \in ProgramCalls : <<c>> \in Programs
           /\ \A c, d \in ProgramCalls : <<c, d>> \in Programs
    <1>1. proc[p] \in ProcState /\ proc[p].todo \in Programs
        BY DEF ProcsOK, ProcState
    <1>2. Running(p) => Head1(p) \in ProgramCalls /\ Rest(p) \in Programs
        BY <1>1, TailOf DEF Running, Head1, Rest, Programs
    <1>3. \A c \in ProgramCalls : <<c>> \in Programs
        BY OneCall DEF Programs
    <1>4. \A c, d \in ProgramCalls : <<c, d>> \in Programs
        BY TwoCalls DEF Programs
    <1>5. Running(p) => \A c \in ProgramCalls : <<c>> \o Rest(p) \in Programs
        BY <1>2, <1>3, ProgramConcat
    <1> QED
        BY <1>1, <1>2, <1>3, <1>4, <1>5

\* The process p becomes r, and no other changes.
Becomes(p, r) == proc' = [proc EXCEPT ![p] = r]
\* The process p, about to run the program s.
Then(p, s) == [proc[p] EXCEPT !.todo = s, !.open = FALSE]

LEMMA BecomesType ==
    ASSUME ProcsOK, NEW p \in Procs, NEW r \in ProcState, Becomes(p, r)
    PROVE  ProcsOK' /\ proc'[p] = r /\ \A q \in Procs \ {p} : proc'[q] = proc[q]
    BY DEF ProcsOK, Becomes

LEMMA ThenType ==
    ASSUME ProcsOK, NEW p \in Procs, NEW s \in Programs
    PROVE  /\ Then(p, s) \in ProcState
           /\ Then(p, s).todo = s /\ Then(p, s).open = FALSE
           /\ Then(p, s).config = proc[p].config /\ Then(p, s).listed = proc[p].listed
           /\ Then(p, s).form = proc[p].form /\ Then(p, s).choice = proc[p].choice
           /\ Then(p, s).fromMainUi = proc[p].fromMainUi
    <1>1. proc[p] \in ProcState
        BY DEF ProcsOK
    <1> QED
        BY <1>1 DEF ProcState, Then

LEMMA GotoBecomes ==
    ASSUME ProcsOK, NEW p \in Procs, NEW s \in Programs, proc' = Goto(p, s)
    PROVE  Becomes(p, Then(p, s))
    BY DEF ProcsOK, ProcState, Then, Becomes, Goto

LEMMA ExitType ==
    ASSUME ProcsOK, NEW p \in Procs, Exit(p)
    PROVE  Becomes(p, Ended) /\ Ended \in ProcState
    BY EndedType DEF Becomes, Exit

\* Steps that only go on with the program.
Advances(p) ==
    \/ InitStore(p) \/ MatchPrimary(p) \/ WriteSetting(p) \/ CommitPrimary(p) \/ CommitDemo(p)
    \/ SaveSetting(p) \/ SaveSettingFails(p)

LEMMA AdvancesType ==
    ASSUME ProcsOK, NEW p \in Procs, Advances(p)
    PROVE  /\ Running(p) /\ Becomes(p, Then(p, Rest(p))) /\ Rest(p) \in Programs
    <1>1. Running(p) /\ proc' = Goto(p, Rest(p))
        BY DEF Advances, InitStore, MatchPrimary, WriteSetting, CommitPrimary, CommitDemo, SaveSetting,
               SaveSettingFails, At, Ready, Advance
    <1>2. Rest(p) \in Programs
        BY <1>1, ProgramFacts
    <1> QED
        BY <1>1, <1>2, GotoBecomes

LEMMA EnsureType ==
    ASSUME ProcsOK, NEW p \in Procs, EnsureSetting(p)
    PROVE  /\ Running(p) /\ Rest(p) \in Programs
           /\ Head1(p).key \in {"theme", "primary", "tick"} /\ Head1(p) = Call("ensure", Head1(p).key)
           /\ \/ disk.settings[Head1(p).key] # Absent /\ Becomes(p, Then(p, Rest(p)))
              \/ /\ disk.settings[Head1(p).key] = Absent
                 /\ <<Call("set", Head1(p).key)>> \o Rest(p) \in Programs
                 /\ Becomes(p, Then(p, <<Call("set", Head1(p).key)>> \o Rest(p)))
    <1>1. Running(p) /\ Head1(p).do = "ensure"
        BY DEF EnsureSetting, At
    <1>2. Rest(p) \in Programs /\ Head1(p) \in ProgramCalls
        BY <1>1, ProgramFacts
    <1>3. Head1(p).key \in {"theme", "primary", "tick"} /\ Head1(p) = Call("ensure", Head1(p).key)
        BY <1>1, <1>2, KeysOfCalls
    <1>4. <<Call("set", Head1(p).key)>> \o Rest(p) \in Programs
        BY <1>1, <1>3, CallTypes, ProgramFacts DEF SettingKeys
    <1>5. \/ disk.settings[Head1(p).key] # Absent /\ proc' = Goto(p, Rest(p))
          \/ /\ disk.settings[Head1(p).key] = Absent
             /\ proc' = Goto(p, <<Call("set", Head1(p).key)>> \o Rest(p))
        BY DEF EnsureSetting, Advance
    <1> QED
        BY <1>1, <1>2, <1>3, <1>4, <1>5, GotoBecomes

LEMMA StartType ==
    ASSUME ProcsOK, NEW p \in Procs, Start(p), ~proc[p].open
    PROVE  Becomes(p, Then(p, Boot)) /\ Boot \in Programs
    <1>1. Boot \in Programs
        BY CallTypes, ProgramFacts DEF Boot
    <1>2. proc[p] \in ProcState /\ proc \in [Procs -> ProcState]
        BY DEF ProcsOK
    <1>3. [proc[p] EXCEPT !.todo = Boot] = Then(p, Boot)
        BY <1>2 DEF Then, ProcState
    <1>4. proc' = [proc EXCEPT ![p] = [proc[p] EXCEPT !.todo = Boot]]
        BY <1>2 DEF Start
    <1> QED
        BY <1>1, <1>3, <1>4 DEF Becomes

LEMMA OpenType ==
    ASSUME ProcsOK, NEW p \in Procs, OpenCall(p)
    PROVE  /\ Becomes(p, [proc[p] EXCEPT !.open = TRUE])
           /\ [proc[p] EXCEPT !.open = TRUE] \in ProcState
    BY DEF OpenCall, Open, Becomes, ProcsOK, ProcState

\* Steps that go to a program of their own.
LEMMA GoesType ==
    ASSUME ProcsOK, NEW p \in Procs
    PROVE  /\ ResolveMenu(p) => /\ Becomes(p, Then(p, <<Call("list", "all")>>))
                                /\ <<Call("list", "all")>> \in Programs
           /\ DeleteSelected(p) => \E n \in Names :
                /\ Becomes(p, Then(p, <<Call("remove", n), Call("menu", "all")>>))
                /\ <<Call("remove", n), Call("menu", "all")>> \in Programs
           /\ Connect(p) =>
                \/ /\ Becomes(p, Then(p, <<Call("save", "all"), Call("ui", "all")>>))
                   /\ <<Call("save", "all"), Call("ui", "all")>> \in Programs
                \/ /\ Becomes(p, Then(p, <<Call("ui", "all")>>))
                   /\ <<Call("ui", "all")>> \in Programs
           /\ ChooseSetting(p) => \E k \in {"theme", "tick"} :
                /\ Becomes(p, Then(p, <<Call("settings", k), Call("ui", "all")>>))
                /\ <<Call("settings", k), Call("ui", "all")>> \in Programs
    <1>1. ASSUME ResolveMenu(p)
          PROVE  /\ Becomes(p, Then(p, <<Call("list", "all")>>))
                 /\ <<Call("list", "all")>> \in Programs
        <2>1. <<Call("list", "all")>> \in Programs
            BY CallTypes, ProgramFacts
        <2> QED
            BY <1>1, <2>1, GotoBecomes DEF ResolveMenu
    <1>2. ASSUME DeleteSelected(p)
          PROVE  \E n \in Names :
                /\ Becomes(p, Then(p, <<Call("remove", n), Call("menu", "all")>>))
                /\ <<Call("remove", n), Call("menu", "all")>> \in Programs
        <2>1. PICK n \in Names : proc' = Goto(p, <<Call("remove", n), Call("menu", "all")>>)
            BY <1>2 DEF DeleteSelected, Listed
        <2>2. <<Call("remove", n), Call("menu", "all")>> \in Programs
            BY CallTypes, ProgramFacts
        <2> QED
            BY <2>1, <2>2, GotoBecomes
    <1>3. ASSUME Connect(p)
          PROVE \/ /\ Becomes(p, Then(p, <<Call("save", "all"), Call("ui", "all")>>))
                   /\ <<Call("save", "all"), Call("ui", "all")>> \in Programs
                \/ /\ Becomes(p, Then(p, <<Call("ui", "all")>>))
                   /\ <<Call("ui", "all")>> \in Programs
        <2>1. /\ <<Call("save", "all"), Call("ui", "all")>> \in Programs
              /\ <<Call("ui", "all")>> \in Programs
            BY CallTypes, ProgramFacts
        <2>2. \/ proc' = Goto(p, <<Call("save", "all"), Call("ui", "all")>>)
              \/ proc' = Goto(p, <<Call("ui", "all")>>)
            BY <1>3 DEF Connect
        <2> QED
            BY <2>1, <2>2, GotoBecomes
    <1>4. ASSUME ChooseSetting(p)
          PROVE  \E k \in {"theme", "tick"} :
                /\ Becomes(p, Then(p, <<Call("settings", k), Call("ui", "all")>>))
                /\ <<Call("settings", k), Call("ui", "all")>> \in Programs
        <2>1. PICK k \in {"theme", "tick"} :
                    proc' = Goto(p, <<Call("settings", k), Call("ui", "all")>>)
            BY <1>4 DEF ChooseSetting
        <2>2. <<Call("settings", k), Call("ui", "all")>> \in Programs
            BY CallTypes, ProgramFacts
        <2> QED
            BY <2>1, <2>2, GotoBecomes
    <1> QED
        BY <1>1, <1>2, <1>3, <1>4

\* The process with all it consists of, in between two calls of the store.
Process(p, s, c, l, f, ch, m) ==
    [proc[p] EXCEPT !.todo = s, !.open = FALSE, !.config = c, !.listed = l, !.form = f,
                    !.choice = ch, !.fromMainUi = m]

LEMMA PartTypes ==
    ASSUME ProcsOK, NEW p \in Procs
    PROVE  /\ proc \in [Procs -> ProcState] /\ proc[p] \in ProcState
           /\ proc[p].todo \in Programs /\ proc[p].open \in BOOLEAN /\ proc[p].config \in ConfigState
           /\ proc[p].listed \in Listings /\ proc[p].form \in FormState
           /\ proc[p].choice \in ChoiceState /\ proc[p].fromMainUi \in BOOLEAN
    BY DEF ProcsOK, ProcState

\* The configuration is read: from its marker, from config.toml, from the store.
LEMMA MarkerType ==
    ASSUME ProcsOK, NEW p \in Procs, ReadMarker(p), ~proc[p].open
    PROVE  LET b == disk.settings["imported"] = Plain("true")
               s == LoadConfig(b) \o AfterConfig(p)
               c == [NoConfig EXCEPT !.imported = b]
           IN  /\ s \in Programs /\ c \in ConfigState
               /\ Becomes(p, Process(p, s, c, proc[p].listed, proc[p].form, proc[p].choice,
                                     proc[p].fromMainUi))
    <1> DEFINE b == disk.settings["imported"] = Plain("true")
               s == LoadConfig(b) \o AfterConfig(p)
               c == [NoConfig EXCEPT !.imported = b]
    <1>1. LoadConfig(b) \in Programs
        <2>1. CASE b
            BY <2>1, ImportedCalls
        <2>2. CASE ~b
            BY <2>2, ImportCalls
        <2> QED
            BY <2>1, <2>2
    <1>2. s \in Programs
        BY <1>1, AfterConfigCalls, ProgramConcat
    <1>3. b \in BOOLEAN /\ c \in ConfigState
        BY DEF ConfigState, NoConfig, SettingVals, MaybeUri
    <1>4. proc' = [proc EXCEPT ![p].todo = s, ![p].config = c]
        BY DEF ReadMarker
    <1> HIDE DEF s, c, b
    <1>o. proc[p].open = FALSE
        BY PartTypes
    <1>5. [proc[p] EXCEPT !.todo = s, !.config = c]
              = Process(p, s, c, proc[p].listed, proc[p].form, proc[p].choice, proc[p].fromMainUi)
        BY <1>o, PartTypes DEF ProcState, Process
    <1>6. proc' = [proc EXCEPT ![p] = [proc[p] EXCEPT !.todo = s, !.config = c]]
        BY <1>4, PartTypes
    <1>7. Becomes(p, Process(p, s, c, proc[p].listed, proc[p].form, proc[p].choice, proc[p].fromMainUi))
        BY <1>5, <1>6 DEF Becomes
    <1> QED
        BY <1>2, <1>3, <1>7 DEF s, c, b

LEMMA TomlTypes ==
    ASSUME toml \in TomlFile
    PROVE  /\ toml.theme \in {"unset", "toml"} /\ toml.primary \in MaybeUri
           /\ TomlTheme = toml.theme /\ TomlPrimary = toml.primary
    BY DEF TomlFile, MaybeUri, TomlTheme, TomlPrimary

\* Steps that change the configuration the process has and go on.
Reads(p, c) == Becomes(p, Process(p, Rest(p), c, proc[p].listed, proc[p].form, proc[p].choice,
                                  proc[p].fromMainUi))

LEMMA ConfigType ==
    ASSUME ProcsOK, NEW p \in Procs, Running(p), NEW c \in ConfigState,
           proc' = [Advance(p) EXCEPT ![p].config = c]
    PROVE  Reads(p, c) /\ Rest(p) \in Programs
    <1>1. Rest(p) \in Programs
        BY ProgramFacts
    <1>2. proc' = [proc EXCEPT ![p] = [proc[p] EXCEPT !.todo = Rest(p), !.open = FALSE, !.config = c]]
        BY <1>1, PartTypes DEF Advance, Goto
    <1>3. [proc[p] EXCEPT !.todo = Rest(p), !.open = FALSE, !.config = c]
             = Process(p, Rest(p), c, proc[p].listed, proc[p].form, proc[p].choice, proc[p].fromMainUi)
        BY PartTypes DEF ProcState, Process
    <1> QED
        BY <1>1, <1>2, <1>3 DEF Becomes, Reads

LEMMA DiskReadType ==
    ASSUME ProcsOK, toml \in TomlFile, NEW p \in Procs, LoadFromDisk(p)
    PROVE  \E c \in ConfigState : /\ Running(p) /\ Rest(p) \in Programs /\ Reads(p, c)
                                  /\ c.primary = toml.primary
    <1> DEFINE t == IF TomlTheme = "unset" THEN "default" ELSE TomlTheme
               c == [proc[p].config EXCEPT !.theme = t, !.primary = TomlPrimary, !.given = TomlPrimary]
    <1>1. Running(p)
        BY DEF LoadFromDisk, At
    <1>2. t \in SettingVals /\ TomlPrimary \in MaybeUri /\ TomlPrimary = toml.primary
        BY TomlTypes DEF SettingVals
    <1>3. proc' = [Advance(p) EXCEPT ![p].config.theme = t, ![p].config.primary = TomlPrimary,
                                     ![p].config.given = TomlPrimary]
        BY DEF LoadFromDisk
    <1> HIDE DEF t
    <1>4. c \in ConfigState /\ c.primary = TomlPrimary
        BY <1>2, PartTypes DEF ConfigState
    <1>5. Advance(p) \in [Procs -> ProcState] /\ Advance(p)[p].config = proc[p].config
        BY <1>1, ProgramFacts, PartTypes DEF Advance, Goto, ProcState
    <1>6. proc' = [Advance(p) EXCEPT ![p].config = c]
        BY <1>3, <1>5 DEF ProcState
    <1> QED
        BY <1>1, <1>2, <1>4, <1>6, ConfigType

LEMMA HydrateType ==
    ASSUME ProcsOK, RowsOK, NEW p \in Procs, Hydrate(p)
    PROVE  /\ Running(p) /\ Rest(p) \in Programs /\ Head1(p) = Call("hydrate", Head1(p).key)
           /\ \E c \in ConfigState :
                 /\ Reads(p, c)
                 /\ IF Head1(p).key = "primary" /\ PrimaryRow # Absent
                    THEN c.primary = PrimaryRow.val
                    ELSE c.primary = proc[p].config.primary
    <1> DEFINE k == Head1(p).key
               row == disk.settings[k]
    <1>1. Running(p) /\ Head1(p).do = "hydrate"
        BY DEF Hydrate, At
    <1>2. /\ Head1(p) = Call("hydrate", k) /\ k \in {"theme", "primary"} /\ Rest(p) \in Programs
        BY <1>1, ProgramFacts, KeysOfCalls
    <1>3. row.val \in SettingVals /\ (k = "primary" /\ row # Absent => row.val \in MaybeUri)
        BY <1>2 DEF RowsOK, Readable, DiskType, SettingKeys, SettingRows, SettingVals, PrimaryRowOK, PrimaryRow,
                    Null, Plain, MaybeUri
    <1>4. \/ row = Absent /\ proc' = Advance(p)
          \/ row # Absent /\ proc' = [Advance(p) EXCEPT ![p].config[k] = row.val]
        BY DEF Hydrate
    <1>5. Advance(p) \in [Procs -> ProcState] /\ Advance(p)[p].config = proc[p].config
        BY <1>1, ProgramFacts, PartTypes DEF Advance, Goto, ProcState
    <1>6. CASE row = Absent
        <2>1. proc' = [Advance(p) EXCEPT ![p].config = proc[p].config]
            BY <1>4, <1>5, <1>6 DEF ProcState
        <2> QED
            BY <1>1, <1>2, <1>6, <2>1, ConfigType, PartTypes DEF PrimaryRow
    <1>7. CASE row # Absent
        <2> DEFINE c == [proc[p].config EXCEPT ![k] = row.val]
        <2>1. c \in ConfigState /\ c.primary = IF k = "primary" THEN row.val ELSE proc[p].config.primary
            <3>1. CASE k = "theme"
                BY <1>3, <3>1, PartTypes DEF ConfigState
            <3>2. CASE k = "primary"
                BY <1>3, <1>7, <3>2, PartTypes DEF ConfigState
            <3> QED
                BY <1>2, <3>1, <3>2
        <2>2. proc' = [Advance(p) EXCEPT ![p].config = c]
            BY <1>4, <1>5, <1>7 DEF ProcState
        <2> HIDE DEF c
        <2> QED
            BY <1>1, <1>2, <1>7, <2>1, <2>2, ConfigType DEF PrimaryRow
    <1> QED
        BY <1>6, <1>7

LEMMA LoadedType ==
    ASSUME ProcsOK, NEW p \in Procs, ScrubNothing(p) \/ ScrubWrites(p)
    PROVE  /\ Running(p) /\ Rest(p) \in Programs
           /\ \E c \in ConfigState : Reads(p, c) /\ c.primary = proc[p].config.primary
    <1> DEFINE c == [NoConfig EXCEPT !.primary = proc[p].config.primary]
    <1>1. Running(p) /\ proc' = [Advance(p) EXCEPT ![p].config = c]
        BY DEF ScrubNothing, ScrubWrites, Loaded, At
    <1>0. proc[p].config.primary \in MaybeUri
        BY PartTypes DEF ConfigState
    <1>2. c \in ConfigState /\ c.primary = proc[p].config.primary
        BY <1>0 DEF ConfigState, NoConfig, SettingVals, MaybeUri
    <1> QED
        BY <1>1, <1>2, ConfigType

LEMMA TruncateType ==
    ASSUME ProcsOK, toml \in TomlFile, NEW p \in Procs, ScrubTruncates(p)
    PROVE  LET s == <<Call("rewrite", "primary")>> \o Rest(p)
           IN  /\ Running(p) /\ Rest(p) \in Programs /\ s \in Programs
               /\ \E c \in ConfigState :
                    /\ Becomes(p, Process(p, s, c, proc[p].listed, proc[p].form, proc[p].choice,
                                          proc[p].fromMainUi))
                    /\ c.primary = proc[p].config.primary
    <1> DEFINE s == <<Call("rewrite", "primary")>> \o Rest(p)
               c == [proc[p].config EXCEPT !.text = toml.theme]
    <1>1. Running(p)
        BY DEF ScrubTruncates, At
    <1>2. Rest(p) \in Programs /\ s \in Programs
        BY <1>1, ProgramFacts, CallTypes
    <1>3. c \in ConfigState /\ c.primary = proc[p].config.primary
        BY PartTypes, TomlTypes DEF ConfigState
    <1>4. proc' = [Goto(p, s) EXCEPT ![p].config.text = toml.theme]
        BY DEF ScrubTruncates
    <1> HIDE DEF s
    <1>5. Goto(p, s) = [proc EXCEPT ![p] = Then(p, s)] /\ Then(p, s).config = proc[p].config
        BY <1>2, PartTypes DEF Goto, Then, ProcState
    <1>6. proc' = [proc EXCEPT ![p] = [Then(p, s) EXCEPT !.config = c]]
        BY <1>4, <1>5, <1>2, ThenType, PartTypes DEF ProcState
    <1>7. [Then(p, s) EXCEPT !.config = c]
             = Process(p, s, c, proc[p].listed, proc[p].form, proc[p].choice, proc[p].fromMainUi)
        BY <1>2, PartTypes DEF ProcState, Process, Then
    <1>8. Becomes(p, Process(p, s, c, proc[p].listed, proc[p].form, proc[p].choice, proc[p].fromMainUi))
        BY <1>6, <1>7 DEF Becomes
    <1> HIDE DEF c
    <1> QED
        BY <1>1, <1>2, <1>3, <1>8 DEF s

\* The choice of a connection.
LEMMA ChooseType ==
    ASSUME ProcsOK, NEW p \in Procs, NEW s \in Programs, NEW c \in ChoiceState,
           proc' = [Goto(p, s) EXCEPT ![p].choice = c]
    PROVE  Becomes(p, Process(p, s, proc[p].config, proc[p].listed, proc[p].form, c,
                              proc[p].fromMainUi))
    <1>1. proc' = [proc EXCEPT ![p] = [proc[p] EXCEPT !.todo = s, !.open = FALSE, !.choice = c]]
        BY PartTypes DEF Goto
    <1>2. [proc[p] EXCEPT !.todo = s, !.open = FALSE, !.choice = c]
             = Process(p, s, proc[p].config, proc[p].listed, proc[p].form, c, proc[p].fromMainUi)
        BY PartTypes DEF ProcState, Process
    <1> QED
        BY <1>1, <1>2 DEF Becomes

LEMMA ResolveType ==
    ASSUME ProcsOK, RowsOK, NEW p \in Procs, ResolveDirect(p)
    PROVE  \E c \in ChoiceState :
                /\ <<Call("check", "all")>> \in Programs
                /\ Becomes(p, Process(p, <<Call("check", "all")>>, proc[p].config, proc[p].listed,
                                      proc[p].form, c, proc[p].fromMainUi))
    <1>1. PICK c \in DirectChoices(p) : proc' = [Goto(p, <<Call("check", "all")>>) EXCEPT ![p].choice = c]
        BY DEF ResolveDirect
    <1>2. <<Call("check", "all")>> \in Programs
        BY ProgramFacts, CallTypes
    <1>3. proc[p].config.primary \in MaybeUri
        BY PartTypes DEF ConfigState
    <1>4. \A n \in Names : disk.profiles[n] # Absent => disk.profiles[n].val \in MaybeUri
        BY DEF RowsOK, Readable, ProfileRowOK, MaybeUri
    <1>5. c \in ChoiceState
        <2>1. CASE \E u \in Uris : c = Choice("primary", u, FALSE, FALSE)
            BY <2>1 DEF MaybeUri, ToldNames, Choice, ChoiceState
        <2>2. CASE \E n \in Names : disk.profiles[n] # Absent
                                    /\ c = Choice(n, disk.profiles[n].val, FALSE, TRUE)
            BY <1>4, <2>2 DEF ToldNames, Choice, ChoiceState
        <2>3. CASE c = Choice("primary", proc[p].config.primary, FALSE, FALSE)
            BY <1>3, <2>3 DEF ToldNames, Choice, ChoiceState
        <2> QED
            BY <1>1, <2>1, <2>2, <2>3 DEF DirectChoices
    <1> QED
        BY <1>1, <1>2, <1>5, ChooseType

LEMMA ListType ==
    ASSUME ProcsOK, RowsOK, NEW p \in Procs, ListProfiles(p) \/ ListUnreadable(p)
    PROVE  \E l \in Listings :
                /\ <<Call("menu", "all")>> \in Programs
                /\ Becomes(p, Process(p, <<Call("menu", "all")>>, proc[p].config, l, proc[p].form,
                                      proc[p].choice, proc[p].fromMainUi))
    <1> DEFINE s == <<Call("menu", "all")>>
    <1>1. s \in Programs
        BY ProgramFacts, CallTypes
    <1>2. NoProfiles \in Listings
        BY DEF NoProfiles, Listings
    <1>3. [n \in Names |-> disk.profiles[n].val] \in Listings
        BY DEF RowsOK, Readable, ProfileRowOK, Listings, Absent
    <1>4. PICK l \in Listings : proc' = [Goto(p, s) EXCEPT ![p].listed = l]
        BY <1>2, <1>3 DEF ListProfiles, ListUnreadable
    <1> HIDE DEF s
    <1>5. proc' = [proc EXCEPT ![p] = [proc[p] EXCEPT !.todo = s, !.open = FALSE, !.listed = l]]
        BY <1>1, <1>4, PartTypes DEF Goto
    <1>6. [proc[p] EXCEPT !.todo = s, !.open = FALSE, !.listed = l]
             = Process(p, s, proc[p].config, l, proc[p].form, proc[p].choice, proc[p].fromMainUi)
        BY PartTypes DEF ProcState, Process
    <1> QED
        BY <1>1, <1>5, <1>6 DEF Becomes, s

\* The menu returns with a program and a choice.
Leaves(p, s, c) ==
    Becomes(p, Process(p, s, proc[p].config, NoProfiles, NoForm, c, proc[p].fromMainUi))

LEMMA NothingShown == NoProfiles \in Listings /\ NoForm \in FormState
    BY DEF NoProfiles, Listings, NoForm, FormState, ToldNames, MaybeUri

LEMMA LeaveType ==
    ASSUME ProcsOK, NEW p \in Procs, NEW s \in Programs, NEW c \in ChoiceState,
           proc' = LeaveMenu(p, s, c)
    PROVE  Leaves(p, s, c)
    <1>1. proc' = [proc EXCEPT ![p] = [proc[p] EXCEPT !.todo = s, !.open = FALSE,
                                        !.listed = NoProfiles, !.form = NoForm, !.choice = c]]
        BY PartTypes DEF Goto, LeaveMenu
    <1>2. [proc[p] EXCEPT !.todo = s, !.open = FALSE, !.listed = NoProfiles, !.form = NoForm, !.choice = c]
             = Process(p, s, proc[p].config, NoProfiles, NoForm, c, proc[p].fromMainUi)
        BY PartTypes, NothingShown DEF ProcState, Process
    <1> QED
        BY <1>1, <1>2 DEF Becomes, Leaves

LEMMA MenuType ==
    ASSUME ProcsOK, NEW p \in Procs
    PROVE  /\ ActivateSelected(p) \/ Submit(p) =>
                \E c \in ChoiceState : /\ c.uri \in Uris /\ <<Call("connect", "all")>> \in Programs
                                       /\ Leaves(p, <<Call("connect", "all")>>, c)
           /\ GenerateTestData(p) =>
                \E c \in ChoiceState :
                    /\ c.uri \in Uris /\ c.uri \in reached' /\ c.name = DemoName /\ c.editing
                    /\ <<Call("demo", "all"), Call("connect", "all")>> \in Programs
                    /\ Leaves(p, <<Call("demo", "all"), Call("connect", "all")>>, c)
    <1>1. <<Call("connect", "all")>> \in Programs /\ <<Call("demo", "all"), Call("connect", "all")>> \in Programs
        BY ProgramFacts, CallTypes
    <1>2. ASSUME ActivateSelected(p)
          PROVE  \E c \in ChoiceState : c.uri \in Uris /\ Leaves(p, <<Call("connect", "all")>>, c)
        <2>1. PICK n \in Names : /\ proc[p].listed[n] # "absent"
                                 /\ proc' = LeaveMenu(p, <<Call("connect", "all")>>,
                                                      Choice(n, proc[p].listed[n], FALSE, TRUE))
            BY <1>2 DEF ActivateSelected, Listed
        <2>2. proc[p].listed[n] \in Uris
            BY <2>1, PartTypes DEF Listings
        <2>3. /\ Choice(n, proc[p].listed[n], FALSE, TRUE) \in ChoiceState
              /\ Choice(n, proc[p].listed[n], FALSE, TRUE).uri = proc[p].listed[n]
            BY <2>2 DEF ToldNames, MaybeUri, Choice, ChoiceState
        <2> QED
            BY <1>1, <2>1, <2>2, <2>3, LeaveType
    <1>3. ASSUME Submit(p)
          PROVE  \E c \in ChoiceState : c.uri \in Uris /\ Leaves(p, <<Call("connect", "all")>>, c)
        <2>1. PICK n \in Names, u \in Uris :
                proc' = LeaveMenu(p, <<Call("connect", "all")>>, Choice(n, u, TRUE, proc[p].form.locked))
            BY <1>3 DEF Submit
        <2>2. proc[p].form.locked \in BOOLEAN
            BY PartTypes DEF FormState
        <2>3. /\ Choice(n, u, TRUE, proc[p].form.locked) \in ChoiceState
              /\ Choice(n, u, TRUE, proc[p].form.locked).uri = u
            BY <2>2 DEF ToldNames, MaybeUri, Choice, ChoiceState
        <2> QED
            BY <1>1, <2>1, <2>3, LeaveType
    <1>4. ASSUME GenerateTestData(p)
          PROVE  \E c \in ChoiceState :
                    /\ c.uri \in Uris /\ c.uri \in reached' /\ c.name = DemoName /\ c.editing
                    /\ Leaves(p, <<Call("demo", "all"), Call("connect", "all")>>, c)
        <2>1. PICK u \in Uris :
                /\ u \in reached'
                /\ proc' = LeaveMenu(p, <<Call("demo", "all"), Call("connect", "all")>>,
                                     Choice(DemoName, u, FALSE, TRUE))
            BY <1>4 DEF GenerateTestData
        <2>2. LET c == Choice(DemoName, u, FALSE, TRUE)
              IN  c \in ChoiceState /\ c.uri = u /\ c.name = DemoName /\ c.editing
            BY StartupAssumption DEF ToldNames, MaybeUri, Choice, ChoiceState
        <2> QED
            BY <1>1, <2>1, <2>2, LeaveType
    <1> QED
        BY <1>1, <1>2, <1>3, <1>4

LEMMA FormType ==
    ASSUME ProcsOK, NEW p \in Procs, OpenForm(p) \/ BackToList(p), ~proc[p].open
    PROVE  \E f \in FormState :
                Becomes(p, Process(p, proc[p].todo, proc[p].config, proc[p].listed, f, proc[p].choice,
                                   proc[p].fromMainUi))
    <1>1. \A n \in Listed(p) : n \in Names /\ proc[p].listed[n] \in MaybeUri
        BY PartTypes DEF Listed, Listings, MaybeUri
    <1>2. NoForm \in FormState /\ Form(FALSE, "none", "null") \in FormState
          /\ [NoForm EXCEPT !.is = "test"] \in FormState
        BY DEF NoForm, Form, FormState, ToldNames, MaybeUri
    <1>3. \A n \in Listed(p) : Form(TRUE, n, proc[p].listed[n]) \in FormState
        BY <1>1 DEF Form, FormState, ToldNames
    <1>4. PICK f \in FormState : proc' = [proc EXCEPT ![p].form = f]
        BY <1>2, <1>3 DEF OpenForm, BackToList
    <1>5. proc' = [proc EXCEPT ![p] = [proc[p] EXCEPT !.form = f]]
        BY <1>4, PartTypes
    <1>6. proc[p].open = FALSE
        BY PartTypes
    <1>7. [proc[p] EXCEPT !.form = f]
             = Process(p, proc[p].todo, proc[p].config, proc[p].listed, f, proc[p].choice,
                       proc[p].fromMainUi)
        BY <1>6, PartTypes DEF ProcState, Process
    <1> QED
        BY <1>5, <1>7 DEF Becomes

LEMMA RemoveType ==
    ASSUME ProcsOK, NEW p \in Procs, RemoveProfile(p)
    PROVE  \E l \in Listings :
                /\ Running(p) /\ Rest(p) \in Programs
                /\ Becomes(p, Process(p, Rest(p), proc[p].config, l, proc[p].form, proc[p].choice,
                                      proc[p].fromMainUi))
    <1> DEFINE l == [proc[p].listed EXCEPT ![Head1(p).key] = "absent"]
    <1>1. Running(p) /\ Rest(p) \in Programs
        BY ProgramFacts DEF RemoveProfile, At
    <1>2. l \in Listings
        BY PartTypes DEF Listings
    <1>3. proc' = [Advance(p) EXCEPT ![p].listed[Head1(p).key] = "absent"]
        BY DEF RemoveProfile
    <1>4. Advance(p) = [proc EXCEPT ![p] = Then(p, Rest(p))] /\ Then(p, Rest(p)).listed = proc[p].listed
        BY <1>1, PartTypes DEF Advance, Goto, Then, ProcState
    <1>5. proc' = [proc EXCEPT ![p] = [Then(p, Rest(p)) EXCEPT !.listed = l]]
        BY <1>1, <1>3, <1>4, ThenType, PartTypes DEF ProcState
    <1>6. [Then(p, Rest(p)) EXCEPT !.listed = l]
             = Process(p, Rest(p), proc[p].config, l, proc[p].form, proc[p].choice, proc[p].fromMainUi)
        BY <1>1, PartTypes DEF ProcState, Process, Then
    <1> QED
        BY <1>1, <1>2, <1>5, <1>6 DEF Becomes

LEMMA RecoverType ==
    ASSUME ProcsOK, NEW p \in Procs, Recover(p)
    PROVE  \E f \in FormState :
                /\ <<Call("list", "all")>> \in Programs
                /\ Becomes(p, Process(p, <<Call("list", "all")>>, proc[p].config, proc[p].listed, f,
                                      proc[p].choice, TRUE))
    <1> DEFINE c == proc[p].choice
               f == Form(c.editing, c.name, c.uri)
               s == <<Call("list", "all")>>
    <1>1. s \in Programs
        BY ProgramFacts, CallTypes
    <1>2. f \in FormState
        BY PartTypes DEF FormState, ChoiceState, Form
    <1>3. proc' = [Goto(p, s) EXCEPT ![p].form = f, ![p].fromMainUi = TRUE]
        BY DEF Recover, Recovered
    <1> HIDE DEF s, f
    <1>4. proc' = [proc EXCEPT ![p] = [proc[p] EXCEPT !.todo = s, !.open = FALSE, !.form = f,
                                                      !.fromMainUi = TRUE]]
        BY <1>1, <1>3, PartTypes DEF Goto
    <1>5. [proc[p] EXCEPT !.todo = s, !.open = FALSE, !.form = f, !.fromMainUi = TRUE]
             = Process(p, s, proc[p].config, proc[p].listed, f, proc[p].choice, TRUE)
        BY PartTypes DEF ProcState, Process
    <1> QED
        BY <1>1, <1>2, <1>4, <1>5 DEF Becomes, s

LEMMA SavedType ==
    ASSUME ProcsOK, NEW p \in Procs, CommitProfile(p)
    PROVE  \E c \in ChoiceState :
                /\ Running(p) /\ Rest(p) \in Programs
                /\ c.uri = proc[p].choice.uri /\ c.name = proc[p].choice.name /\ c.editing
                /\ Becomes(p, Process(p, Rest(p), proc[p].config, proc[p].listed, proc[p].form, c,
                                      proc[p].fromMainUi))
    <1> DEFINE c == Choice(proc[p].choice.name, proc[p].choice.uri, FALSE, TRUE)
    <1>1. Running(p) /\ Rest(p) \in Programs
        BY ProgramFacts DEF CommitProfile, Ready, At
    <1>2. /\ c \in ChoiceState /\ c.uri = proc[p].choice.uri /\ c.name = proc[p].choice.name /\ c.editing
        BY PartTypes DEF ChoiceState, Choice
    <1>3. proc' = [Goto(p, Rest(p)) EXCEPT ![p].choice = c]
        BY DEF CommitProfile, Advance
    <1> HIDE DEF c
    <1> QED
        BY <1>1, <1>2, <1>3, ChooseType

LEMMA BackType ==
    ASSUME ProcsOK, NEW p \in Procs, BackToProfiles(p)
    PROVE  /\ BackToMenu \in Programs
           /\ \E r \in ProcState : Becomes(p, r) /\ r.todo = BackToMenu /\ r.open = FALSE
    <1> DEFINE r == [Ended EXCEPT !.todo = BackToMenu, !.fromMainUi = TRUE]
    <1>1. BackToMenu \in Programs
        BY ProgramFacts, CallTypes DEF BackToMenu
    <1>2. Ended \in ProcState /\ Ended.open = FALSE
        BY EndedType DEF Ended
    <1>3. r \in ProcState /\ r.todo = BackToMenu /\ r.open = FALSE
        BY <1>1, <1>2 DEF ProcState
    <1>4. Becomes(p, r)
        BY DEF BackToProfiles, Becomes
    <1> HIDE DEF r
    <1> QED
        BY <1>1, <1>3, <1>4

(***************************************************************************)
(* The calls of the store.                                                 *)
(***************************************************************************)
LEMMA Sensitive ==
    ASSUME NEW d
    PROVE  SensitiveRows(d) # {} <=> \/ \E n \in Names : d.profiles[n] # Absent
                                     \/ d.settings["primary"] \notin {Absent, Null}
    BY DEF SensitiveRows, ProfileRows, PrimaryRows

LEMMA SchemaKeeps ==
    ASSUME NEW d \in DiskType
    PROVE  LET e == CurrentSchema(d)
           IN  /\ e \in DiskType /\ e.profiles = d.profiles /\ e.settings = d.settings
               /\ e.completed = d.completed /\ e.keyInitialized = d.keyInitialized
               /\ SensitiveRows(e) = SensitiveRows(d)
    BY DEF DiskType, CurrentSchema, SensitiveRows, ProfileRows, PrimaryRows

\* Opening the store changes no row, and it is marked encrypted from then on.
LEMMA OpenedKeeps ==
    ASSUME RowsOK
    PROVE  /\ Opened \in DiskType /\ Opened.profiles = disk.profiles
           /\ Opened.settings = disk.settings /\ Opened.completed
           /\ Opened.keyInitialized = disk.keyInitialized
           /\ SensitiveRows(Opened) = SensitiveRows(disk)
    <1> DEFINE e == CurrentSchema(disk)
    <1>1. /\ e \in DiskType /\ e.profiles = disk.profiles /\ e.settings = disk.settings
          /\ e.completed = disk.completed /\ e.keyInitialized = disk.keyInitialized
          /\ SensitiveRows(e) = SensitiveRows(disk)
        BY SchemaKeeps DEF RowsOK, Readable
    <1> HIDE DEF e
    <1>2. Opened = IF SensitiveRows(e) = {} THEN [[e EXCEPT !.id = TRUE] EXCEPT !.completed = TRUE]
                   ELSE [e EXCEPT !.id = TRUE]
        BY DEF e, Opened, Validated, MarkEncryptionComplete, EnsureStoreId
    <1>3. SensitiveRows(e) # {} => e.completed
        BY <1>1 DEF RowsOK, Readable
    <1>4. /\ Opened \in DiskType /\ Opened.profiles = e.profiles /\ Opened.settings = e.settings
          /\ Opened.keyInitialized = e.keyInitialized
        BY <1>1, <1>2 DEF DiskType
    <1>5. Opened.completed
        <2>1. CASE SensitiveRows(e) = {}
            BY <1>1, <1>2, <2>1 DEF DiskType
        <2>2. CASE SensitiveRows(e) # {}
            BY <1>1, <1>2, <1>3, <2>2 DEF DiskType
        <2> QED
            BY <2>1, <2>2
    <1>6. SensitiveRows(Opened) = SensitiveRows(e)
        BY <1>4 DEF SensitiveRows, ProfileRows, PrimaryRows
    <1> QED
        BY <1>1, <1>4, <1>5, <1>6

\* The rows stay readable when some of them go and no key changes.
LEMMA FewerRows ==
    ASSUME RowsOK, NEW d \in DiskType, d.completed, d.keyInitialized = disk.keyInitialized,
           \A n \in Names : d.profiles[n] \in {disk.profiles[n], Absent},
           d.settings["primary"] \in {disk.settings["primary"], Null}
    PROVE  Readable(d)
    <1>1. SensitiveRows(d) # {} => SensitiveRows(disk) # {}
        BY Sensitive
    <1> QED
        BY <1>1 DEF RowsOK, Readable, ProfileRowOK, PrimaryRowOK

LEMMA CachedKey ==
    ASSUME OneKey, NEW p \in Procs
    PROVE  /\ [cache EXCEPT ![p] = Cached(@)] \in [Procs -> 0 .. MaxKeys]
           /\ \A q \in Procs : [cache EXCEPT ![p] = Cached(@)][q] \in {0, keyring}
    BY DEF OneKey, Cached, Load

\* The store part of the invariant, for any disk.
LEMMA SameKey ==
    ASSUME OneKey, RowsOK, NEW d, disk' = d, Readable(d), UNCHANGED <<keyring, made>>,
           \/ UNCHANGED cache
           \/ \E p \in Procs : cache' = [cache EXCEPT ![p] = Cached(@)]
    PROVE  OneKey' /\ RowsOK'
    <1>1. OneKey'
        BY CachedKey DEF OneKey
    <1>2. RowsOK'
        BY DEF RowsOK, Readable, ProfileRowOK, PrimaryRowOK
    <1> QED
        BY <1>1, <1>2

\* What a call of the store that takes no transaction does.
OpenedBy(p) == disk' = Opened /\ (UNCHANGED cache \/ cache' = [cache EXCEPT ![p] = Cached(@)])

LEMMA OpenStep ==
    ASSUME OneKey, RowsOK, NEW p \in Procs, OpenedBy(p), UNCHANGED <<keyring, made>>
    PROVE  /\ OneKey' /\ RowsOK' /\ disk'.completed
           /\ disk'.profiles = disk.profiles /\ disk'.settings = disk.settings
    <1>1. /\ Opened \in DiskType /\ Opened.profiles = disk.profiles
          /\ Opened.settings = disk.settings /\ Opened.completed
          /\ Opened.keyInitialized = disk.keyInitialized
        BY OpenedKeeps
    <1>2. Readable(Opened)
        BY <1>1, FewerRows
    <1> QED
        BY <1>1, <1>2, SameKey DEF OpenedBy

\* A plain setting is written, or a profile is deleted.
LEMMA PlainStep ==
    ASSUME OneKey, RowsOK, NEW p \in Procs, NEW k \in SettingKeys, NEW v \in SettingVals,
           k = "primary" => v = "null",
           Execute(p, SetPlain(k, v))
    PROVE  /\ OneKey' /\ RowsOK' /\ disk'.completed /\ UNCHANGED tx
           /\ disk'.profiles = disk.profiles
           /\ disk'.settings = [disk.settings EXCEPT ![k] = Plain(v)]
    <1> DEFINE d == SetPlain(k, v)
    <1>1. /\ Opened \in DiskType /\ Opened.profiles = disk.profiles
          /\ Opened.settings = disk.settings /\ Opened.completed
          /\ Opened.keyInitialized = disk.keyInitialized
        BY OpenedKeeps
    <1>2. Plain(v) \in SettingRows
        BY StoreAssumption DEF Plain, SettingRows, SettingVals
    <1>3. /\ d \in DiskType /\ d.profiles = disk.profiles /\ d.completed
          /\ d.keyInitialized = disk.keyInitialized
          /\ d.settings = [disk.settings EXCEPT ![k] = Plain(v)]
        BY <1>1, <1>2 DEF SetPlain, DiskType
    <1>4. d.settings["primary"] \in {disk.settings["primary"], Null}
        BY <1>3 DEF RowsOK, Readable, DiskType, Null
    <1>5. disk' = d /\ cache' = [cache EXCEPT ![p] = Cached(@)] /\ UNCHANGED <<keyring, made, tx>>
        BY DEF Execute
    <1> HIDE DEF d
    <1>6. Readable(d)
        BY <1>3, <1>4, FewerRows
    <1> QED
        BY <1>3, <1>5, <1>6, SameKey

LEMMA DeleteStep ==
    ASSUME OneKey, RowsOK, NEW p \in Procs, NEW n \in Names, Execute(p, DeleteRow(n))
    PROVE  /\ OneKey' /\ RowsOK' /\ disk'.completed /\ UNCHANGED tx
           /\ disk'.profiles = [disk.profiles EXCEPT ![n] = Absent]
           /\ disk'.settings = disk.settings
    <1> DEFINE d == DeleteRow(n)
    <1>1. /\ Opened \in DiskType /\ Opened.profiles = disk.profiles
          /\ Opened.settings = disk.settings /\ Opened.completed
          /\ Opened.keyInitialized = disk.keyInitialized
        BY OpenedKeeps
    <1>2. Absent \in Rows
        BY StoreAssumption DEF Absent, Rows
    <1>3. /\ d \in DiskType /\ d.profiles = [disk.profiles EXCEPT ![n] = Absent] /\ d.completed
          /\ d.keyInitialized = disk.keyInitialized /\ d.settings = disk.settings
        BY <1>1, <1>2 DEF DeleteRow, DiskType
    <1>4. \A m \in Names : d.profiles[m] \in {disk.profiles[m], Absent}
        BY <1>3 DEF RowsOK, Readable, DiskType
    <1>5. disk' = d /\ cache' = [cache EXCEPT ![p] = Cached(@)] /\ UNCHANGED <<keyring, made, tx>>
        BY DEF Execute
    <1> HIDE DEF d
    <1>6. Readable(d)
        BY <1>3, <1>4, FewerRows
    <1> QED
        BY <1>3, <1>5, <1>6, SameKey

\* A transaction begins: the key is the one there is, or the first.
LEMMA BeginStep ==
    ASSUME OneKey, RowsOK, NEW p \in Procs, NEW c \in {0, cache[p]}, WriteContext(p, c)
    PROVE  /\ OneKey' /\ RowsOK' /\ tx = NoTx /\ UNCHANGED disk
           /\ tx' = [by |-> p, key |-> keyring'] /\ keyring' # 0
    <1>1. /\ keyring \in 0 .. MaxKeys /\ made = keyring /\ cache \in [Procs -> 0 .. MaxKeys]
          /\ \A q \in Procs : cache[q] \in {0, keyring}
          /\ MaxKeys \in Nat \ {0} /\ c \in {0, keyring}
        BY StoreAssumption DEF OneKey
    <1>2. CASE NeedsNewKey(c)
        <2>1. /\ SensitiveRows(disk) = {} /\ made < MaxKeys /\ made' = made + 1 /\ keyring' = made'
              /\ tx' = [by |-> p, key |-> made'] /\ UNCHANGED disk /\ tx = NoTx
              /\ cache' = IF c = cache[p] THEN [cache EXCEPT ![p] = tx'.key] ELSE cache
            BY <1>2 DEF WriteContext
        <2>2. keyring = 0 /\ \A q \in Procs : cache[q] = 0
            BY <1>1, <1>2 DEF NeedsNewKey, LoadForWrite, Load
        <2>3. keyring' = 1 /\ made' = 1 /\ keyring' \in 0 .. MaxKeys /\ tx'.key = keyring'
            BY <1>1, <2>1, <2>2
        <2>4. OneKey'
            BY <1>1, <2>1, <2>2, <2>3 DEF OneKey
        <2>5. /\ \A n \in Names : disk.profiles[n] = Absent
              /\ disk.settings["primary"] \in {Absent, Null}
            BY <2>1, Sensitive
        <2>6. RowsOK'
            BY <2>1, <2>5 DEF RowsOK, Readable, ProfileRowOK, PrimaryRowOK
        <2> QED
            BY <2>1, <2>3, <2>4, <2>6
    <1>3. CASE ~NeedsNewKey(c)
        <2>1. /\ tx' = [by |-> p, key |-> LoadForWrite(c)] /\ UNCHANGED <<made, keyring, disk>>
              /\ tx = NoTx
              /\ cache' = IF c = cache[p] THEN [cache EXCEPT ![p] = tx'.key] ELSE cache
            BY <1>3 DEF WriteContext
        <2>2. LoadForWrite(c) = keyring /\ keyring # 0
            BY <1>1, <1>3 DEF NeedsNewKey, LoadForWrite, Load
        <2>3. OneKey'
            BY <1>1, <2>1, <2>2 DEF OneKey
        <2>4. RowsOK'
            BY <2>1 DEF RowsOK, Readable, ProfileRowOK, PrimaryRowOK
        <2> QED
            BY <2>1, <2>2, <2>3, <2>4
    <1> QED
        BY <1>2, <1>3

\* The transaction commits what it encrypted with the key there is.
LEMMA CommitProfileStep ==
    ASSUME OneKey, RowsOK, disk.completed, tx.key = keyring, keyring # 0,
           NEW n \in ToldNames, NEW u \in Uris, Commit(SealProfile(n, u))
    PROVE  /\ OneKey' /\ RowsOK' /\ tx' = NoTx /\ disk'.completed
           /\ disk'.profiles = [disk.profiles EXCEPT ![n] = Sealed(u, keyring)]
           /\ disk'.settings = disk.settings
    <1> DEFINE d == [SealProfile(n, u) EXCEPT !.id = TRUE, !.keyInitialized = TRUE]
    <1>1. disk' = d /\ tx' = NoTx /\ UNCHANGED <<keyring, made, cache>>
        BY DEF Commit
    <1>2. Sealed(u, keyring) \in Rows /\ Sealed(u, keyring) \in [val : Uris, key : {keyring}]
        BY DEF Sealed, Rows, OneKey
    <1>3. disk \in DiskType
        BY DEF RowsOK, Readable
    <1>4. SealProfile(n, u) = [disk EXCEPT !.profiles = [disk.profiles EXCEPT ![n] = Sealed(u, keyring)]]
        BY <1>3 DEF SealProfile, DiskType
    <1>5. /\ d \in DiskType /\ d.profiles = [disk.profiles EXCEPT ![n] = Sealed(u, keyring)]
          /\ d.completed /\ d.keyInitialized /\ d.settings = disk.settings
        <2> DEFINE ps == [disk.profiles EXCEPT ![n] = Sealed(u, keyring)]
        <2>1. d = [disk EXCEPT !.profiles = ps, !.id = TRUE, !.keyInitialized = TRUE]
            BY <1>4
        <2>2. ps \in [Names -> Rows]
            BY <1>2, <1>3 DEF DiskType
        <2> HIDE DEF d, ps
        <2>3. /\ d \in DiskType /\ d.profiles = ps /\ d.settings = disk.settings
              /\ d.completed = disk.completed /\ d.keyInitialized
            BY <1>3, <2>1, <2>2 DEF DiskType
        <2> QED
            BY <2>3 DEF ps
    <1> HIDE DEF d
    <1>6. Readable(d)
        BY <1>2, <1>5 DEF RowsOK, Readable, ProfileRowOK, DiskType
    <1> QED
        BY <1>1, <1>5, <1>6, SameKey

LEMMA CommitPrimaryStep ==
    ASSUME OneKey, RowsOK, disk.completed, tx.key = keyring, keyring # 0,
           NEW u \in Uris, Commit(SealPrimary(u))
    PROVE  /\ OneKey' /\ RowsOK' /\ tx' = NoTx /\ disk'.completed
           /\ disk'.profiles = disk.profiles
           /\ disk'.settings = [disk.settings EXCEPT !["primary"] = Sealed(u, keyring)]
    <1> DEFINE d == [SealPrimary(u) EXCEPT !.id = TRUE, !.keyInitialized = TRUE]
    <1>1. disk' = d /\ tx' = NoTx /\ UNCHANGED <<keyring, made, cache>>
        BY DEF Commit
    <1>2. Sealed(u, keyring) \in SettingRows /\ Sealed(u, keyring) \in [val : Uris, key : {keyring}]
        BY DEF Sealed, SettingRows, OneKey
    <1>3. disk \in DiskType
        BY DEF RowsOK, Readable
    <1>4. SealPrimary(u)
            = [disk EXCEPT !.settings = [disk.settings EXCEPT !["primary"] = Sealed(u, keyring)]]
        BY <1>3 DEF SealPrimary, DiskType
    <1>5. /\ d \in DiskType /\ d.profiles = disk.profiles /\ d.completed /\ d.keyInitialized
          /\ d.settings = [disk.settings EXCEPT !["primary"] = Sealed(u, keyring)]
        <2> DEFINE ss == [disk.settings EXCEPT !["primary"] = Sealed(u, keyring)]
        <2>1. d = [disk EXCEPT !.settings = ss, !.id = TRUE, !.keyInitialized = TRUE]
            BY <1>4
        <2>2. ss \in [SettingKeys -> SettingRows]
            BY <1>2, <1>3 DEF DiskType
        <2> HIDE DEF d, ss
        <2>3. /\ d \in DiskType /\ d.settings = ss /\ d.profiles = disk.profiles
              /\ d.completed = disk.completed /\ d.keyInitialized
            BY <1>3, <2>1, <2>2 DEF DiskType
        <2> QED
            BY <2>3 DEF ss
    <1> HIDE DEF d
    <1>6. Readable(d)
        BY <1>2, <1>3, <1>5 DEF RowsOK, Readable, PrimaryRowOK, DiskType, SettingKeys
    <1> QED
        BY <1>1, <1>5, <1>6, SameKey

\* A process that ends leaves the key in the keyring.
LEMMA ForgetStep ==
    ASSUME OneKey, RowsOK, NEW p \in Procs, Forget(p)
    PROVE  /\ OneKey' /\ RowsOK' /\ UNCHANGED disk /\ tx' = IF tx.by = p THEN NoTx ELSE tx
    <1>1. /\ UNCHANGED <<disk, keyring, made>> /\ tx' = IF tx.by = p THEN NoTx ELSE tx
          /\ cache' = [cache EXCEPT ![p] = 0]
        BY DEF Forget, InTx
    <1>2. OneKey'
        BY <1>1, StoreAssumption DEF OneKey
    <1>3. RowsOK'
        BY <1>1 DEF RowsOK, Readable, ProfileRowOK, PrimaryRowOK
    <1> QED
        BY <1>1, <1>2, <1>3

(***************************************************************************)
(* The invariant of the store and the processes.                           *)
(***************************************************************************)
LEMMA EncryptsAt ==
    ASSUME OpenOK, TxOK, NEW p \in Procs
    PROVE  /\ ~Encrypts(p) => ~proc[p].open
           /\ ~proc[p].open => tx.by # p
           /\ \A d : At(p, d) /\ d \notin {"set", "save", "demo"} => ~Encrypts(p)
           /\ ~Running(p) => ~Encrypts(p)
    <1>1. ~Encrypts(p) => ~proc[p].open
        BY DEF OpenOK
    <1>2. ~proc[p].open => tx.by # p
        BY StoreAssumption DEF TxOK, NoTx
    <1>3. \A d : At(p, d) /\ d \notin {"set", "save", "demo"} => ~Encrypts(p)
        BY DEF At, Encrypts
    <1>4. ~Running(p) => ~Encrypts(p)
        BY DEF At, Encrypts
    <1> QED
        BY <1>1, <1>2, <1>3, <1>4

LEMMA SameEncrypts ==
    ASSUME NEW q, proc'[q] = proc[q]
    PROVE  Encrypts(q)' = Encrypts(q)
    BY DEF Encrypts, At, Running, Head1, SetValue

LEMMA ShrinkFits ==
    ASSUME NEW r, NEW t, NEW s, NEW u, ChoiceFits(r, s), s \subseteq u,
           t.choice.uri = r.choice.uri, t.choice.name = r.choice.name,
           r.choice.editing => t.choice.editing,
           \A c \in {Call("connect", "all"), Call("save", "all"), Call("demo", "all")} :
                Has(t.todo, c) => Has(r.todo, c)
    PROVE  ChoiceFits(t, u)
    BY DEF ChoiceFits

\* A process goes on with less to do, or with a program that connects to nothing.
LEMMA RestFits ==
    ASSUME BaseInv, NEW p \in Procs, Running(p), NEW t,
           t.choice.uri = proc[p].choice.uri, t.choice.name = proc[p].choice.name,
           proc[p].choice.editing => t.choice.editing,
           \/ t.todo = Rest(p)
           \/ \E d \in {"set", "rewrite"} : \E k : Call(d, k) \in ProgramCalls /\ t.todo = <<Call(d, k)>> \o Rest(p)
    PROVE  ChoiceFits(t, reached)
    <1> DEFINE cs == {Call("connect", "all"), Call("save", "all"), Call("demo", "all")}
    <1>1. proc[p].todo \in Programs /\ proc[p].todo # <<>> /\ Rest(p) \in Programs
        BY ProgramFacts DEF BaseInv, Running
    <1>2. \A c : Has(Rest(p), c) => Has(proc[p].todo, c)
        BY <1>1, HasTail DEF Rest, Programs
    <1>3. \A c \in cs : Has(t.todo, c) => Has(proc[p].todo, c)
        <2>1. CASE t.todo = Rest(p)
            BY <1>2, <2>1
        <2>2. ASSUME NEW d \in {"set", "rewrite"}, NEW k, Call(d, k) \in ProgramCalls,
                     t.todo = <<Call(d, k)>> \o Rest(p)
              PROVE  \A c \in cs : Has(t.todo, c) => Has(proc[p].todo, c)
            <3>1. <<Call(d, k)>> \in Programs
                BY <2>2, OneCall DEF Programs
            <3>2. \A c : Has(t.todo, c) => c = Call(d, k) \/ Has(Rest(p), c)
                BY <1>1, <2>2, <3>1, ProgramConcat, HasOne
            <3>3. Call(d, k) \notin cs
                BY CallsDiffer
            <3> QED
                BY <1>2, <3>2, <3>3
        <2> QED
            BY <2>1, <2>2
    <1>4. ChoiceFits(proc[p], reached)
        BY DEF BaseInv, ChoiceOK
    <1> HIDE DEF cs
    <1> QED
        BY <1>3, <1>4, ShrinkFits DEF cs

LEMMA NothingFits ==
    ASSUME NEW t, NEW u,
           \A c \in {Call("connect", "all"), Call("save", "all"), Call("demo", "all")} : ~Has(t.todo, c)
    PROVE  ChoiceFits(t, u)
    BY DEF ChoiceFits

\* Between two calls of the store: what a step has to keep.
LEMMA BaseStep ==
    ASSUME BaseInv, NEW p \in Procs, NEW r \in ProcState, Becomes(p, r), r.open = FALSE,
           OneKey', RowsOK', disk.completed => disk'.completed,
           tx' = NoTx \/ (tx' = tx /\ keyring' = keyring /\ tx.by # p),
           toml' \in TomlFile, reached \subseteq reached', reached' \subseteq Uris,
           ChoiceFits(r, reached')
    PROVE  BaseInv'
    <1>1. ProcsOK' /\ proc'[p] = r /\ \A q \in Procs \ {p} : proc'[q] = proc[q]
        BY BecomesType DEF BaseInv
    <1>2. OpenOK'
        <2> SUFFICES ASSUME NEW q \in Procs, proc'[q].open PROVE Encrypts(q)' /\ disk'.completed
            BY DEF OpenOK
        <2>1. q # p
            BY <1>1
        <2> QED
            BY <1>1, <2>1, SameEncrypts DEF BaseInv, OpenOK
    <1>3. TxOK'
        <2>1. CASE tx' = NoTx
            BY <2>1, StoreAssumption DEF TxOK, NoTx
        <2>2. CASE tx' = tx /\ keyring' = keyring /\ tx.by # p
            BY <1>1, <2>2 DEF BaseInv, TxOK, NoTx
        <2> QED
            BY <2>1, <2>2
    <1>4. ChoiceOK'
        <2> SUFFICES ASSUME NEW q \in Procs PROVE ChoiceFits(proc'[q], reached')
            BY DEF ChoiceOK, ChoiceFits
        <2>1. CASE q = p
            BY <1>1, <2>1
        <2>2. CASE q # p
            BY <1>1, <2>2 DEF BaseInv, ChoiceOK, ChoiceFits
        <2> QED
            BY <2>1, <2>2
    <1> QED
        BY <1>1, <1>2, <1>3, <1>4 DEF BaseInv

\* Calls that only read.
Reading(p) ==
    InitStore(p) \/ ReadMarker(p) \/ EnsureSetting(p) \/ Hydrate(p) \/ ResolveDirect(p) \/ ListProfiles(p)

LEMMA ReadFacts ==
    ASSUME BaseInv, NEW p \in Procs, Reading(p)
    PROVE  /\ Running(p) /\ ~proc[p].open /\ tx.by # p
           /\ OneKey' /\ RowsOK' /\ disk'.completed /\ tx' = tx /\ keyring' = keyring
           /\ disk'.profiles = disk.profiles /\ disk'.settings = disk.settings
           /\ UNCHANGED <<toml, reached>> /\ toml' \in TomlFile /\ reached' \subseteq Uris
    <1>1. \E d : d \notin {"set", "save", "demo"} /\ At(p, d)
        <2>1. At(p, "init") \/ At(p, "marker") \/ At(p, "ensure") \/ At(p, "hydrate")
              \/ At(p, "resolve") \/ At(p, "list")
            BY DEF Reading, InitStore, ReadMarker, EnsureSetting, Hydrate, ResolveDirect, ListProfiles
        <2> QED
            BY <2>1
    <1>2. Running(p) /\ ~proc[p].open /\ tx.by # p
        BY <1>1, EncryptsAt DEF BaseInv, At
    <1>3. ReadCall(p) /\ Others
        BY DEF Reading, InitStore, ReadMarker, EnsureSetting, Hydrate, ResolveDirect, ListProfiles
    <1>4. OpenedBy(p) /\ UNCHANGED <<keyring, made, tx, toml, reached>>
        BY <1>3 DEF ReadCall, OpenedBy, Others
    <1>5. OneKey' /\ RowsOK' /\ disk'.completed
          /\ disk'.profiles = disk.profiles /\ disk'.settings = disk.settings
        BY <1>4, OpenStep DEF BaseInv
    <1> QED
        BY <1>2, <1>4, <1>5 DEF BaseInv

LEMMA KeptFits ==
    ASSUME BaseInv, NEW p \in Procs, NEW t, t.todo = proc[p].todo, t.choice = proc[p].choice
    PROVE  ChoiceFits(t, reached)
    BY DEF BaseInv, ChoiceOK, ChoiceFits

LEMMA ReadBase ==
    ASSUME BaseInv, NEW p \in Procs, Reading(p)
    PROVE  BaseInv'
    <1>1. /\ Running(p) /\ ~proc[p].open /\ tx.by # p
          /\ OneKey' /\ RowsOK' /\ disk'.completed /\ tx' = tx /\ keyring' = keyring
          /\ toml' \in TomlFile /\ reached \subseteq reached' /\ reached' \subseteq Uris
          /\ reached' = reached
        BY ReadFacts
    <1>2. ProcsOK /\ RowsOK
        BY DEF BaseInv
    <1>t. proc[p] \in ProcState
        BY <1>2 DEF ProcsOK
    <1>3. SUFFICES \E r \in ProcState : Becomes(p, r) /\ r.open = FALSE /\ ChoiceFits(r, reached)
        BY <1>1, BaseStep
    <1>4. CASE InitStore(p)
        <2>1. Becomes(p, Then(p, Rest(p))) /\ Rest(p) \in Programs
            BY <1>2, <1>4, AdvancesType DEF Advances
        <2> QED
            BY <1>1, <1>2, <2>1, ThenType, RestFits
    <1>5. CASE EnsureSetting(p)
        <2>1. PICK s \in Programs : /\ Becomes(p, Then(p, s))
                                    /\ \/ s = Rest(p)
                                       \/ \E k \in SettingKeys : s = <<Call("set", k)>> \o Rest(p)
            BY <1>2, <1>5, EnsureType DEF SettingKeys
        <2>2. /\ Then(p, s) \in ProcState /\ Then(p, s).todo = s /\ Then(p, s).open = FALSE
              /\ Then(p, s).choice = proc[p].choice
            BY <1>2, ThenType
        <2>3. ChoiceFits(Then(p, s), reached)
            BY <1>1, <2>1, <2>2, RestFits, CallTypes
        <2> QED
            BY <2>1, <2>2, <2>3
    <1>6. CASE Hydrate(p)
        <2>1. PICK c \in ConfigState : Reads(p, c) /\ Rest(p) \in Programs
            BY <1>2, <1>6, HydrateType
        <2> DEFINE r == Process(p, Rest(p), c, proc[p].listed, proc[p].form, proc[p].choice,
                                proc[p].fromMainUi)
        <2>2. Becomes(p, r)
            BY <2>1 DEF Reads
        <2>3. r \in ProcState /\ r.todo = Rest(p) /\ r.open = FALSE /\ r.choice = proc[p].choice
            BY <1>t, <2>1 DEF Process, ProcState
        <2> HIDE DEF r
        <2> QED
            BY <1>1, <2>2, <2>3, RestFits
    <1>7. CASE ReadMarker(p)
        <2> DEFINE b == disk.settings["imported"] = Plain("true")
                   s == LoadConfig(b) \o AfterConfig(p)
                   c == [NoConfig EXCEPT !.imported = b]
                   r == Process(p, s, c, proc[p].listed, proc[p].form, proc[p].choice,
                                proc[p].fromMainUi)
        <2>1. s \in Programs /\ c \in ConfigState /\ Becomes(p, r)
            BY <1>1, <1>2, <1>7, MarkerType
        <2>2. \A d \in {"connect", "save", "demo"} : ~Has(s, Call(d, "all"))
            <3>1. LoadConfig(b) \in Programs
                  /\ \A d \in {"connect", "save", "demo"} : ~Has(LoadConfig(b), Call(d, "all"))
                <4>1. CASE b
                    <5>1. LoadConfig(b) = LoadConfig(TRUE)
                        BY <4>1 DEF LoadConfig
                    <5>2. \A d \in {"connect", "save", "demo"} : Call(d, "all") \notin
                                {Call("ensure", "theme"), Call("ensure", "primary"),
                                 Call("hydrate", "theme"), Call("hydrate", "primary"),
                                 Call("scrub", "primary")}
                        BY CallsDiffer
                    <5> QED
                        BY <5>1, <5>2, ImportedCalls
                <4>2. CASE ~b
                    <5>1. LoadConfig(b) = LoadConfig(FALSE)
                        BY <4>2 DEF LoadConfig
                    <5>2. \A d \in {"connect", "save", "demo"} : Call(d, "all") \notin
                                {Call("disk", "all"), Call("hydrate", "theme"),
                                 Call("hydrate", "primary"), Call("match", "primary"),
                                 Call("set", "theme"), Call("set", "primary"),
                                 Call("set", "imported"), Call("scrub", "primary")}
                        BY CallsDiffer
                    <5> QED
                        BY <5>1, <5>2, ImportCalls
                <4> QED
                    BY <4>1, <4>2
            <3>2. AfterConfig(p) \in Programs
                  /\ \A d \in {"connect", "save", "demo"} : ~Has(AfterConfig(p), Call(d, "all"))
                BY AfterConfigCalls, CallsDiffer
            <3> QED
                BY <3>1, <3>2, ProgramConcat
        <2> HIDE DEF s, c, b
        <2>3. r \in ProcState /\ r.todo = s /\ r.open = FALSE
            BY <1>t, <2>1 DEF Process, ProcState
        <2> HIDE DEF r
        <2>4. ChoiceFits(r, reached)
            BY <2>2, <2>3, NothingFits
        <2> QED
            BY <2>1, <2>3, <2>4
    <1>8. CASE ResolveDirect(p)
        <2>1. PICK c \in ChoiceState :
                /\ <<Call("check", "all")>> \in Programs
                /\ Becomes(p, Process(p, <<Call("check", "all")>>, proc[p].config, proc[p].listed,
                                      proc[p].form, c, proc[p].fromMainUi))
            BY <1>2, <1>8, ResolveType
        <2> DEFINE r == Process(p, <<Call("check", "all")>>, proc[p].config, proc[p].listed,
                                proc[p].form, c, proc[p].fromMainUi)
        <2>2. r \in ProcState /\ r.todo = <<Call("check", "all")>> /\ r.open = FALSE
            BY <1>t, <2>1 DEF Process, ProcState
        <2> HIDE DEF r
        <2>3. ChoiceFits(r, reached)
            BY <2>2, HasOne, CallsDiffer, NothingFits
        <2> QED
            BY <2>1, <2>2, <2>3 DEF r
    <1>9. CASE ListProfiles(p)
        <2>1. PICK l \in Listings :
                /\ <<Call("menu", "all")>> \in Programs
                /\ Becomes(p, Process(p, <<Call("menu", "all")>>, proc[p].config, l, proc[p].form,
                                      proc[p].choice, proc[p].fromMainUi))
            BY <1>2, <1>9, ListType
        <2> DEFINE r == Process(p, <<Call("menu", "all")>>, proc[p].config, l, proc[p].form,
                                proc[p].choice, proc[p].fromMainUi)
        <2>2. r \in ProcState /\ r.todo = <<Call("menu", "all")>> /\ r.open = FALSE
            BY <1>t, <2>1 DEF Process, ProcState
        <2> HIDE DEF r
        <2>3. ChoiceFits(r, reached)
            BY <2>2, HasOne, CallsDiffer, NothingFits
        <2> QED
            BY <2>1, <2>2, <2>3 DEF r
    <1> QED
        BY <1>4, <1>5, <1>6, <1>7, <1>8, <1>9 DEF Reading

LEMMA EndedFits == \A s : ChoiceFits(Ended, s)
    BY DEF ChoiceFits, Ended, Has

LEMMA ExitBase ==
    ASSUME BaseInv, NEW p \in Procs, Exit(p)
    PROVE  BaseInv' /\ UNCHANGED disk
    <1>1. /\ OneKey' /\ RowsOK' /\ UNCHANGED disk /\ tx' = IF tx.by = p THEN NoTx ELSE tx
        BY ForgetStep DEF Exit, BaseInv
    <1>2. keyring' = keyring /\ UNCHANGED <<toml, reached>>
        BY DEF Exit, Forget, Others
    <1>3. Becomes(p, Ended) /\ Ended \in ProcState /\ Ended.open = FALSE
        BY EndedType DEF Exit, Becomes, Ended
    <1>4. toml' \in TomlFile /\ reached \subseteq reached' /\ reached' \subseteq Uris
        BY <1>2 DEF BaseInv
    <1>5. tx' = NoTx \/ (tx' = tx /\ keyring' = keyring /\ tx.by # p)
        BY <1>1, <1>2
    <1> QED
        BY <1>1, <1>3, <1>4, <1>5, EndedFits, BaseStep

\* Steps of a process that leave the store alone.
LEMMA SameStore ==
    ASSUME BaseInv, UNCHANGED storeVars
    PROVE  OneKey' /\ RowsOK' /\ tx' = tx /\ keyring' = keyring /\ disk' = disk
    BY DEF storeVars, BaseInv, OneKey, RowsOK, Readable, ProfileRowOK, PrimaryRowOK

LEMMA IdleStep ==
    ASSUME BaseInv, UNCHANGED storeVars, NEW p \in Procs, ~proc[p].open \/ ~InTx(p),
           NEW r \in ProcState, Becomes(p, r), r.open = FALSE,
           toml' \in TomlFile, reached \subseteq reached', reached' \subseteq Uris,
           ChoiceFits(r, reached')
    PROVE  BaseInv'
    <1>1. tx.by # p
        BY EncryptsAt DEF BaseInv, InTx
    <1>2. OneKey' /\ RowsOK' /\ tx' = tx /\ keyring' = keyring /\ disk' = disk
        BY SameStore
    <1>3. tx' = NoTx \/ (tx' = tx /\ keyring' = keyring /\ tx.by # p)
        BY <1>1, <1>2
    <1>4. disk.completed => disk'.completed
        BY <1>2
    <1> QED
        BY <1>2, <1>3, <1>4, BaseStep

LEMMA StartBase ==
    ASSUME BaseInv, NEW p \in Procs, Start(p)
    PROVE  BaseInv'
    <1>1. ProcsOK /\ ~proc[p].open
        BY EncryptsAt DEF Start, BaseInv
    <1>2. Becomes(p, Then(p, Boot)) /\ Boot \in Programs
        BY <1>1, StartType
    <1>3. Then(p, Boot) \in ProcState /\ Then(p, Boot).todo = Boot /\ Then(p, Boot).open = FALSE
        BY <1>1, <1>2, ThenType
    <1>4. ChoiceFits(Then(p, Boot), reached)
        <2>1. \A d \in {"connect", "save", "demo"} :
                Call(d, "all") \notin {Call("init", "all"), Call("marker", "imported")}
            BY CallsDiffer
        <2>2. \A c : Has(Boot, c) <=> c \in {Call("init", "all"), Call("marker", "imported")}
            BY HasTwo DEF Boot
        <2> QED
            BY <1>3, <2>1, <2>2, NothingFits
    <1>5. UNCHANGED storeVars /\ UNCHANGED <<toml, reached>> /\ toml' \in TomlFile /\ reached' \subseteq Uris
        BY DEF Start, BaseInv
    <1> QED
        BY <1>1, <1>2, <1>3, <1>4, <1>5, IdleStep

\* Steps on config.toml and on the configuration that was read.
Configuring(p) ==
    LoadFromDisk(p) \/ MatchPrimary(p) \/ ScrubNothing(p) \/ ScrubTruncates(p) \/ ScrubWrites(p)

LEMMA ConfigFacts ==
    ASSUME BaseInv, NEW p \in Procs, Configuring(p)
    PROVE  /\ Running(p) /\ ~proc[p].open /\ UNCHANGED storeVars /\ reached' = reached
           /\ toml' \in TomlFile
           /\ ~ScrubTruncates(p) /\ ~ScrubWrites(p) => toml' = toml
           /\ ScrubTruncates(p) \/ ScrubWrites(p) => toml'.primary = "null"
    <1>1. \E d : d \notin {"set", "save", "demo"} /\ At(p, d)
        <2>1. At(p, "disk") \/ At(p, "match") \/ At(p, "scrub") \/ At(p, "rewrite")
            BY DEF Configuring, LoadFromDisk, MatchPrimary, ScrubNothing, ScrubTruncates, ScrubWrites
        <2> QED
            BY <2>1
    <1>2. Running(p) /\ ~proc[p].open
        BY <1>1, EncryptsAt DEF BaseInv, At
    <1>3. UNCHANGED storeVars /\ reached' = reached
        BY DEF Configuring, LoadFromDisk, MatchPrimary, ScrubNothing, ScrubTruncates, ScrubWrites, OnlyProc
    <1>4. ~ScrubTruncates(p) /\ ~ScrubWrites(p) => toml' = toml
        BY DEF Configuring, LoadFromDisk, MatchPrimary, ScrubNothing, OnlyProc
    <1>5. ScrubTruncates(p) => toml' \in TomlFile /\ toml'.primary = "null"
        BY DEF ScrubTruncates, TomlFile
    <1>6. ScrubWrites(p) => toml' \in TomlFile /\ toml'.primary = "null"
        <2>1. proc[p].config.text \in {"unset", "toml"}
            BY PartTypes DEF BaseInv, ConfigState
        <2> QED
            BY <2>1 DEF ScrubWrites, TomlFile
    <1>7. toml \in TomlFile
        BY DEF BaseInv
    <1> QED
        BY <1>2, <1>3, <1>4, <1>5, <1>6, <1>7

LEMMA ConfigBase ==
    ASSUME BaseInv, NEW p \in Procs, Configuring(p)
    PROVE  BaseInv'
    <1>1. /\ Running(p) /\ ~proc[p].open /\ UNCHANGED storeVars /\ reached' = reached
          /\ toml' \in TomlFile
        BY ConfigFacts
    <1>2. ProcsOK /\ RowsOK /\ toml \in TomlFile /\ reached' \subseteq Uris
        BY <1>1 DEF BaseInv
    <1>t. proc[p] \in ProcState
        BY <1>2 DEF ProcsOK
    <1>3. SUFFICES \E r \in ProcState : Becomes(p, r) /\ r.open = FALSE /\ ChoiceFits(r, reached)
        BY <1>1, <1>2, IdleStep
    <1>4. CASE MatchPrimary(p)
        <2>1. Becomes(p, Then(p, Rest(p))) /\ Rest(p) \in Programs
            BY <1>2, <1>4, AdvancesType DEF Advances
        <2> QED
            BY <1>1, <1>2, <2>1, ThenType, RestFits
    <1>5. ASSUME NEW c \in ConfigState, Reads(p, c), Rest(p) \in Programs
          PROVE  \E r \in ProcState : Becomes(p, r) /\ r.open = FALSE /\ ChoiceFits(r, reached)
        <2> DEFINE r == Process(p, Rest(p), c, proc[p].listed, proc[p].form, proc[p].choice,
                                proc[p].fromMainUi)
        <2>1. Becomes(p, r)
            BY <1>5 DEF Reads
        <2>2. r \in ProcState /\ r.todo = Rest(p) /\ r.open = FALSE /\ r.choice = proc[p].choice
            BY <1>t, <1>5 DEF Process, ProcState
        <2> HIDE DEF r
        <2> QED
            BY <1>1, <2>1, <2>2, RestFits
    <1>6. CASE LoadFromDisk(p)
        BY <1>2, <1>5, <1>6, DiskReadType
    <1>7. CASE ScrubNothing(p) \/ ScrubWrites(p)
        BY <1>2, <1>5, <1>7, LoadedType
    <1>8. CASE ScrubTruncates(p)
        <2> DEFINE s == <<Call("rewrite", "primary")>> \o Rest(p)
        <2>1. PICK c \in ConfigState :
                /\ s \in Programs
                /\ Becomes(p, Process(p, s, c, proc[p].listed, proc[p].form, proc[p].choice,
                                      proc[p].fromMainUi))
            BY <1>2, <1>8, TruncateType
        <2> DEFINE r == Process(p, s, c, proc[p].listed, proc[p].form, proc[p].choice,
                                proc[p].fromMainUi)
        <2>2. Call("rewrite", "primary") \in ProgramCalls
            BY CallTypes
        <2> HIDE DEF s
        <2>3. r \in ProcState /\ r.todo = s /\ r.open = FALSE /\ r.choice = proc[p].choice
            BY <1>t, <2>1 DEF Process, ProcState
        <2>4. Becomes(p, r)
            BY <2>1
        <2> HIDE DEF r
        <2>5. ChoiceFits(r, reached)
            BY <1>1, <2>2, <2>3, RestFits DEF s
        <2> QED
            BY <2>3, <2>4, <2>5
    <1> QED
        BY <1>4, <1>6, <1>7, <1>8 DEF Configuring

\* Steps in the menu and between it and the user interface.
Choosing(p) ==
    \/ ResolveMenu(p) \/ ListUnreadable(p) \/ ActivateSelected(p) \/ OpenForm(p) \/ BackToList(p)
    \/ DeleteSelected(p) \/ Submit(p) \/ GenerateTestData(p) \/ Connect(p) \/ ConnectFails(p)
    \/ SaveFails(p) \/ ChooseSetting(p) \/ SaveSettingFails(p) \/ BackToProfiles(p)

LEMMA ChoosingFacts ==
    ASSUME BaseInv, NEW p \in Procs, Choosing(p)
    PROVE  /\ Running(p) /\ (~proc[p].open \/ ~InTx(p)) /\ (~SaveFails(p) => ~proc[p].open)
           /\ UNCHANGED storeVars /\ toml' = toml
           /\ toml' \in TomlFile /\ reached \subseteq reached' /\ reached' \subseteq Uris
    <1>1. Running(p)
        BY DEF Choosing, ResolveMenu, ListUnreadable, ActivateSelected, OpenForm, BackToList,
               DeleteSelected, Submit, GenerateTestData, Connect, ConnectFails, SaveFails, ChooseSetting,
               SaveSettingFails, BackToProfiles, InMenu, At
    <1>2. ~SaveFails(p) => ~proc[p].open
        <2> SUFFICES ASSUME ~SaveFails(p) PROVE ~proc[p].open
            OBVIOUS
        <2>1. At(p, "resolve") \/ At(p, "list") \/ At(p, "menu") \/ At(p, "connect") \/ At(p, "ui")
              \/ At(p, "settings")
            BY DEF Choosing, ResolveMenu, ListUnreadable, ActivateSelected, OpenForm, BackToList,
                   DeleteSelected, Submit, GenerateTestData, Connect, ConnectFails, ChooseSetting,
                   SaveSettingFails, BackToProfiles, InMenu
        <2> QED
            BY <2>1, EncryptsAt DEF BaseInv
    <1>3. SaveFails(p) => ~InTx(p)
        BY DEF SaveFails
    <1>4. UNCHANGED storeVars /\ toml' = toml
        BY DEF Choosing, ResolveMenu, ListUnreadable, ActivateSelected, OpenForm, BackToList,
               DeleteSelected, Submit, GenerateTestData, Connect, ConnectFails, SaveFails, ChooseSetting,
               SaveSettingFails, BackToProfiles, OnlyProc, Recover, Others
    <1>5. reached \subseteq reached' /\ reached' \subseteq Uris
        <2>1. reached \subseteq Uris
            BY DEF BaseInv
        <2>2. CASE GenerateTestData(p)
            BY <2>1, <2>2 DEF GenerateTestData
        <2>3. CASE Connect(p)
            <3>1. Head1(p) = Call("connect", "all")
                BY <1>1, <2>3, ProgramFacts, KeysOfCalls DEF Connect, At, BaseInv
            <3>2. Has(proc[p].todo, Call("connect", "all"))
                BY <1>1, <3>1, PartTypes, HasTail DEF Programs, Running, Head1, BaseInv
            <3>3. proc[p].choice.uri \in Uris
                BY <3>2 DEF BaseInv, ChoiceOK, ChoiceFits
            <3> QED
                BY <2>1, <2>3, <3>3 DEF Connect
        <2>4. CASE ~GenerateTestData(p) /\ ~Connect(p)
            BY <2>1, <2>4 DEF Choosing, ResolveMenu, ListUnreadable, ActivateSelected, OpenForm,
               BackToList, DeleteSelected, Submit, ConnectFails, SaveFails, ChooseSetting,
               SaveSettingFails, BackToProfiles, OnlyProc, Recover, Others
        <2> QED
            BY <2>2, <2>3, <2>4
    <1> QED
        BY <1>1, <1>2, <1>3, <1>4, <1>5 DEF BaseInv

LEMMA HeadIsAhead ==
    ASSUME ProcsOK, NEW p \in Procs, Running(p)
    PROVE  /\ Ahead(p, Head1(p))
           /\ \A d \in {"init", "disk", "resolve", "check", "list", "menu", "ui", "connect", "save", "demo"} :
                At(p, d) => Ahead(p, Call(d, "all"))
    <1>1. Ahead(p, Head1(p))
        BY PartTypes, HasTail DEF Programs, Running, Head1, Ahead
    <1>2. \A d \in {"init", "disk", "resolve", "check", "list", "menu", "ui", "connect", "save", "demo"} :
                At(p, d) => Head1(p) = Call(d, "all")
        BY ProgramFacts, KeysOfCalls DEF At
    <1> QED
        BY <1>1, <1>2

\* Short programs: they connect to nothing, and none of their calls matters to
\* the primary connection.
LEMMA ShortFits ==
    ASSUME NEW t, NEW u,
           \/ \E d \in {"list", "menu", "check", "ui"} : t.todo = <<Call(d, "all")>>
           \/ \E d \in {"menu", "ui"} : \E e \in {"remove", "settings"} : \E k :
                    t.todo = <<Call(e, k), Call(d, "all")>>
           \/ t.todo = BackToMenu
    PROVE  ChoiceFits(t, u) /\ Quiet(t.todo)
    <1> DEFINE cs == {Call("connect", "all"), Call("save", "all"), Call("demo", "all")} \cup Relevant
    <1>1. ASSUME NEW d \in {"list", "menu", "check", "ui"}, t.todo = <<Call(d, "all")>>
          PROVE  \A c \in cs : ~Has(t.todo, c)
        <2>1. Call(d, "all") \notin cs
            BY CallsDiffer DEF Relevant, Staged
        <2> QED
            BY <1>1, <2>1, HasOne
    <1>2. ASSUME NEW d \in {"menu", "ui"}, NEW e \in {"remove", "settings"}, NEW k,
                 t.todo = <<Call(e, k), Call(d, "all")>>
          PROVE  \A c \in cs : ~Has(t.todo, c)
        <2>1. Call(d, "all") \notin cs /\ Call(e, k) \notin cs
            BY CallsDiffer DEF Relevant, Staged
        <2> QED
            BY <1>2, <2>1, HasTwo
    <1>3. ASSUME t.todo = BackToMenu
          PROVE  \A c \in cs : ~Has(t.todo, c)
        <2>1. Call("marker", "imported") \notin cs
            BY CallsDiffer DEF Relevant, Staged
        <2> QED
            BY <1>3, <2>1, HasOne DEF BackToMenu
    <1> HIDE DEF cs
    <1>4. \A c \in cs : ~Has(t.todo, c)
        BY <1>1, <1>2, <1>3
    <1>5. Quiet(t.todo)
        BY <1>4 DEF Quiet, cs
    <1>6. ChoiceFits(t, u)
        BY <1>4, NothingFits DEF cs
    <1> QED
        BY <1>5, <1>6

\* What a step in the menu leaves p to do for the primary connection: nothing,
\* or what it had to do.
GoesOn(p, r) ==
    \/ Quiet(r.todo)
    \/ r.todo = proc[p].todo /\ r.config = proc[p].config
    \/ r.todo = Rest(p) /\ r.config = proc[p].config /\ At(p, "settings")

\* What a step in the menu makes of the process.
LEMMA ChoosingBecomes ==
    ASSUME BaseInv, NEW p \in Procs, Choosing(p)
    PROVE  \E r \in ProcState : Becomes(p, r) /\ r.open = FALSE /\ ChoiceFits(r, reached') /\ GoesOn(p, r)
    <1>1. /\ Running(p) /\ (~SaveFails(p) => ~proc[p].open) /\ reached \subseteq reached'
          /\ UNCHANGED storeVars
        BY ChoosingFacts
    <1>2. ProcsOK /\ RowsOK
        BY DEF BaseInv
    <1>t. proc[p] \in ProcState
        BY <1>2 DEF ProcsOK
    <1> DEFINE Goal == \E r \in ProcState : Becomes(p, r) /\ r.open = FALSE /\ ChoiceFits(r, reached') /\ GoesOn(p, r)
    <1>3. ASSUME NEW s \in Programs, Becomes(p, Then(p, s)), ChoiceFits(Then(p, s), reached'),
                 GoesOn(p, Then(p, s))
          PROVE  Goal
        BY <1>2, <1>3, ThenType
    <1>4. \A s \in Programs : Then(p, s).todo = s /\ Then(p, s).choice = proc[p].choice
        BY <1>2, ThenType
    <1>5. CASE ResolveMenu(p) \/ DeleteSelected(p) \/ ChooseSetting(p)
        <2>1. PICK s \in Programs :
                /\ Becomes(p, Then(p, s))
                /\ \/ s = <<Call("list", "all")>>
                   \/ \E n : s = <<Call("remove", n), Call("menu", "all")>>
                   \/ \E k : s = <<Call("settings", k), Call("ui", "all")>>
            BY <1>2, <1>5, GoesType
        <2>2. ChoiceFits(Then(p, s), reached') /\ Quiet(Then(p, s).todo)
            BY <1>4, <2>1, ShortFits
        <2>3. GoesOn(p, Then(p, s))
            BY <2>2 DEF GoesOn
        <2> QED
            BY <1>3, <2>1, <2>2, <2>3
    <1>6. CASE SaveSettingFails(p)
        <2>1. Becomes(p, Then(p, Rest(p))) /\ Rest(p) \in Programs
            BY <1>2, <1>6, AdvancesType DEF Advances
        <2>2. ChoiceFits(Then(p, Rest(p)), reached)
            BY <1>1, <1>4, <2>1, RestFits
        <2>3. ChoiceFits(Then(p, Rest(p)), reached')
            BY <1>1, <2>2, ShrinkFits
        <2>4. GoesOn(p, Then(p, Rest(p)))
            BY <1>2, <1>6, <2>1, ThenType DEF GoesOn, SaveSettingFails
        <2> QED
            BY <1>3, <2>1, <2>3, <2>4
    <1>7. CASE Connect(p)
        <2>1. PICK s \in Programs :
                /\ Becomes(p, Then(p, s))
                /\ s = <<Call("save", "all"), Call("ui", "all")>> \/ s = <<Call("ui", "all")>>
            BY <1>2, <1>7, GoesType
        <2>2. proc[p].choice.uri \in reached'
            BY <1>7 DEF Connect
        <2>3. /\ ~Has(s, Call("connect", "all")) /\ ~Has(s, Call("demo", "all"))
            <3>1. /\ Call("connect", "all") \notin {Call("save", "all"), Call("ui", "all")}
                  /\ Call("demo", "all") \notin {Call("save", "all"), Call("ui", "all")}
                BY CallsDiffer
            <3> QED
                BY <2>1, <3>1, HasOne, HasTwo
        <2>4. ChoiceFits(Then(p, s), reached')
            BY <1>4, <2>1, <2>2, <2>3 DEF ChoiceFits
        <2>5. GoesOn(p, Then(p, s))
            <3>1. Call("save", "all") \notin Relevant /\ Call("ui", "all") \notin Relevant
                BY CallsDiffer DEF Relevant, Staged
            <3>2. \A c : Has(s, c) => c \in {Call("save", "all"), Call("ui", "all")}
                BY <2>1, HasOne, HasTwo
            <3> QED
                BY <1>4, <3>1, <3>2 DEF GoesOn, Quiet
        <2> QED
            BY <1>3, <2>1, <2>4, <2>5
    <1>8. CASE ListUnreadable(p)
        <2>1. PICK l \in Listings :
                /\ <<Call("menu", "all")>> \in Programs
                /\ Becomes(p, Process(p, <<Call("menu", "all")>>, proc[p].config, l, proc[p].form,
                                      proc[p].choice, proc[p].fromMainUi))
            BY <1>2, <1>8, ListType
        <2> DEFINE r == Process(p, <<Call("menu", "all")>>, proc[p].config, l, proc[p].form,
                                proc[p].choice, proc[p].fromMainUi)
        <2>2. r \in ProcState /\ r.todo = <<Call("menu", "all")>> /\ r.open = FALSE
            BY <1>t, <2>1 DEF Process, ProcState
        <2>3. Becomes(p, r)
            BY <2>1
        <2> HIDE DEF r
        <2>4. ChoiceFits(r, reached') /\ Quiet(r.todo)
            BY <2>2, ShortFits
        <2> QED
            BY <2>2, <2>3, <2>4 DEF GoesOn
    <1>9. ASSUME NEW s \in Programs, NEW c \in ChoiceState, Leaves(p, s, c), c.uri \in Uris,
                 \/ s = <<Call("connect", "all")>>
                 \/ /\ s = <<Call("demo", "all"), Call("connect", "all")>>
                    /\ c.uri \in reached' /\ c.name = DemoName /\ c.editing
          PROVE  Goal
        <2> DEFINE r == Process(p, s, proc[p].config, NoProfiles, NoForm, c, proc[p].fromMainUi)
        <2>1. Becomes(p, r)
            BY <1>9 DEF Leaves
        <2>2. r \in ProcState /\ r.todo = s /\ r.open = FALSE /\ r.choice = c
            BY <1>t, <1>9, NothingShown DEF Process, ProcState
        <2> HIDE DEF r
        <2>3. ~Has(s, Call("save", "all"))
            <3>1. Call("save", "all") \notin {Call("demo", "all"), Call("connect", "all")}
                BY CallsDiffer
            <3> QED
                BY <1>9, <3>1, HasOne, HasTwo
        <2>4. s = <<Call("connect", "all")>> => ~Has(s, Call("demo", "all"))
            BY HasOne, CallsDiffer
        <2>5. ChoiceFits(r, reached')
            BY <1>9, <2>2, <2>3, <2>4 DEF ChoiceFits
        <2>6. GoesOn(p, r)
            <3>1. Call("demo", "all") \notin Relevant /\ Call("connect", "all") \notin Relevant
                BY CallsDiffer DEF Relevant, Staged
            <3>2. \A x : Has(s, x) => x \in {Call("demo", "all"), Call("connect", "all")}
                BY <1>9, HasOne, HasTwo
            <3> QED
                BY <2>2, <3>1, <3>2 DEF GoesOn, Quiet
        <2> QED
            BY <2>1, <2>2, <2>5, <2>6
    <1>10. CASE ActivateSelected(p) \/ Submit(p) \/ GenerateTestData(p)
        BY <1>2, <1>9, <1>10, MenuType
    <1>11. CASE OpenForm(p) \/ BackToList(p)
        <2>1. ~proc[p].open
            BY <1>1, <1>11, EncryptsAt DEF OpenForm, BackToList, InMenu, BaseInv
        <2>2. PICK f \in FormState :
                Becomes(p, Process(p, proc[p].todo, proc[p].config, proc[p].listed, f, proc[p].choice,
                                   proc[p].fromMainUi))
            BY <1>2, <1>11, <2>1, FormType
        <2> DEFINE r == Process(p, proc[p].todo, proc[p].config, proc[p].listed, f, proc[p].choice,
                                proc[p].fromMainUi)
        <2>3. /\ r \in ProcState /\ r.todo = proc[p].todo /\ r.open = FALSE /\ r.choice = proc[p].choice
              /\ r.config = proc[p].config
            BY <1>t DEF Process, ProcState
        <2>4. Becomes(p, r)
            BY <2>2
        <2> HIDE DEF r
        <2>5. ChoiceFits(r, reached)
            BY <2>3, KeptFits
        <2>6. ChoiceFits(r, reached')
            BY <1>1, <2>5, ShrinkFits
        <2> QED
            BY <2>3, <2>4, <2>6 DEF GoesOn
    <1>12. CASE ConnectFails(p) \/ SaveFails(p)
        <2>1. PICK f \in FormState :
                /\ <<Call("list", "all")>> \in Programs
                /\ Becomes(p, Process(p, <<Call("list", "all")>>, proc[p].config, proc[p].listed, f,
                                      proc[p].choice, TRUE))
            BY <1>2, <1>12, RecoverType DEF ConnectFails, SaveFails
        <2> DEFINE r == Process(p, <<Call("list", "all")>>, proc[p].config, proc[p].listed, f,
                                proc[p].choice, TRUE)
        <2>2. r \in ProcState /\ r.todo = <<Call("list", "all")>> /\ r.open = FALSE
            BY <1>t, <2>1 DEF Process, ProcState
        <2>3. Becomes(p, r)
            BY <2>1
        <2> HIDE DEF r
        <2>4. ChoiceFits(r, reached') /\ Quiet(r.todo)
            BY <2>2, ShortFits
        <2> QED
            BY <2>2, <2>3, <2>4 DEF GoesOn
    <1>13. CASE BackToProfiles(p)
        <2>1. PICK r \in ProcState : Becomes(p, r) /\ r.todo = BackToMenu /\ r.open = FALSE
            BY <1>2, <1>13, BackType
        <2>2. ChoiceFits(r, reached') /\ Quiet(r.todo)
            BY <2>1, ShortFits
        <2> QED
            BY <2>1, <2>2 DEF GoesOn
    <1> QED
        BY <1>5, <1>6, <1>7, <1>8, <1>10, <1>11, <1>12, <1>13 DEF Choosing

LEMMA ChoosingBase ==
    ASSUME BaseInv, NEW p \in Procs, Choosing(p)
    PROVE  BaseInv'
    BY ChoosingFacts, ChoosingBecomes, IdleStep

\* Plain writes.
Writing(p) == WriteSetting(p) \/ SaveSetting(p) \/ RemoveProfile(p)

LEMMA WriteFacts ==
    ASSUME BaseInv, NEW p \in Procs, Writing(p)
    PROVE  /\ Running(p) /\ ~proc[p].open /\ tx.by # p
           /\ OneKey' /\ RowsOK' /\ disk'.completed /\ tx' = tx /\ keyring' = keyring
           /\ toml' = toml /\ reached' = reached
           /\ \/ /\ disk'.profiles = disk.profiles
                 /\ \E k \in SettingKeys, v \in SettingVals :
                        /\ disk'.settings = [disk.settings EXCEPT ![k] = Plain(v)]
                        /\ \/ SaveSetting(p) /\ k \notin {"primary", "imported"}
                           \/ /\ WriteSetting(p) /\ Head1(p) = Call("set", k)
                              /\ k = "primary" => v = "null" /\ proc[p].config.primary = "null"
                              /\ k = "imported" => v = "true"
              \/ /\ RemoveProfile(p) /\ disk'.settings = disk.settings
                 /\ \E n \in Names : disk'.profiles = [disk.profiles EXCEPT ![n] = Absent]
    <1>1. OneKey /\ RowsOK /\ ProcsOK
        BY DEF BaseInv
    <1>2. Running(p) /\ ~proc[p].open /\ tx.by # p
        <2>1. At(p, "settings") \/ At(p, "remove") \/ (At(p, "set") /\ ~Encrypts(p))
            BY DEF Writing, WriteSetting, SaveSetting, RemoveProfile
        <2> QED
            BY <2>1, EncryptsAt DEF BaseInv, At
    <1>3. toml' = toml /\ reached' = reached
        BY DEF Writing, WriteSetting, SaveSetting, RemoveProfile, Others
    <1>4. Head1(p) \in ProgramCalls
        BY <1>1, <1>2, ProgramFacts
    <1>5. CASE WriteSetting(p)
        <2> DEFINE k == Head1(p).key
                   v == SetValue(p, k)
        <2>1. /\ Head1(p).do = "set" /\ ~Encrypts(p) /\ Execute(p, SetPlain(k, v))
              /\ At(p, "set")
            BY <1>5 DEF WriteSetting, At
        <2>2. k \in SettingKeys /\ Head1(p) = Call("set", k)
            BY <1>4, <2>1, KeysOfCalls
        <2>3. proc[p].config.theme \in SettingVals /\ proc[p].config.primary \in MaybeUri
            BY <1>1, PartTypes DEF ConfigState
        <2>4. v \in SettingVals /\ (k = "imported" => v = "true")
            BY <2>2, <2>3 DEF SettingKeys, SetValue, SettingVals, MaybeUri
        <2>5. k = "primary" => v = "null" /\ proc[p].config.primary = "null"
            BY <2>1 DEF Encrypts, SetValue
        <2> HIDE DEF k, v
        <2>6. /\ OneKey' /\ RowsOK' /\ disk'.completed /\ UNCHANGED tx
              /\ disk'.profiles = disk.profiles
              /\ disk'.settings = [disk.settings EXCEPT ![k] = Plain(v)]
            BY <1>1, <2>1, <2>2, <2>4, <2>5, PlainStep
        <2>7. keyring' = keyring
            BY <2>1 DEF Execute
        <2> QED
            BY <1>2, <1>3, <1>5, <2>2, <2>4, <2>5, <2>6, <2>7
    <1>6. CASE SaveSetting(p)
        <2> DEFINE k == Head1(p).key
        <2>1. Head1(p).do = "settings" /\ Execute(p, SetPlain(k, "chosen"))
            BY <1>6 DEF SaveSetting, At
        <2>2. k \in SettingKeys /\ k \notin {"primary", "imported"} /\ "chosen" \in SettingVals
            BY <1>4, <2>1, KeysOfCalls DEF SettingKeys, SettingVals
        <2> HIDE DEF k
        <2>3. /\ OneKey' /\ RowsOK' /\ disk'.completed /\ UNCHANGED tx
              /\ disk'.profiles = disk.profiles
              /\ disk'.settings = [disk.settings EXCEPT ![k] = Plain("chosen")]
            BY <1>1, <2>1, <2>2, PlainStep
        <2>4. keyring' = keyring
            BY <2>1 DEF Execute
        <2> QED
            BY <1>2, <1>3, <1>6, <2>2, <2>3, <2>4
    <1>7. CASE RemoveProfile(p)
        <2> DEFINE n == Head1(p).key
        <2>1. Head1(p).do = "remove" /\ Execute(p, DeleteRow(n))
            BY <1>7 DEF RemoveProfile, At
        <2>2. n \in Names
            BY <1>4, <2>1, KeysOfCalls
        <2> HIDE DEF n
        <2>3. /\ OneKey' /\ RowsOK' /\ disk'.completed /\ UNCHANGED tx
              /\ disk'.profiles = [disk.profiles EXCEPT ![n] = Absent]
              /\ disk'.settings = disk.settings
            BY <1>1, <2>1, <2>2, DeleteStep
        <2>4. keyring' = keyring
            BY <2>1 DEF Execute
        <2> QED
            BY <1>2, <1>3, <1>7, <2>2, <2>3, <2>4
    <1> QED
        BY <1>5, <1>6, <1>7 DEF Writing

LEMMA WriteBase ==
    ASSUME BaseInv, NEW p \in Procs, Writing(p)
    PROVE  BaseInv'
    <1>1. /\ Running(p) /\ tx.by # p
          /\ OneKey' /\ RowsOK' /\ disk'.completed /\ tx' = tx /\ keyring' = keyring
          /\ toml' = toml /\ reached' = reached
        BY WriteFacts
    <1>2. ProcsOK /\ toml' \in TomlFile /\ reached \subseteq reached' /\ reached' \subseteq Uris
        BY <1>1 DEF BaseInv
    <1>t. proc[p] \in ProcState
        BY <1>2 DEF ProcsOK
    <1>3. \E r \in ProcState : Becomes(p, r) /\ r.open = FALSE /\ ChoiceFits(r, reached)
        <2>1. CASE WriteSetting(p) \/ SaveSetting(p)
            <3>1. Becomes(p, Then(p, Rest(p))) /\ Rest(p) \in Programs
                BY <1>2, <2>1, AdvancesType DEF Advances
            <3> QED
                BY <1>1, <1>2, <3>1, ThenType, RestFits
        <2>2. CASE RemoveProfile(p)
            <3>1. PICK l \in Listings :
                    /\ Rest(p) \in Programs
                    /\ Becomes(p, Process(p, Rest(p), proc[p].config, l, proc[p].form, proc[p].choice,
                                          proc[p].fromMainUi))
                BY <1>2, <2>2, RemoveType
            <3> DEFINE r == Process(p, Rest(p), proc[p].config, l, proc[p].form, proc[p].choice,
                                    proc[p].fromMainUi)
            <3>2. r \in ProcState /\ r.todo = Rest(p) /\ r.open = FALSE /\ r.choice = proc[p].choice
                BY <1>t, <3>1 DEF Process, ProcState
            <3>3. Becomes(p, r)
                BY <3>1
            <3> HIDE DEF r
            <3> QED
                BY <1>1, <3>2, <3>3, RestFits
        <2> QED
            BY <2>1, <2>2 DEF Writing
    <1>4. tx' = NoTx \/ (tx' = tx /\ keyring' = keyring /\ tx.by # p)
        BY <1>1
    <1> QED
        BY <1>1, <1>2, <1>3, <1>4, BaseStep

\* The end of a transaction.
Committing(p) == CommitPrimary(p) \/ CommitDemo(p) \/ CommitProfile(p)

LEMMA CommitFacts ==
    ASSUME BaseInv, NEW p \in Procs, Committing(p)
    PROVE  /\ Running(p) /\ proc[p].open /\ disk.completed
           /\ OneKey' /\ RowsOK' /\ tx' = NoTx /\ disk'.completed
           /\ toml' = toml /\ reached' = reached /\ keyring # 0
           /\ CommitPrimary(p) =>
                /\ Head1(p) = Call("set", "primary") /\ proc[p].config.primary \in Uris
                /\ disk'.profiles = disk.profiles
                /\ disk'.settings = [disk.settings EXCEPT !["primary"] =
                                        Sealed(proc[p].config.primary, keyring)]
           /\ ~CommitPrimary(p) =>
                /\ proc[p].choice.uri \in reached /\ disk'.settings = disk.settings
                /\ \E n \in ToldNames :
                    /\ disk'.profiles = [disk.profiles EXCEPT ![n] = Sealed(proc[p].choice.uri, keyring)]
                    /\ n = proc[p].choice.name
                    /\ proc[p].choice.editing \/ disk.profiles[n] = Absent
    <1>1. OneKey /\ RowsOK /\ ProcsOK /\ reached \subseteq Uris
        BY DEF BaseInv
    <1>2. /\ Running(p) /\ proc[p].open /\ tx.by = p /\ toml' = toml /\ reached' = reached
        BY DEF Committing, CommitPrimary, CommitDemo, CommitProfile, Ready, At, InTx, Others
    <1>3. disk.completed /\ tx.key = keyring /\ keyring # 0
        BY <1>2, StoreAssumption DEF BaseInv, OpenOK, TxOK, NoTx
    <1>4. CASE CommitPrimary(p)
        <2>1. /\ Encrypts(p) /\ At(p, "set") /\ Commit(SealPrimary(SetValue(p, "primary")))
            BY <1>2, <1>4 DEF CommitPrimary, Ready, BaseInv, OpenOK
        <2>2. Head1(p).key = "primary" /\ SetValue(p, "primary") # "null" /\ Head1(p).do = "set"
            BY <2>1 DEF Encrypts, At
        <2>3. SetValue(p, "primary") = proc[p].config.primary
            BY DEF SetValue
        <2>4. proc[p].config.primary \in MaybeUri
            BY <1>1, PartTypes DEF ConfigState
        <2>5. proc[p].config.primary \in Uris
            BY <2>2, <2>3, <2>4 DEF MaybeUri
        <2>6. Head1(p) = Call("set", "primary")
            BY <1>1, <1>2, <2>2, ProgramFacts, KeysOfCalls
        <2>7. Commit(SealPrimary(proc[p].config.primary))
            BY <2>1, <2>3
        <2>8. /\ OneKey' /\ RowsOK' /\ tx' = NoTx /\ disk'.completed
              /\ disk'.profiles = disk.profiles
              /\ disk'.settings = [disk.settings EXCEPT !["primary"] =
                                        Sealed(proc[p].config.primary, keyring)]
            BY <1>1, <1>3, <2>5, <2>7, CommitPrimaryStep
        <2> QED
            BY <1>2, <1>3, <1>4, <2>5, <2>6, <2>8
    <1>5. ASSUME ~CommitPrimary(p)
          PROVE  /\ OneKey' /\ RowsOK' /\ tx' = NoTx /\ disk'.completed
                 /\ proc[p].choice.uri \in reached /\ disk'.settings = disk.settings
                 /\ \E n \in ToldNames :
                    /\ disk'.profiles = [disk.profiles EXCEPT ![n] = Sealed(proc[p].choice.uri, keyring)]
                    /\ n = proc[p].choice.name
                    /\ proc[p].choice.editing \/ disk.profiles[n] = Absent
        <2> DEFINE n == proc[p].choice.name
                   u == proc[p].choice.uri
        <2>1. n \in ToldNames
            BY <1>1, PartTypes DEF ChoiceState
        <2>2. u \in reached /\ (CommitDemo(p) => n = DemoName /\ proc[p].choice.editing)
            <3>1. /\ CommitDemo(p) => Ahead(p, Call("demo", "all"))
                  /\ CommitProfile(p) => Ahead(p, Call("save", "all"))
                BY <1>1, <1>2, HeadIsAhead DEF CommitDemo, CommitProfile, Ready
            <3> QED
                BY <1>5, <3>1 DEF Committing, BaseInv, ChoiceOK, ChoiceFits, Ahead
        <2>3. Commit(SealProfile(n, u)) /\ (proc[p].choice.editing \/ disk.profiles[n] = Absent)
            <3>1. CASE CommitDemo(p)
                BY <2>2, <3>1 DEF CommitDemo
            <3>2. CASE CommitProfile(p)
                BY <3>2 DEF CommitProfile, Writes
            <3> QED
                BY <1>5, <3>1, <3>2 DEF Committing
        <2>4. u \in Uris
            BY <1>1, <2>2
        <2>5. /\ OneKey' /\ RowsOK' /\ tx' = NoTx /\ disk'.completed
              /\ disk'.profiles = [disk.profiles EXCEPT ![n] = Sealed(u, keyring)]
              /\ disk'.settings = disk.settings
            BY <1>1, <1>3, <2>1, <2>3, <2>4, CommitProfileStep
        <2> QED
            BY <2>1, <2>2, <2>3, <2>5
    <1> QED
        BY <1>2, <1>3, <1>4, <1>5

LEMMA CommitBase ==
    ASSUME BaseInv, NEW p \in Procs, Committing(p)
    PROVE  BaseInv'
    <1>1. /\ Running(p)
          /\ OneKey' /\ RowsOK' /\ tx' = NoTx /\ disk'.completed /\ toml' = toml /\ reached' = reached
        BY CommitFacts
    <1>2. ProcsOK /\ toml' \in TomlFile /\ reached \subseteq reached' /\ reached' \subseteq Uris
        BY <1>1 DEF BaseInv
    <1>t. proc[p] \in ProcState
        BY <1>2 DEF ProcsOK
    <1>3. \E r \in ProcState : Becomes(p, r) /\ r.open = FALSE /\ ChoiceFits(r, reached)
        <2>1. CASE CommitPrimary(p) \/ CommitDemo(p)
            <3>1. Becomes(p, Then(p, Rest(p))) /\ Rest(p) \in Programs
                BY <1>2, <2>1, AdvancesType DEF Advances
            <3> QED
                BY <1>1, <1>2, <3>1, ThenType, RestFits
        <2>2. CASE CommitProfile(p)
            <3>1. PICK c \in ChoiceState :
                    /\ Rest(p) \in Programs
                    /\ c.uri = proc[p].choice.uri /\ c.name = proc[p].choice.name /\ c.editing
                    /\ Becomes(p, Process(p, Rest(p), proc[p].config, proc[p].listed, proc[p].form, c,
                                          proc[p].fromMainUi))
                BY <1>2, <2>2, SavedType
            <3> DEFINE r == Process(p, Rest(p), proc[p].config, proc[p].listed, proc[p].form, c,
                                    proc[p].fromMainUi)
            <3>2. r \in ProcState /\ r.todo = Rest(p) /\ r.open = FALSE /\ r.choice = c
                BY <1>t, <3>1 DEF Process, ProcState
            <3>3. Becomes(p, r)
                BY <3>1
            <3> HIDE DEF r
            <3> QED
                BY <1>1, <3>1, <3>2, <3>3, RestFits
        <2> QED
            BY <2>1, <2>2 DEF Committing
    <1> QED
        BY <1>1, <1>2, <1>3, BaseStep

LEMMA RollbackBase ==
    ASSUME BaseInv, NEW p \in Procs, SaveConflicts(p)
    PROVE  BaseInv' /\ UNCHANGED <<disk, toml>>
    <1>1. ProcsOK
        BY DEF BaseInv
    <1>t. proc[p] \in ProcState
        BY <1>1 DEF ProcsOK
    <1>2. /\ tx' = NoTx /\ UNCHANGED <<disk, keyring, made, cache, toml, reached>> /\ Recover(p)
        BY DEF SaveConflicts, Rollback, Recover, Others
    <1>3. OneKey' /\ RowsOK' /\ (disk.completed => disk'.completed)
        BY <1>2 DEF BaseInv, OneKey, RowsOK, Readable, ProfileRowOK, PrimaryRowOK
    <1>4. PICK f \in FormState :
            /\ <<Call("list", "all")>> \in Programs
            /\ Becomes(p, Process(p, <<Call("list", "all")>>, proc[p].config, proc[p].listed, f,
                                  proc[p].choice, TRUE))
        BY <1>1, <1>2, RecoverType
    <1> DEFINE r == Process(p, <<Call("list", "all")>>, proc[p].config, proc[p].listed, f,
                            proc[p].choice, TRUE)
    <1>5. r \in ProcState /\ r.todo = <<Call("list", "all")>> /\ r.open = FALSE
        BY <1>t, <1>4 DEF Process, ProcState
    <1>6. Becomes(p, r)
        BY <1>4
    <1> HIDE DEF r
    <1>7. ChoiceFits(r, reached')
        BY <1>5, ShortFits
    <1>8. toml' \in TomlFile /\ reached \subseteq reached' /\ reached' \subseteq Uris
        BY <1>2 DEF BaseInv
    <1> QED
        BY <1>2, <1>3, <1>5, <1>6, <1>7, <1>8, BaseStep

\* A call that encrypts opens its connection, and begins its transaction.
LEMMA OpenBase ==
    ASSUME BaseInv, NEW p \in Procs, OpenCall(p)
    PROVE  /\ BaseInv' /\ disk'.settings = disk.settings /\ disk'.profiles = disk.profiles
           /\ toml' = toml
    <1>1. ProcsOK
        BY DEF BaseInv
    <1>2. /\ Encrypts(p) /\ ~proc[p].open /\ OpenedBy(p)
          /\ UNCHANGED <<keyring, made, tx, toml, reached>>
        BY DEF OpenCall, OpenedBy, Others
    <1>3. /\ OneKey' /\ RowsOK' /\ disk'.completed
          /\ disk'.settings = disk.settings /\ disk'.profiles = disk.profiles
        BY <1>2, OpenStep DEF BaseInv
    <1> DEFINE r == [proc[p] EXCEPT !.open = TRUE]
    <1>4. Becomes(p, r) /\ r \in ProcState
        BY <1>1, OpenType
    <1>5. /\ r.todo = proc[p].todo /\ r.choice = proc[p].choice /\ r.config = proc[p].config
        BY <1>1, PartTypes DEF ProcState
    <1> HIDE DEF r
    <1>6. ProcsOK' /\ proc'[p] = r /\ \A q \in Procs \ {p} : proc'[q] = proc[q]
        BY <1>1, <1>4, BecomesType
    <1>7. Encrypts(p)'
        BY <1>2, <1>5, <1>6 DEF Encrypts, At, Running, Head1, SetValue
    <1>8. OpenOK'
        <2> SUFFICES ASSUME NEW q \in Procs, proc'[q].open PROVE Encrypts(q)' /\ disk'.completed
            BY DEF OpenOK
        <2>1. CASE q = p
            BY <1>3, <1>7, <2>1
        <2>2. CASE q # p
            BY <1>3, <1>6, <2>2, SameEncrypts DEF BaseInv, OpenOK
        <2> QED
            BY <2>1, <2>2
    <1>9. TxOK'
        <2>1. tx.by # p
            BY <1>2, EncryptsAt DEF BaseInv
        <2> QED
            BY <1>2, <1>6, <2>1 DEF BaseInv, TxOK, NoTx
    <1>10. ChoiceOK'
        <2> SUFFICES ASSUME NEW q \in Procs PROVE ChoiceFits(proc'[q], reached')
            BY DEF ChoiceOK, ChoiceFits
        <2>1. CASE q = p
            BY <1>2, <1>5, <1>6, <2>1, KeptFits
        <2>2. CASE q # p
            BY <1>2, <1>6, <2>2 DEF BaseInv, ChoiceOK, ChoiceFits
        <2> QED
            BY <2>1, <2>2
    <1> QED
        BY <1>2, <1>3, <1>6, <1>8, <1>9, <1>10 DEF BaseInv

LEMMA BeginBase ==
    ASSUME BaseInv, NEW p \in Procs, BeginWrite(p)
    PROVE  BaseInv' /\ UNCHANGED <<disk, proc, toml>>
    <1>1. /\ proc[p].open /\ WriteContext(p, CacheOf(p)) /\ UNCHANGED <<proc, toml, reached>>
        BY DEF BeginWrite, Others
    <1>2. CacheOf(p) \in {0, cache[p]}
        BY DEF CacheOf
    <1>3. /\ OneKey' /\ RowsOK' /\ tx = NoTx /\ UNCHANGED disk
          /\ tx' = [by |-> p, key |-> keyring'] /\ keyring' # 0
        BY <1>1, <1>2, BeginStep DEF BaseInv
    <1>4. TxOK'
        BY <1>1, <1>3 DEF TxOK, NoTx, OneKey
    <1>5. OpenOK'
        BY <1>1, <1>3, SameEncrypts DEF BaseInv, OpenOK
    <1>6. ProcsOK' /\ ChoiceOK' /\ (toml \in TomlFile)' /\ (reached \subseteq Uris)'
        BY <1>1 DEF BaseInv, ProcsOK, ChoiceOK, ChoiceFits
    <1> QED
        BY <1>1, <1>3, <1>4, <1>5, <1>6 DEF BaseInv

(***************************************************************************)
(* The theorems about the store and the profiles.                          *)
(***************************************************************************)
Exiting(p) == CheckConnection(p) \/ CancelSelection(p) \/ QuitSelection(p) \/ Quit(p) \/ Die(p)

LEMMA StepKinds ==
    ASSUME Next
    PROVE  \E p \in Procs :
              \/ Start(p) \/ Reading(p) \/ Configuring(p) \/ Choosing(p) \/ Writing(p)
              \/ Committing(p) \/ SaveConflicts(p) \/ OpenCall(p) \/ BeginWrite(p) \/ Exiting(p)
    <1> DEFINE Kinds(p) ==
              \/ Start(p) \/ Reading(p) \/ Configuring(p) \/ Choosing(p) \/ Writing(p)
              \/ Committing(p) \/ SaveConflicts(p) \/ OpenCall(p) \/ BeginWrite(p) \/ Exiting(p)
    <1>1. PICK p \in Procs :
        \/ Start(p) \/ InitStore(p) \/ ReadMarker(p) \/ LoadFromDisk(p) \/ EnsureSetting(p)
        \/ Hydrate(p) \/ MatchPrimary(p) \/ OpenCall(p) \/ WriteSetting(p) \/ BeginWrite(p)
        \/ CommitPrimary(p) \/ ScrubNothing(p) \/ ScrubTruncates(p) \/ ScrubWrites(p)
        \/ ResolveDirect(p) \/ CheckConnection(p) \/ ResolveMenu(p)
        \/ ListProfiles(p) \/ ListUnreadable(p)
        \/ ActivateSelected(p) \/ OpenForm(p) \/ BackToList(p) \/ CancelSelection(p)
        \/ QuitSelection(p) \/ DeleteSelected(p) \/ RemoveProfile(p) \/ Submit(p)
        \/ GenerateTestData(p) \/ CommitDemo(p)
        \/ Connect(p) \/ ConnectFails(p) \/ CommitProfile(p) \/ SaveConflicts(p) \/ SaveFails(p)
        \/ ChooseSetting(p) \/ SaveSetting(p) \/ SaveSettingFails(p) \/ Quit(p) \/ BackToProfiles(p)
        \/ Die(p)
        BY DEF Next
    <1>2. Kinds(p)
        BY <1>1 DEF Reading, Configuring, Choosing, Writing, Committing, Exiting
    <1> QED
        BY <1>2

LEMMA BaseInit == Init => BaseInv
    <1> SUFFICES ASSUME Init PROVE BaseInv
        OBVIOUS
    <1>1. /\ disk \in InitialStores /\ StoreInit /\ toml \in Tomls /\ proc = [p \in Procs |-> Ended]
          /\ reached = {}
        BY DEF Init
    <1>2. ProcsOK /\ ChoiceOK /\ toml \in TomlFile /\ reached \subseteq Uris
        <2>1. Ended \in ProcState
            BY EndedType
        <2>2. toml \in TomlFile
            BY <1>1, TomlAssumption
        <2> QED
            BY <1>1, <2>1, <2>2, EndedFits DEF ProcsOK, ChoiceOK
    <1>3. \A p \in Procs : ~proc[p].open
        BY <1>1 DEF Ended
    <1>4. MaxKeys \in Nat \ {0} /\ 1 \in 0 .. MaxKeys /\ 0 \in 0 .. MaxKeys
        BY StoreAssumption
    <1> DEFINE empty == [n \in Names |-> Absent]
               plain == {Absent, Null, Plain("default"), Plain("true")}
    <1>5. Absent \in Rows /\ plain \subseteq SettingRows
        BY <1>4 DEF Absent, Null, Plain, Rows, SettingRows
    <1>6. /\ NewStore \in DiskType /\ NewStore.profiles = empty
          /\ NewStore.settings["primary"] = Absent
        BY <1>5 DEF NewStore, DiskType, SettingKeys
    <1>7. /\ InUse \in DiskType /\ InUse.profiles = empty /\ InUse.completed
          /\ InUse.settings["primary"] = Null
        <2> DEFINE ss == [NewStore.settings EXCEPT !["theme"] = Plain("default"), !["primary"] = Null,
                                                   !["imported"] = Plain("true"), !["tick"] = Plain("default")]
        <2>1. InUse = [NewStore EXCEPT !.version = 3, !.id = TRUE, !.completed = TRUE, !.settings = ss]
            BY <1>6 DEF InUse, DiskType
        <2>2. ss \in [SettingKeys -> SettingRows] /\ ss["primary"] = Null
            BY <1>5, <1>6 DEF SettingKeys, DiskType
        <2> HIDE DEF ss
        <2> QED
            BY <1>6, <2>1, <2>2 DEF DiskType
    <1>8. CASE disk = NewStore
        <2>1. SensitiveRows(disk) = {}
            BY <1>6, <1>8, Sensitive
        <2>2. made = 0 /\ keyring = 0 /\ cache = [p \in Procs |-> 0] /\ tx = NoTx
            BY <1>1, <2>1 DEF StoreInit
        <2>3. OneKey /\ TxOK /\ OpenOK
            BY <1>3, <1>4, <2>2, StoreAssumption DEF OneKey, TxOK, OpenOK, NoTx
        <2>4. RowsOK
            BY <1>6, <1>8, <2>1 DEF RowsOK, Readable, ProfileRowOK, PrimaryRowOK
        <2> QED
            BY <1>2, <2>3, <2>4 DEF BaseInv
    <1>9. CASE \E n \in Names, u \in Uris : disk = WithProfile(n, u)
        <2>1. PICK n \in Names, u \in Uris : disk = WithProfile(n, u)
            BY <1>9
        <2>2. Sealed(u, 1) \in Rows /\ Sealed(u, 1) # Absent /\ Sealed(u, 1) \in [val : Uris, key : {1}]
            BY <1>4 DEF Sealed, Rows, Absent
        <2> DEFINE ps == [empty EXCEPT ![n] = Sealed(u, 1)]
        <2>3. disk = [InUse EXCEPT !.keyInitialized = TRUE, !.profiles = ps]
            BY <1>7, <2>1 DEF WithProfile, DiskType
        <2>4. ps \in [Names -> Rows] /\ \A m \in Names : ps[m] = Absent \/ ps[m] = Sealed(u, 1)
            BY <1>5, <2>2
        <2>5. ps[n] # Absent
            BY <2>2
        <2> HIDE DEF ps
        <2>6. /\ disk \in DiskType /\ disk.profiles = ps /\ disk.completed /\ disk.keyInitialized
              /\ disk.settings["primary"] = Null
            BY <1>7, <2>3, <2>4 DEF DiskType
        <2>7. SensitiveRows(disk) # {}
            BY <2>5, <2>6, Sensitive
        <2>8. made = 1 /\ keyring = 1 /\ cache = [p \in Procs |-> 0] /\ tx = NoTx
            BY <1>1, <2>7 DEF StoreInit
        <2>9. OneKey /\ TxOK /\ OpenOK
            BY <1>3, <1>4, <2>8, StoreAssumption DEF OneKey, TxOK, OpenOK, NoTx
        <2>10. RowsOK
            BY <2>2, <2>4, <2>6, <2>8 DEF RowsOK, Readable, ProfileRowOK, PrimaryRowOK
        <2> QED
            BY <1>2, <2>9, <2>10 DEF BaseInv
    <1> QED
        BY <1>1, <1>8, <1>9, StartupAssumption DEF InitialStores

LEMMA BaseStutter ==
    ASSUME BaseInv, UNCHANGED vars
    PROVE  BaseInv'
    <1>1. UNCHANGED <<disk, keyring, made, cache, tx, toml, proc, starts, acts, reached>>
        BY DEF vars, storeVars
    <1>2. OneKey' /\ RowsOK'
        BY <1>1 DEF BaseInv, OneKey, RowsOK, Readable, ProfileRowOK, PrimaryRowOK
    <1>3. TxOK' /\ OpenOK'
        BY <1>1, SameEncrypts DEF BaseInv, TxOK, OpenOK
    <1>4. ProcsOK' /\ ChoiceOK' /\ (toml \in TomlFile)' /\ (reached \subseteq Uris)'
        BY <1>1 DEF BaseInv, ProcsOK, ChoiceOK, ChoiceFits
    <1> QED
        BY <1>2, <1>3, <1>4 DEF BaseInv

LEMMA BaseNext ==
    ASSUME BaseInv, Next
    PROVE  BaseInv'
    <1>1. PICK p \in Procs :
              \/ Start(p) \/ Reading(p) \/ Configuring(p) \/ Choosing(p) \/ Writing(p)
              \/ Committing(p) \/ SaveConflicts(p) \/ OpenCall(p) \/ BeginWrite(p) \/ Exiting(p)
        BY StepKinds
    <1>2. Exiting(p) => Exit(p)
        BY DEF Exiting, CheckConnection, CancelSelection, QuitSelection, Quit, Die
    <1> QED
        BY <1>1, <1>2, StartBase, ReadBase, ConfigBase, ChoosingBase, WriteBase, CommitBase,
           RollbackBase, OpenBase, BeginBase, ExitBase

(***************************************************************************)
(* Every process keeps to its program, whoever else is on the store, and   *)
(* there is one key, made once, that all that is encrypted is under        *)
(* (encryption::write_context, KeyManager).                                *)
(***************************************************************************)
THEOREM StartupInvariance == Spec => []BaseInv
    <1>1. BaseInv /\ [Next]_vars => BaseInv'
        BY BaseNext, BaseStutter
    <1> QED
        BY BaseInit, <1>1, PTL DEF Spec

(***************************************************************************)
(* The file, the store and each process have their types, and a process    *)
(* has a connection open only for a call that encrypts.                    *)
(***************************************************************************)
THEOREM StartupTypeCorrect == Spec => []StartupTypeOK
    <1>1. BaseInv => StartupTypeOK
        <2> SUFFICES ASSUME BaseInv PROVE StartupTypeOK
            OBVIOUS
        <2>1. disk \in DiskType /\ keyring \in 0 .. MaxKeys /\ made \in 0 .. MaxKeys
              /\ cache \in [Procs -> 0 .. MaxKeys] /\ tx \in [by : Procs \cup {NoProc}, key : 0 .. MaxKeys]
            BY DEF BaseInv, OneKey, RowsOK, Readable, TxOK
        <2>2. StoreTypeOK
            BY <2>1 DEF StoreTypeOK, DiskType
        <2>3. ASSUME NEW p \in Procs
              PROVE  /\ proc[p].choice.uri \in Uris \cup {"null"}
                     /\ proc[p].form.is \in {"list", "form", "test"}
                     /\ proc[p].listed \in [Names -> Uris \cup {"absent"}]
                     /\ proc[p].open => Encrypts(p)
            <3>1. proc[p].choice \in ChoiceState /\ proc[p].form \in FormState /\ proc[p].listed \in Listings
                BY PartTypes DEF BaseInv
            <3>2. proc[p].open => Encrypts(p)
                BY DEF BaseInv, OpenOK
            <3> QED
                BY <3>1, <3>2 DEF ChoiceState, FormState, Listings, MaybeUri
        <2> QED
            BY <2>2, <2>3 DEF StartupTypeOK, BaseInv
    <1> QED
        BY StartupInvariance, <1>1, PTL

(***************************************************************************)
(* Wherever the processes stopped, the next one opens the store: whatever  *)
(* is encrypted is under the key that the keyring has, and the metadata    *)
(* says so (encryption::initialize).                                       *)
(***************************************************************************)
THEOREM StoreAlwaysOpens == Spec => []StoreOpensAgain
    <1>1. BaseInv => StoreOpensAgain
        <2> SUFFICES ASSUME BaseInv PROVE StoreOpensAgain
            OBVIOUS
        <2> DEFINE e == CurrentSchema(disk)
        <2>1. OneKey /\ RowsOK /\ disk \in DiskType
            BY DEF BaseInv, RowsOK, Readable
        <2>2. /\ e.completed = disk.completed /\ e.keyInitialized = disk.keyInitialized
              /\ SensitiveRows(e) = SensitiveRows(disk)
            BY <2>1, SchemaKeeps
        <2> HIDE DEF e
        <2>3. \A r \in SensitiveRows(disk) : r.key = keyring
            BY <2>1 DEF RowsOK, Readable, ProfileRowOK, PrimaryRowOK, SensitiveRows, ProfileRows, PrimaryRows
        <2>4. SensitiveRows(disk) # {} => keyring # 0 /\ disk.completed /\ disk.keyInitialized
            BY <2>1 DEF RowsOK, Readable
        <2>5. EncryptionOK(e, 0)
            BY <2>2, <2>3, <2>4 DEF EncryptionOK, HasEncrypted, HasPlaintext, RowsDecrypt, Load
        <2> QED
            BY <2>5 DEF e, StoreOpensAgain
    <1> QED
        BY StartupInvariance, <1>1, PTL

\* What a step does to the profiles.
LEMMA ProfileSteps ==
    ASSUME BaseInv, Next
    PROVE  \/ disk'.profiles = disk.profiles
           \/ \E n \in Names : disk'.profiles = [disk.profiles EXCEPT ![n] = Absent]
           \/ \E p \in Procs : \E n \in ToldNames :
                /\ proc[p].choice.uri \in reached /\ n = proc[p].choice.name
                /\ disk'.profiles = [disk.profiles EXCEPT ![n] = Sealed(proc[p].choice.uri, keyring)]
                /\ proc[p].choice.editing \/ disk.profiles[n] = Absent
    <1>1. PICK p \in Procs :
              \/ Start(p) \/ Reading(p) \/ Configuring(p) \/ Choosing(p) \/ Writing(p)
              \/ Committing(p) \/ SaveConflicts(p) \/ OpenCall(p) \/ BeginWrite(p) \/ Exiting(p)
        BY StepKinds
    <1>2. CASE Start(p) \/ Configuring(p) \/ Choosing(p) \/ SaveConflicts(p) \/ BeginWrite(p) \/ Exiting(p)
        <2>1. disk' = disk
            <3>1. Start(p) \/ Configuring(p) \/ Choosing(p) => disk' = disk
                BY ConfigFacts, ChoosingFacts DEF Start, storeVars
            <3>2. Exiting(p) => Exit(p)
                BY DEF Exiting, CheckConnection, CancelSelection, QuitSelection, Quit, Die
            <3> QED
                BY <1>2, <3>1, <3>2, RollbackBase, BeginBase, ExitBase
        <2> QED
            BY <2>1
    <1>3. CASE Reading(p)
        BY <1>3, ReadFacts
    <1>4. CASE OpenCall(p)
        BY <1>4, OpenBase
    <1>5. CASE Writing(p)
        BY <1>5, WriteFacts
    <1>6. CASE Committing(p)
        BY <1>6, CommitFacts
    <1> QED
        BY <1>1, <1>2, <1>3, <1>4, <1>5, <1>6

(***************************************************************************)
(* No profile is saved before it connected, and a profile there is changes *)
(* only for a user who edited it, whatever another process did to the      *)
(* store since (persist_after_success, insert, upsert).                    *)
(***************************************************************************)
THEOREM ProfilesAreKept == Spec => ProfilesKept
    <1> DEFINE Kept ==
          \A n \in Names :
              LET old == disk.profiles[n].val
                  new == disk'.profiles[n].val
              IN  new \notin {old, "absent"} =>
                    /\ new \in reached
                    /\ old # "absent" => \E p \in Procs : Edits(p, n, new)
    <1>1. BaseInv /\ [Next]_vars => [Kept]_vars
        <2> SUFFICES ASSUME BaseInv, Next, NEW n \in Names,
                            disk'.profiles[n].val \notin {disk.profiles[n].val, "absent"}
                     PROVE  /\ disk'.profiles[n].val \in reached
                            /\ disk.profiles[n].val # "absent" =>
                                  \E p \in Procs : Edits(p, n, disk'.profiles[n].val)
            OBVIOUS
        <2>1. disk.profiles \in [Names -> Rows]
            BY DEF BaseInv, RowsOK, Readable, DiskType
        <2>2. ~\E m \in Names : disk'.profiles = [disk.profiles EXCEPT ![m] = Absent]
            <3> SUFFICES ASSUME NEW m \in Names, disk'.profiles = [disk.profiles EXCEPT ![m] = Absent]
                         PROVE  FALSE
                OBVIOUS
            <3>1. CASE m = n
                BY <2>1, <3>1 DEF Absent
            <3>2. CASE m # n
                BY <2>1, <3>2
            <3> QED
                BY <3>1, <3>2
        <2>3. PICK p \in Procs : \E m \in ToldNames :
                /\ proc[p].choice.uri \in reached /\ m = proc[p].choice.name
                /\ disk'.profiles = [disk.profiles EXCEPT ![m] = Sealed(proc[p].choice.uri, keyring)]
                /\ proc[p].choice.editing \/ disk.profiles[m] = Absent
            BY <2>2, ProfileSteps
        <2>4. n = proc[p].choice.name /\ disk'.profiles[n].val = proc[p].choice.uri
            BY <2>1, <2>3 DEF Sealed
        <2>5. disk.profiles[n].val # "absent" => proc[p].choice.editing
            BY <2>3, <2>4 DEF Absent
        <2> QED
            BY <2>3, <2>4, <2>5 DEF Edits
    <1> QED
        BY StartupInvariance, <1>1, PTL DEF Spec, ProfilesKept

(***************************************************************************)
(* The primary connection.                                                 *)
(*                                                                         *)
(* It is in config.toml until SQLite has it encrypted.  A process settles  *)
(* it in an order of calls (Stage): read config.toml, replace it by what   *)
(* SQLite has, write it, mark the import, take it out of config.toml.      *)
(***************************************************************************)
Imported == disk.settings["imported"] = Plain("true")

\* The primary connection of the user: what config.toml has, else the store.
PrimaryOf(inToml, row) ==
    IF inToml # "null" THEN inToml ELSE IF row.key # 0 THEN row.val ELSE "null"
Primary == PrimaryOf(toml.primary, PrimaryRow)

\* What a program s of a process whose configuration has the primary v relies
\* on, where the row of the store and config.toml are these.
Settles(s, v, primary, row, imported, inToml) ==
    /\ Ordered(s)
    /\ Has(s, Call("disk", "all")) => Has(s, Call("match", "primary")) /\ Has(s, Call("hydrate", "primary"))
    /\ Has(s, Call("match", "primary")) => Has(s, Call("set", "primary"))
    /\ Has(s, Call("set", "primary")) => Has(s, Call("set", "imported"))
    /\ Has(s, Call("hydrate", "primary")) /\ Has(s, Call("set", "primary")) => Has(s, Call("match", "primary"))
    /\ Has(s, Call("ensure", "primary")) => imported
    /\ Has(s, Call("hydrate", "primary")) => Has(s, Call("set", "primary")) \/ imported
    /\ Has(s, Call("set", "primary")) /\ row = Null => primary = "null"
    /\ Has(s, Call("match", "primary")) /\ ~Has(s, Call("disk", "all")) =>
          v = primary \/ (v = "null" /\ row.key # 0)
    /\ Has(s, Call("set", "primary")) /\ ~Has(s, Call("hydrate", "primary")) => v = primary
    /\ Has(s, Call("set", "imported")) /\ ~Has(s, Call("set", "primary")) => row # Absent
    /\ Has(s, Call("scrub", "primary")) /\ ~Has(s, Call("set", "primary"))
       /\ ~Has(s, Call("hydrate", "primary")) /\ v # "null" => row.key # 0 /\ row.val = v
    /\ Has(s, Call("rewrite", "primary")) => inToml = "null"

\* What the store and config.toml agree on.
Agrees(primary, row, imported) ==
    /\ imported => row # Absent
    /\ row.key # 0 => row.val = primary
    /\ ~imported /\ row = Null => primary = "null"

PrimaryInv ==
    /\ Agrees(Primary, PrimaryRow, Imported)
    /\ \A p \in Procs : Settles(proc[p].todo, proc[p].config.primary, Primary, PrimaryRow, Imported,
                                toml.primary)

LEMMA StagedCalls ==
    /\ \A c : c \in Staged <=> Stage(c) > 0
    /\ Call("rewrite", "primary") \notin Staged
    BY CallsDiffer DEF Stage, Staged

\* The row of the primary connection: none, "null", or encrypted.
RowFits(row) == row = Absent \/ row = Null \/ (row.key # 0 /\ row.val # "null")

LEMMA PrimaryRowFits ==
    ASSUME RowsOK
    PROVE  RowFits(PrimaryRow)
    <1>1. PrimaryRowOK(PrimaryRow) /\ (PrimaryRow \notin {Absent, Null} => keyring # 0)
        BY Sensitive DEF RowsOK, Readable, PrimaryRow
    <1> QED
        BY <1>1, StoreAssumption DEF PrimaryRowOK, RowFits

LEMMA PlainRows == Absent.key = 0 /\ Null.key = 0 /\ Null.val = "null" /\ Absent # Null
    BY DEF Absent, Null, Plain

\* A program is settled where the store has moved on as it may.
LEMMA SettlesOn ==
    ASSUME NEW s, NEW v, NEW pr, NEW row, NEW imp, NEW t, Settles(s, v, pr, row, imp, t),
           NEW row2, NEW imp2, NEW t2,
           imp => imp2, row.key # 0 => row2.key # 0 /\ row2.val = row.val,
           row # Absent => row2 # Absent, row2 = Null => row = Null \/ pr = "null",
           t = "null" => t2 = "null"
    PROVE  Settles(s, v, pr, row2, imp2, t2)
    BY DEF Settles

\* A program none of whose calls matter to the primary connection.
LEMMA SettlesNothing ==
    ASSUME NEW s, NEW v, NEW pr, NEW row, NEW imp, NEW t, \A c \in Staged : ~Has(s, c),
           Has(s, Call("rewrite", "primary")) => t = "null"
    PROVE  Settles(s, v, pr, row, imp, t)
    <1>1. Ordered(s)
        BY UnstagedIsOrdered, StagedCalls, Stages
    <1> QED
        BY <1>1 DEF Settles, Staged

\* A program that has the same calls that matter.
LEMMA SettlesSame ==
    ASSUME NEW s, NEW v, NEW pr, NEW row, NEW imp, NEW t, Settles(s, v, pr, row, imp, t),
           NEW s2, Ordered(s2), \A c \in Staged : Has(s2, c) <=> Has(s, c),
           Has(s2, Call("rewrite", "primary")) => t = "null"
    PROVE  Settles(s2, v, pr, row, imp, t)
    BY DEF Settles, Staged

\* The first call of a program is done, and it is not one that matters.
LEMMA SettlesTail ==
    ASSUME NEW s \in Programs, s # <<>>, Stage(Head(s)) = 0,
           NEW v, NEW pr, NEW row, NEW imp, NEW t, Settles(s, v, pr, row, imp, t)
    PROVE  Settles(Tail(s), v, pr, row, imp, t)
    <1>1. Ordered(Tail(s))
        BY OrderedTail DEF Settles, Programs
    <1>2. \A c : Has(s, c) <=> (Head(s) = c \/ Has(Tail(s), c))
        BY HasTail DEF Programs
    <1>3. \A c \in Staged : Has(Tail(s), c) <=> Has(s, c)
        BY <1>2, StagedCalls, Stages
    <1>4. Has(Tail(s), Call("rewrite", "primary")) => t = "null"
        BY <1>2 DEF Settles
    <1> QED
        BY <1>1, <1>3, <1>4, SettlesSame

\* A call that does not matter is put before what is left.
LEMMA SettlesCons ==
    ASSUME NEW s \in Programs, NEW x \in ProgramCalls, Stage(x) = 0,
           NEW v, NEW pr, NEW row, NEW imp, NEW t, Settles(s, v, pr, row, imp, t),
           x = Call("rewrite", "primary") => t = "null"
    PROVE  Settles(<<x>> \o s, v, pr, row, imp, t)
    <1>1. <<x>> \in Programs
        BY OneCall DEF Programs
    <1>2. \A c : Has(<<x>> \o s, c) <=> (c = x \/ Has(s, c))
        BY <1>1, ProgramConcat, HasOne
    <1>3. \A c \in Staged : Has(<<x>> \o s, c) <=> Has(s, c)
        BY <1>2, StagedCalls, Stages
    <1>4. Ordered(<<x>> \o s)
        <2>1. Ordered(<<x>>) /\ Ordered(s)
            BY OrderedOne DEF Settles
        <2>2. \A c, d : Has(<<x>>, c) /\ Has(s, d) /\ Stage(c) > 0 /\ Stage(d) > 0 => Stage(c) < Stage(d)
            BY HasOne, Stages
        <2> QED
            BY <1>1, <2>1, <2>2, OrderedConcat DEF Programs
    <1>5. Has(<<x>> \o s, Call("rewrite", "primary")) => t = "null"
        BY <1>2 DEF Settles
    <1> QED
        BY <1>3, <1>4, <1>5, SettlesSame

\* What is left once a call that matters is done comes after it.
LEMMA LaterStages ==
    ASSUME NEW s \in Programs, s # <<>>, Ordered(s), Stage(Head(s)) > 0
    PROVE  /\ Ordered(Tail(s))
           /\ \A c \in Staged : /\ Stage(c) <= Stage(Head(s)) => ~Has(Tail(s), c)
                                /\ c # Head(s) => (Has(Tail(s), c) <=> Has(s, c))
           /\ Has(s, Head(s))
           /\ Has(Tail(s), Call("rewrite", "primary")) => Has(s, Call("rewrite", "primary"))
    <1>1. /\ Ordered(Tail(s))
          /\ \A c : Has(Tail(s), c) /\ Stage(c) > 0 => Stage(Head(s)) < Stage(c)
        BY OrderedTail DEF Programs
    <1>2. \A c : Has(s, c) <=> (Head(s) = c \/ Has(Tail(s), c))
        BY HasTail DEF Programs
    <1>3. \A c \in Staged : Stage(c) > 0 /\ Stage(c) \in 0 .. 6
        BY StagedCalls, Stages
    <1>4. Stage(Head(s)) \in 0 .. 6
        BY Stages
    <1> QED
        BY <1>1, <1>2, <1>3, <1>4

(***************************************************************************)
(* One lemma for each call that matters.                                   *)
(***************************************************************************)
LEMMA DiskRead ==
    ASSUME NEW s \in Programs, s # <<>>, Head(s) = Call("disk", "all"),
           NEW v, NEW row, NEW imp, NEW t, RowFits(row),
           Settles(s, v, PrimaryOf(t, row), row, imp, t), Agrees(PrimaryOf(t, row), row, imp)
    PROVE  Settles(Tail(s), t, PrimaryOf(t, row), row, imp, t)
    <1>1. Ordered(s) /\ Stage(Head(s)) = 1
        BY Stages DEF Settles
    <1>2. /\ Ordered(Tail(s))
          /\ \A c \in Staged : /\ Stage(c) <= 1 => ~Has(Tail(s), c)
                               /\ c # Head(s) => (Has(Tail(s), c) <=> Has(s, c))
          /\ Has(s, Head(s))
          /\ Has(Tail(s), Call("rewrite", "primary")) => Has(s, Call("rewrite", "primary"))
        BY <1>1, LaterStages
    <1>3. /\ \A c \in {Call("hydrate", "primary"), Call("match", "primary"), Call("set", "primary"),
                       Call("set", "imported"), Call("scrub", "primary")} :
                Has(Tail(s), c) <=> Has(s, c)
          /\ ~Has(Tail(s), Call("disk", "all")) /\ ~Has(Tail(s), Call("ensure", "primary"))
        BY <1>2, Stages, CallsDiffer DEF Staged
    <1>4. t = PrimaryOf(t, row) \/ (t = "null" /\ row.key # 0)
        BY DEF PrimaryOf
    <1>5. Has(s, Call("hydrate", "primary"))
        BY <1>2 DEF Settles
    <1>6. Has(s, Call("match", "primary")) /\ Has(s, Call("set", "primary"))
        BY <1>2 DEF Settles
    <1> QED
        BY <1>2, <1>3, <1>4, <1>5, <1>6 DEF Settles

LEMMA PrimaryEnsured ==
    ASSUME NEW s \in Programs, s # <<>>, Head(s) = Call("ensure", "primary"),
           NEW v, NEW pr, NEW row, NEW imp, NEW t, Settles(s, v, pr, row, imp, t), Agrees(pr, row, imp)
    PROVE  Settles(Tail(s), v, pr, row, imp, t) /\ row # Absent
    <1>1. Ordered(s) /\ Stage(Head(s)) = 1
        BY Stages DEF Settles
    <1>2. /\ Ordered(Tail(s))
          /\ \A c \in Staged : /\ Stage(c) <= 1 => ~Has(Tail(s), c)
                               /\ c # Head(s) => (Has(Tail(s), c) <=> Has(s, c))
          /\ Has(s, Head(s))
          /\ Has(Tail(s), Call("rewrite", "primary")) => Has(s, Call("rewrite", "primary"))
        BY <1>1, LaterStages
    <1>3. /\ \A c \in {Call("hydrate", "primary"), Call("match", "primary"), Call("set", "primary"),
                       Call("set", "imported"), Call("scrub", "primary")} :
                Has(Tail(s), c) <=> Has(s, c)
          /\ ~Has(Tail(s), Call("disk", "all")) /\ ~Has(Tail(s), Call("ensure", "primary"))
        BY <1>2, Stages, CallsDiffer DEF Staged
    <1>4. Has(s, Call("disk", "all")) <=> Has(Tail(s), Call("disk", "all"))
        BY <1>2, CallsDiffer DEF Staged
    <1>5. row # Absent
        BY <1>2 DEF Settles, Agrees
    <1> QED
        BY <1>2, <1>3, <1>4, <1>5 DEF Settles

LEMMA PrimaryHydrated ==
    ASSUME NEW s \in Programs, s # <<>>, Head(s) = Call("hydrate", "primary"),
           NEW v, NEW pr, NEW row, NEW imp, NEW t, RowFits(row),
           Settles(s, v, pr, row, imp, t), Agrees(pr, row, imp)
    PROVE  Settles(Tail(s), IF row # Absent THEN row.val ELSE v, pr, row, imp, t)
    <1> DEFINE w == IF row # Absent THEN row.val ELSE v
    <1>1. Ordered(s) /\ Stage(Head(s)) = 2
        BY Stages DEF Settles
    <1>2. /\ Ordered(Tail(s))
          /\ \A c \in Staged : /\ Stage(c) <= 2 => ~Has(Tail(s), c)
                               /\ c # Head(s) => (Has(Tail(s), c) <=> Has(s, c))
          /\ Has(s, Head(s))
          /\ Has(Tail(s), Call("rewrite", "primary")) => Has(s, Call("rewrite", "primary"))
        BY <1>1, LaterStages
    <1>3. /\ \A c \in {Call("match", "primary"), Call("set", "primary"),
                       Call("set", "imported"), Call("scrub", "primary")} :
                Has(Tail(s), c) <=> Has(s, c)
          /\ ~Has(Tail(s), Call("disk", "all")) /\ ~Has(Tail(s), Call("ensure", "primary"))
          /\ ~Has(Tail(s), Call("hydrate", "primary"))
          /\ ~Has(s, Call("disk", "all"))
        BY <1>2, Stages, CallsDiffer DEF Staged
    <1>4. Has(s, Call("set", "primary")) => w = pr
        <2> SUFFICES ASSUME Has(s, Call("set", "primary")) PROVE w = pr
            OBVIOUS
        <2>1. Has(s, Call("match", "primary"))
            BY <1>2 DEF Settles
        <2>2. v = pr \/ (v = "null" /\ row.key # 0)
            BY <1>3, <2>1 DEF Settles
        <2>3. row = Null => pr = "null"
            BY DEF Settles
        <2> QED
            BY <2>2, <2>3, PlainRows DEF RowFits, Agrees
    <1>5. ~Has(s, Call("set", "primary")) /\ w # "null" => row.key # 0 /\ row.val = w
        <2>1. ~Has(s, Call("set", "primary")) => row # Absent
            BY <1>2 DEF Settles, Agrees
        <2> QED
            BY <2>1, PlainRows DEF RowFits
    <1>6. Has(s, Call("match", "primary")) => Has(s, Call("set", "primary"))
        BY DEF Settles
    <1> HIDE DEF w
    <1>7. Settles(Tail(s), w, pr, row, imp, t)
        BY <1>2, <1>3, <1>4, <1>5, <1>6 DEF Settles
    <1> QED
        BY <1>7 DEF w

LEMMA PrimaryCompared ==
    ASSUME NEW s \in Programs, s # <<>>, Head(s) = Call("match", "primary"),
           NEW v, NEW pr, NEW row, NEW imp, NEW t, Settles(s, v, pr, row, imp, t)
    PROVE  Settles(Tail(s), v, pr, row, imp, t)
    <1>1. Ordered(s) /\ Stage(Head(s)) = 3
        BY Stages DEF Settles
    <1>2. /\ Ordered(Tail(s))
          /\ \A c \in Staged : /\ Stage(c) <= 3 => ~Has(Tail(s), c)
                               /\ c # Head(s) => (Has(Tail(s), c) <=> Has(s, c))
          /\ Has(s, Head(s))
          /\ Has(Tail(s), Call("rewrite", "primary")) => Has(s, Call("rewrite", "primary"))
        BY <1>1, LaterStages
    <1>3. /\ \A c \in {Call("set", "primary"), Call("set", "imported"), Call("scrub", "primary"),
                       Call("hydrate", "primary")} :
                Has(Tail(s), c) <=> Has(s, c)
          /\ \A c \in {Call("disk", "all"), Call("ensure", "primary"), Call("hydrate", "primary"),
                       Call("match", "primary")} : ~Has(Tail(s), c)
        BY <1>2, Stages, CallsDiffer DEF Staged
    <1> QED
        BY <1>2, <1>3 DEF Settles

\* The primary connection is written: what is written is the user's.
LEMMA PrimaryWritten ==
    ASSUME NEW s \in Programs, s # <<>>, Head(s) = Call("set", "primary"),
           NEW v, NEW row, NEW imp, NEW t, RowFits(row),
           Settles(s, v, PrimaryOf(t, row), row, imp, t), Agrees(PrimaryOf(t, row), row, imp),
           NEW row2, \/ v = "null" /\ row2 = Null
                     \/ v # "null" /\ row2.key # 0 /\ row2.val = v
    PROVE  /\ v = PrimaryOf(t, row) /\ PrimaryOf(t, row2) = PrimaryOf(t, row)
           /\ row.key # 0 => row2.key # 0 /\ row2.val = row.val
           /\ row2 # Absent /\ (row2 = Null => PrimaryOf(t, row) = "null")
           /\ Agrees(PrimaryOf(t, row2), row2, imp)
           /\ Settles(Tail(s), v, PrimaryOf(t, row2), row2, imp, t)
    <1>1. Ordered(s) /\ Stage(Head(s)) = 4
        BY Stages DEF Settles
    <1>2. /\ Ordered(Tail(s))
          /\ \A c \in Staged : /\ Stage(c) <= 4 => ~Has(Tail(s), c)
                               /\ c # Head(s) => (Has(Tail(s), c) <=> Has(s, c))
          /\ Has(s, Head(s))
          /\ Has(Tail(s), Call("rewrite", "primary")) => Has(s, Call("rewrite", "primary"))
        BY <1>1, LaterStages
    <1>3. \A c \in {Call("disk", "all"), Call("ensure", "primary"), Call("hydrate", "primary"),
                    Call("match", "primary"), Call("set", "primary")} : ~Has(Tail(s), c)
        BY <1>2, Stages DEF Staged
    <1>4. ~Has(s, Call("hydrate", "primary"))
        BY <1>2, <1>3, CallsDiffer DEF Staged
    <1>5. v = PrimaryOf(t, row)
        BY <1>2, <1>4 DEF Settles
    <1>6. PrimaryOf(t, row2) = PrimaryOf(t, row)
        BY <1>5, PlainRows DEF PrimaryOf
    <1>7. row.key # 0 => row2.key # 0 /\ row2.val = row.val
        <2> SUFFICES ASSUME row.key # 0 PROVE row2.key # 0 /\ row2.val = row.val
            OBVIOUS
        <2>1. row.val = v /\ v # "null"
            BY <1>5, PlainRows DEF RowFits, Agrees
        <2> QED
            BY <2>1
    <1>8. row2 # Absent /\ (row2 = Null => v = "null") /\ (row2.key # 0 => row2.val = v)
        BY PlainRows
    <1>9. Agrees(PrimaryOf(t, row2), row2, imp)
        BY <1>5, <1>6, <1>8 DEF Agrees
    <1>10. Settles(Tail(s), v, PrimaryOf(t, row2), row2, imp, t)
        BY <1>2, <1>3, <1>5, <1>6, <1>8 DEF Settles
    <1> QED
        BY <1>5, <1>6, <1>7, <1>8, <1>9, <1>10

LEMMA ImportMarked ==
    ASSUME NEW s \in Programs, s # <<>>, Head(s) = Call("set", "imported"),
           NEW v, NEW pr, NEW row, NEW imp, NEW t, Settles(s, v, pr, row, imp, t), Agrees(pr, row, imp)
    PROVE  row # Absent /\ Settles(Tail(s), v, pr, row, TRUE, t)
    <1>1. Ordered(s) /\ Stage(Head(s)) = 5
        BY Stages DEF Settles
    <1>2. /\ Ordered(Tail(s))
          /\ \A c \in Staged : /\ Stage(c) <= 5 => ~Has(Tail(s), c)
                               /\ c # Head(s) => (Has(Tail(s), c) <=> Has(s, c))
          /\ Has(s, Head(s))
          /\ Has(Tail(s), Call("rewrite", "primary")) => Has(s, Call("rewrite", "primary"))
        BY <1>1, LaterStages
    <1>3. \A c \in {Call("disk", "all"), Call("ensure", "primary"), Call("hydrate", "primary"),
                    Call("match", "primary"), Call("set", "primary"), Call("set", "imported")} :
                ~Has(Tail(s), c)
        BY <1>2, Stages DEF Staged
    <1>4. ~Has(s, Call("set", "primary")) /\ ~Has(s, Call("hydrate", "primary"))
          /\ (Has(Tail(s), Call("scrub", "primary")) => Has(s, Call("scrub", "primary")))
        BY <1>2, <1>3, CallsDiffer DEF Staged
    <1>5. row # Absent
        BY <1>2, <1>4 DEF Settles
    <1> QED
        BY <1>2, <1>3, <1>4, <1>5 DEF Settles

\* config.toml is scrubbed: only what SQLite has goes, and nothing that matters is left.
LEMMA TomlScrubbed ==
    ASSUME NEW s \in Programs, s # <<>>, Head(s) = Call("scrub", "primary"),
           NEW v, NEW pr, NEW row, NEW imp, NEW t, Settles(s, v, pr, row, imp, t)
    PROVE  /\ \A c \in Staged : ~Has(Tail(s), c)
           /\ Has(Tail(s), Call("rewrite", "primary")) => t = "null"
           /\ v # "null" => row.key # 0 /\ row.val = v
    <1>1. Ordered(s) /\ Stage(Head(s)) = 6
        BY Stages DEF Settles
    <1>2. /\ \A c \in Staged : /\ Stage(c) <= 6 => ~Has(Tail(s), c)
                               /\ c # Head(s) => (Has(Tail(s), c) <=> Has(s, c))
          /\ Has(s, Head(s))
          /\ Has(Tail(s), Call("rewrite", "primary")) => Has(s, Call("rewrite", "primary"))
        BY <1>1, LaterStages
    <1>3. \A c \in Staged : ~Has(Tail(s), c)
        BY <1>2, Stages
    <1>4. ~Has(s, Call("set", "primary")) /\ ~Has(s, Call("hydrate", "primary"))
        BY <1>2, <1>3, CallsDiffer DEF Staged
    <1> QED
        BY <1>2, <1>3, <1>4 DEF Settles

\* A program that has just been made from the import marker.
LEMMA ProgramSettles ==
    ASSUME NEW p, NEW pr, NEW row, NEW imp \in BOOLEAN, NEW t, Agrees(pr, row, imp)
    PROVE  Settles(LoadConfig(imp) \o AfterConfig(p), "null", pr, row, imp, t)
    <1> DEFINE a == LoadConfig(imp)
               b == AfterConfig(p)
               s == a \o b
    <1>1. b \in Programs /\ \A c \in Relevant : ~Has(b, c)
        <2>1. Call("ensure", "tick") \notin Relevant /\ Call("list", "all") \notin Relevant
              /\ Call("resolve", "all") \notin Relevant
            BY CallsDiffer DEF Relevant, Staged
        <2> QED
            BY <2>1, AfterConfigCalls
    <1>2. a \in Programs /\ Ordered(a)
        <2>1. CASE imp
            BY <2>1, ImportedCalls
        <2>2. CASE ~imp
            BY <2>2, ImportCalls
        <2> QED
            BY <2>1, <2>2
    <1>3. ~imp => \A c \in Relevant : Has(a, c) <=> c \notin {Call("ensure", "primary"), Call("rewrite", "primary")}
        <2> SUFFICES ASSUME ~imp, NEW c \in Relevant
                     PROVE  Has(a, c) <=> c \notin {Call("ensure", "primary"), Call("rewrite", "primary")}
            OBVIOUS
        <2>1. Has(a, c) <=>
              c \in {Call("disk", "all"), Call("hydrate", "theme"), Call("hydrate", "primary"),
                     Call("match", "primary"), Call("set", "theme"), Call("set", "primary"),
                     Call("set", "imported"), Call("scrub", "primary")}
            BY ImportCalls
        <2> QED
            BY <2>1, CallsDiffer DEF Relevant, Staged
    <1>4. imp => \A c \in Relevant : Has(a, c) <=> c \in {Call("ensure", "primary"),
                                            Call("hydrate", "primary"), Call("scrub", "primary")}
        <2> SUFFICES ASSUME imp, NEW c \in Relevant
                     PROVE  Has(a, c) <=> c \in {Call("ensure", "primary"), Call("hydrate", "primary"),
                                                 Call("scrub", "primary")}
            OBVIOUS
        <2>1. Has(a, c) <=>
              c \in {Call("ensure", "theme"), Call("ensure", "primary"), Call("hydrate", "theme"),
                     Call("hydrate", "primary"), Call("scrub", "primary")}
            BY ImportedCalls
        <2>2. Call("ensure", "theme") \notin Relevant /\ Call("hydrate", "theme") \notin Relevant
            BY CallsDiffer DEF Relevant, Staged
        <2> HIDE DEF a
        <2> QED
            BY <2>1, <2>2
    <1> HIDE DEF a, b
    <1>5. \A c : Has(s, c) <=> (Has(a, c) \/ Has(b, c))
        BY <1>1, <1>2, ProgramConcat
    <1>6. Ordered(s)
        <2>1. \A c : Has(b, c) => Stage(c) = 0
            BY <1>1, StagedCalls, Stages DEF Relevant
        <2>2. Ordered(b)
            BY <2>1, UnstagedIsOrdered
        <2>3. \A c, d : Has(a, c) /\ Has(b, d) /\ Stage(c) > 0 /\ Stage(d) > 0 => Stage(c) < Stage(d)
            BY <2>1, Stages
        <2> QED
            BY <1>1, <1>2, <2>2, <2>3, OrderedConcat DEF Programs
    <1> HIDE DEF s
    <1>7. \A c \in Relevant : Has(s, c) <=> Has(a, c)
        BY <1>1, <1>5
    <1>8. Settles(s, "null", pr, row, imp, t)
        <2>1. CASE imp
            <3>1. /\ Has(s, Call("ensure", "primary")) /\ Has(s, Call("hydrate", "primary"))
                  /\ Has(s, Call("scrub", "primary"))
                  /\ \A c \in {Call("disk", "all"), Call("match", "primary"), Call("set", "primary"),
                               Call("set", "imported"), Call("rewrite", "primary")} : ~Has(s, c)
                BY <1>4, <1>7, <2>1, CallsDiffer DEF Relevant, Staged
            <3> QED
                BY <1>6, <2>1, <3>1 DEF Settles
        <2>2. CASE ~imp
            <3>1. /\ ~Has(s, Call("ensure", "primary")) /\ ~Has(s, Call("rewrite", "primary"))
                  /\ \A c \in {Call("disk", "all"), Call("hydrate", "primary"), Call("match", "primary"),
                               Call("set", "primary"), Call("set", "imported"),
                               Call("scrub", "primary")} : Has(s, c)
                BY <1>3, <1>7, <2>2, CallsDiffer DEF Relevant, Staged
            <3> QED
                BY <1>6, <2>2, <3>1 DEF Settles, Agrees
        <2> QED
            BY <2>1, <2>2
    <1> QED
        BY <1>8 DEF s, a, b

(***************************************************************************)
(* Every step keeps the primary connection.                                *)
(***************************************************************************)
\* What PrimaryKept says of one step.
KeptStep ==
    /\ toml.primary # "null" /\ toml'.primary # toml.primary
          => PrimarySealed(disk) /\ PrimaryIn(disk) = toml.primary
    /\ PrimarySealed(disk) => PrimarySealed(disk') /\ PrimaryIn(disk') = PrimaryIn(disk)

\* The program of r is settled as things are.
Settled(r) == Settles(r.todo, r.config.primary, Primary, PrimaryRow, Imported, toml.primary)

LEMMA PrimaryStep ==
    ASSUME PrimaryInv, NEW p \in Procs, NEW r, proc'[p] = r, \A q \in Procs \ {p} : proc'[q] = proc[q],
           Primary' = Primary, Imported => Imported',
           PrimaryRow.key # 0 => PrimaryRow'.key # 0 /\ PrimaryRow'.val = PrimaryRow.val,
           PrimaryRow # Absent => PrimaryRow' # Absent,
           PrimaryRow' = Null => PrimaryRow = Null \/ Primary = "null",
           toml.primary = "null" => toml'.primary = "null",
           toml.primary # "null" /\ toml'.primary # toml.primary =>
                PrimaryRow.key # 0 /\ PrimaryRow.val = toml.primary,
           Agrees(Primary, PrimaryRow', Imported'),
           Settles(r.todo, r.config.primary, Primary, PrimaryRow', Imported', toml'.primary)
    PROVE  PrimaryInv' /\ KeptStep
    <1>1. ASSUME NEW q \in Procs
          PROVE  Settles(proc'[q].todo, proc'[q].config.primary, Primary', PrimaryRow', Imported',
                         toml'.primary)
        <2>1. CASE q = p
            BY <2>1
        <2>2. CASE q # p
            <3>1. Settles(proc[q].todo, proc[q].config.primary, Primary, PrimaryRow, Imported,
                          toml.primary)
                BY DEF PrimaryInv
            <3>2. Settles(proc[q].todo, proc[q].config.primary, Primary, PrimaryRow', Imported',
                          toml'.primary)
                BY <3>1, SettlesOn
            <3> QED
                BY <2>2, <3>2
        <2> QED
            BY <2>1, <2>2
    <1>2. PrimaryInv'
        BY <1>1 DEF PrimaryInv
    <1>3. KeptStep
        BY DEF KeptStep, PrimarySealed, PrimaryIn, PrimaryRow
    <1> QED
        BY <1>2, <1>3

\* The settings and config.toml stay as they are.
LEMMA PrimaryStays ==
    ASSUME PrimaryInv, NEW p \in Procs, NEW r, proc'[p] = r, \A q \in Procs \ {p} : proc'[q] = proc[q],
           disk'.settings = disk.settings, toml'.primary = toml.primary, Settled(r)
    PROVE  PrimaryInv' /\ KeptStep
    <1>1. /\ Primary' = Primary /\ PrimaryRow' = PrimaryRow /\ (Imported' <=> Imported)
        BY DEF Primary, PrimaryRow, Imported
    <1>2. Agrees(Primary, PrimaryRow, Imported)
        BY DEF PrimaryInv
    <1>3. Agrees(Primary, PrimaryRow', Imported')
        BY <1>1, <1>2 DEF Agrees
    <1>4. Settles(r.todo, r.config.primary, Primary, PrimaryRow', Imported', toml'.primary)
        BY <1>1, SettlesOn DEF Settled
    <1> QED
        BY <1>1, <1>3, <1>4, PrimaryStep

LEMMA QuietSettled ==
    ASSUME NEW r, Quiet(r.todo)
    PROVE  Settled(r)
    BY SettlesNothing DEF Quiet, Relevant, Settled

\* The first call of p is done, and it is not one that matters.
LEMMA RestSettled ==
    ASSUME ProcsOK, PrimaryInv, NEW p \in Procs, Running(p), Stage(Head1(p)) = 0,
           NEW r, r.todo = Rest(p), r.config.primary = proc[p].config.primary
    PROVE  Settled(r)
    <1>1. proc[p].todo \in Programs /\ proc[p].todo # <<>> /\ Stage(Head(proc[p].todo)) = 0
        BY ProgramFacts DEF Running, Head1
    <1>2. Settled(proc[p])
        BY DEF PrimaryInv, Settled
    <1>3. Settles(Tail(proc[p].todo), proc[p].config.primary, Primary, PrimaryRow, Imported, toml.primary)
        BY <1>1, <1>2, SettlesTail DEF Settled
    <1> QED
        BY <1>3 DEF Settled, Rest

\* What a process that runs has, for the lemmas about its calls.
LEMMA SettledFacts ==
    ASSUME BaseInv, PrimaryInv, NEW p \in Procs, Running(p)
    PROVE  /\ proc[p].todo \in Programs /\ proc[p].todo # <<>> /\ Rest(p) = Tail(proc[p].todo)
           /\ Head1(p) = Head(proc[p].todo) /\ Rest(p) \in Programs /\ Head1(p) \in ProgramCalls
           /\ Settled(proc[p]) /\ RowFits(PrimaryRow) /\ Agrees(Primary, PrimaryRow, Imported)
    <1>1. ProcsOK /\ RowsOK
        BY DEF BaseInv
    <1>2. Settled(proc[p]) /\ Agrees(Primary, PrimaryRow, Imported)
        BY DEF PrimaryInv, Settled
    <1> QED
        BY <1>1, <1>2, ProgramFacts, PrimaryRowFits DEF Running, Head1, Rest

LEMMA ReadPrimary ==
    ASSUME BaseInv, PrimaryInv, NEW p \in Procs, Reading(p)
    PROVE  PrimaryInv' /\ KeptStep
    <1>1. /\ Running(p) /\ ~proc[p].open /\ disk'.settings = disk.settings /\ toml' = toml
        BY ReadFacts
    <1>2. ProcsOK /\ RowsOK
        BY DEF BaseInv
    <1>t. proc[p] \in ProcState
        BY <1>2 DEF ProcsOK
    <1>3. /\ proc[p].todo \in Programs /\ proc[p].todo # <<>> /\ Rest(p) = Tail(proc[p].todo)
          /\ Head1(p) = Head(proc[p].todo) /\ Rest(p) \in Programs /\ Head1(p) \in ProgramCalls
          /\ Settled(proc[p]) /\ RowFits(PrimaryRow) /\ Agrees(Primary, PrimaryRow, Imported)
        BY <1>1, SettledFacts
    <1>4. SUFFICES \E r \in ProcState : Becomes(p, r) /\ Settled(r)
        <2>1. PICK r \in ProcState : Becomes(p, r) /\ Settled(r)
            BY <1>4
        <2>2. proc'[p] = r /\ \A q \in Procs \ {p} : proc'[q] = proc[q]
            BY <1>2, <2>1, BecomesType
        <2> QED
            BY <1>1, <2>1, <2>2, PrimaryStays
    <1>5. CASE InitStore(p)
        <2>1. Becomes(p, Then(p, Rest(p))) /\ Rest(p) \in Programs
            BY <1>2, <1>5, AdvancesType DEF Advances
        <2>2. Then(p, Rest(p)) \in ProcState /\ Then(p, Rest(p)).todo = Rest(p)
              /\ Then(p, Rest(p)).config = proc[p].config
            BY <1>2, <2>1, ThenType
        <2>3. Head1(p) = Call("init", "all")
            BY <1>3, <1>5, KeysOfCalls DEF InitStore, At
        <2>4. Stage(Head1(p)) = 0
            BY <2>3, Stages
        <2> QED
            BY <1>1, <1>2, <2>1, <2>2, <2>4, RestSettled
    <1>6. CASE EnsureSetting(p)
        <2> DEFINE k == Head1(p).key
        <2>1. /\ k \in {"theme", "primary", "tick"} /\ Head1(p) = Call("ensure", k)
              /\ \/ disk.settings[k] # Absent /\ Becomes(p, Then(p, Rest(p)))
                 \/ /\ disk.settings[k] = Absent
                    /\ <<Call("set", k)>> \o Rest(p) \in Programs
                    /\ Becomes(p, Then(p, <<Call("set", k)>> \o Rest(p)))
            BY <1>2, <1>6, EnsureType
        <2> HIDE DEF k
        <2>2. Settles(Rest(p), proc[p].config.primary, Primary, PrimaryRow, Imported, toml.primary)
              /\ (k = "primary" => disk.settings[k] # Absent)
            <3>1. CASE k = "primary"
                <4>1. Settles(Rest(p), proc[p].config.primary, Primary, PrimaryRow, Imported, toml.primary)
                      /\ PrimaryRow # Absent
                    BY <1>3, <2>1, <3>1, PrimaryEnsured DEF Settled
                <4> QED
                    BY <3>1, <4>1 DEF PrimaryRow
            <3>2. CASE k # "primary"
                <4>1. Stage(Head1(p)) = 0
                    BY <2>1, <3>2, Stages
                <4>2. Settled([proc[p] EXCEPT !.todo = Rest(p)])
                    <5>1. [proc[p] EXCEPT !.todo = Rest(p)].todo = Rest(p)
                          /\ [proc[p] EXCEPT !.todo = Rest(p)].config = proc[p].config
                        BY <1>t DEF ProcState
                    <5> QED
                        BY <1>1, <1>2, <4>1, <5>1, RestSettled
                <4>3. [proc[p] EXCEPT !.todo = Rest(p)].todo = Rest(p)
                      /\ [proc[p] EXCEPT !.todo = Rest(p)].config = proc[p].config
                    BY <1>t DEF ProcState
                <4> QED
                    BY <3>2, <4>2, <4>3 DEF Settled
            <3> QED
                BY <3>1, <3>2
        <2>3. CASE disk.settings[k] # Absent /\ Becomes(p, Then(p, Rest(p)))
            BY <1>2, <1>3, <2>2, <2>3, ThenType DEF Settled
        <2>4. CASE /\ disk.settings[k] = Absent /\ <<Call("set", k)>> \o Rest(p) \in Programs
                   /\ Becomes(p, Then(p, <<Call("set", k)>> \o Rest(p)))
            <3>1. Stage(Call("set", k)) = 0 /\ Call("set", k) \in ProgramCalls
                  /\ Call("set", k) # Call("rewrite", "primary")
                BY <2>1, <2>2, <2>4, Stages, CallTypes, CallsDiffer DEF SettingKeys
            <3>2. Settles(<<Call("set", k)>> \o Rest(p), proc[p].config.primary, Primary, PrimaryRow,
                          Imported, toml.primary)
                BY <1>3, <2>2, <3>1, SettlesCons
            <3> QED
                BY <1>2, <2>4, <3>2, ThenType DEF Settled
        <2> QED
            BY <2>1, <2>3, <2>4
    <1>7. CASE Hydrate(p)
        <2>1. PICK c \in ConfigState :
                /\ Reads(p, c)
                /\ IF Head1(p).key = "primary" /\ PrimaryRow # Absent
                   THEN c.primary = PrimaryRow.val
                   ELSE c.primary = proc[p].config.primary
            BY <1>2, <1>7, HydrateType
        <2>2. Head1(p) = Call("hydrate", Head1(p).key)
            BY <1>2, <1>7, HydrateType
        <2> DEFINE r == Process(p, Rest(p), c, proc[p].listed, proc[p].form, proc[p].choice,
                                proc[p].fromMainUi)
        <2>3. Becomes(p, r)
            BY <2>1 DEF Reads
        <2>4. r \in ProcState /\ r.todo = Rest(p) /\ r.config = c
            BY <1>t, <1>3 DEF Process, ProcState
        <2> HIDE DEF r
        <2>5. CASE Head1(p).key = "primary"
            <3>1. Settles(Rest(p), IF PrimaryRow # Absent THEN PrimaryRow.val ELSE proc[p].config.primary,
                          Primary, PrimaryRow, Imported, toml.primary)
                BY <1>3, <2>2, <2>5, PrimaryHydrated DEF Settled
            <3>2. c.primary = IF PrimaryRow # Absent THEN PrimaryRow.val ELSE proc[p].config.primary
                BY <2>1, <2>5
            <3> QED
                BY <2>3, <2>4, <3>1, <3>2 DEF Settled
        <2>6. CASE Head1(p).key # "primary"
            <3>1. Head1(p).key \in {"theme", "primary"}
                BY <1>3, <2>2, KeysOfCalls, CallFields
            <3>2. Stage(Head1(p)) = 0
                BY <2>2, <2>6, <3>1, Stages
            <3> QED
                BY <1>1, <1>2, <2>1, <2>3, <2>4, <2>6, <3>2, RestSettled
        <2> QED
            BY <2>5, <2>6
    <1>8. CASE ReadMarker(p)
        <2> DEFINE b == disk.settings["imported"] = Plain("true")
                   s == LoadConfig(b) \o AfterConfig(p)
                   c == [NoConfig EXCEPT !.imported = b]
                   r == Process(p, s, c, proc[p].listed, proc[p].form, proc[p].choice,
                                proc[p].fromMainUi)
        <2>1. s \in Programs /\ c \in ConfigState /\ Becomes(p, r)
            BY <1>1, <1>2, <1>8, MarkerType
        <2>2. c.primary = "null"
            BY DEF NoConfig
        <2>3. Settles(s, "null", Primary, PrimaryRow, Imported, toml.primary)
            <3>1. Imported \in BOOLEAN
                BY DEF Imported
            <3>2. Settles(LoadConfig(Imported) \o AfterConfig(p), "null", Primary, PrimaryRow, Imported,
                          toml.primary)
                BY <1>3, <3>1, ProgramSettles
            <3> QED
                BY <3>2 DEF Imported
        <2> HIDE DEF s, c, b
        <2>4. r \in ProcState /\ r.todo = s /\ r.config = c
            BY <1>t, <2>1 DEF Process, ProcState
        <2> HIDE DEF r
        <2> QED
            BY <2>1, <2>2, <2>3, <2>4 DEF Settled
    <1>9. CASE ResolveDirect(p)
        <2>1. PICK c \in ChoiceState :
                /\ <<Call("check", "all")>> \in Programs
                /\ Becomes(p, Process(p, <<Call("check", "all")>>, proc[p].config, proc[p].listed,
                                      proc[p].form, c, proc[p].fromMainUi))
            BY <1>2, <1>9, ResolveType
        <2> DEFINE r == Process(p, <<Call("check", "all")>>, proc[p].config, proc[p].listed,
                                proc[p].form, c, proc[p].fromMainUi)
        <2>2. r \in ProcState /\ r.todo = <<Call("check", "all")>>
            BY <1>t, <2>1 DEF Process, ProcState
        <2>3. Becomes(p, r)
            BY <2>1
        <2> HIDE DEF r
        <2> QED
            BY <2>2, <2>3, ShortFits, QuietSettled
    <1>10. CASE ListProfiles(p)
        <2>1. PICK l \in Listings :
                /\ <<Call("menu", "all")>> \in Programs
                /\ Becomes(p, Process(p, <<Call("menu", "all")>>, proc[p].config, l, proc[p].form,
                                      proc[p].choice, proc[p].fromMainUi))
            BY <1>2, <1>10, ListType
        <2> DEFINE r == Process(p, <<Call("menu", "all")>>, proc[p].config, l, proc[p].form,
                                proc[p].choice, proc[p].fromMainUi)
        <2>2. r \in ProcState /\ r.todo = <<Call("menu", "all")>>
            BY <1>t, <2>1 DEF Process, ProcState
        <2>3. Becomes(p, r)
            BY <2>1
        <2> HIDE DEF r
        <2> QED
            BY <2>2, <2>3, ShortFits, QuietSettled
    <1> QED
        BY <1>5, <1>6, <1>7, <1>8, <1>9, <1>10 DEF Reading

LEMMA ConfigPrimary ==
    ASSUME BaseInv, PrimaryInv, NEW p \in Procs, Configuring(p)
    PROVE  PrimaryInv' /\ KeptStep
    <1>1. /\ Running(p) /\ UNCHANGED storeVars
          /\ ~ScrubTruncates(p) /\ ~ScrubWrites(p) => toml' = toml
          /\ ScrubTruncates(p) \/ ScrubWrites(p) => toml'.primary = "null"
        BY ConfigFacts
    <1>2. ProcsOK /\ RowsOK /\ toml \in TomlFile /\ disk' = disk
        BY <1>1 DEF BaseInv, storeVars
    <1>t. proc[p] \in ProcState
        BY <1>2 DEF ProcsOK
    <1>3. /\ proc[p].todo \in Programs /\ proc[p].todo # <<>> /\ Rest(p) = Tail(proc[p].todo)
          /\ Head1(p) = Head(proc[p].todo) /\ Rest(p) \in Programs /\ Head1(p) \in ProgramCalls
          /\ Settled(proc[p]) /\ RowFits(PrimaryRow) /\ Agrees(Primary, PrimaryRow, Imported)
        BY <1>1, SettledFacts
    <1>4. ASSUME NEW r \in ProcState, Becomes(p, r), Settled(r), toml'.primary = toml.primary
          PROVE  PrimaryInv' /\ KeptStep
        <2>1. proc'[p] = r /\ \A q \in Procs \ {p} : proc'[q] = proc[q]
            BY <1>2, <1>4, BecomesType
        <2> QED
            BY <1>2, <1>4, <2>1, PrimaryStays
    <1>5. ASSUME NEW c \in ConfigState, Reads(p, c),
                 Settles(Rest(p), c.primary, Primary, PrimaryRow, Imported, toml.primary)
          PROVE  \E r \in ProcState : Becomes(p, r) /\ Settled(r)
        <2> DEFINE r == Process(p, Rest(p), c, proc[p].listed, proc[p].form, proc[p].choice,
                                proc[p].fromMainUi)
        <2>1. Becomes(p, r)
            BY <1>5 DEF Reads
        <2>2. r \in ProcState /\ r.todo = Rest(p) /\ r.config = c
            BY <1>t, <1>3 DEF Process, ProcState
        <2> HIDE DEF r
        <2> QED
            BY <1>5, <2>1, <2>2 DEF Settled
    <1>6. CASE LoadFromDisk(p)
        <2>1. PICK c \in ConfigState : Reads(p, c) /\ c.primary = toml.primary
            BY <1>2, <1>6, DiskReadType
        <2>2. Head1(p) = Call("disk", "all")
            BY <1>3, <1>6, KeysOfCalls DEF LoadFromDisk, At
        <2>3. Settles(Rest(p), toml.primary, Primary, PrimaryRow, Imported, toml.primary)
            BY <1>3, <2>2, DiskRead DEF Settled, Primary
        <2>4. toml' = toml
            BY <1>6 DEF LoadFromDisk, OnlyProc
        <2> QED
            BY <1>4, <1>5, <2>1, <2>3, <2>4
    <1>7. CASE MatchPrimary(p)
        <2>1. Becomes(p, Then(p, Rest(p)))
            BY <1>2, <1>7, AdvancesType DEF Advances
        <2>2. Then(p, Rest(p)) \in ProcState /\ Then(p, Rest(p)).todo = Rest(p)
              /\ Then(p, Rest(p)).config = proc[p].config
            BY <1>2, <1>3, ThenType
        <2>3. Head1(p) = Call("match", "primary")
            BY <1>3, <1>7, KeysOfCalls DEF MatchPrimary, At
        <2>4. Settles(Rest(p), proc[p].config.primary, Primary, PrimaryRow, Imported, toml.primary)
            BY <1>3, <2>3, PrimaryCompared DEF Settled
        <2>5. toml' = toml
            BY <1>7 DEF MatchPrimary, OnlyProc
        <2> QED
            BY <1>4, <2>1, <2>2, <2>4, <2>5 DEF Settled
    <1>8. ASSUME ScrubNothing(p) \/ ScrubTruncates(p)
          PROVE  /\ \A c \in Staged : ~Has(Rest(p), c)
                 /\ Has(Rest(p), Call("rewrite", "primary")) => toml.primary = "null"
                 /\ proc[p].config.primary # "null" =>
                        PrimaryRow.key # 0 /\ PrimaryRow.val = proc[p].config.primary
        <2>1. Head1(p) = Call("scrub", "primary")
            BY <1>3, <1>8, KeysOfCalls DEF ScrubNothing, ScrubTruncates, At
        <2> QED
            BY <1>3, <2>1, TomlScrubbed DEF Settled
    <1>9. CASE ScrubNothing(p)
        <2>1. PICK c \in ConfigState : Reads(p, c) /\ c.primary = proc[p].config.primary
            BY <1>2, <1>9, LoadedType
        <2>2. Settles(Rest(p), c.primary, Primary, PrimaryRow, Imported, toml.primary)
            BY <1>8, <1>9, SettlesNothing
        <2>3. toml' = toml
            BY <1>9 DEF ScrubNothing, OnlyProc
        <2> QED
            BY <1>4, <1>5, <2>1, <2>2, <2>3
    <1>10. CASE ScrubWrites(p)
        <2>1. PICK c \in ConfigState : Reads(p, c) /\ c.primary = proc[p].config.primary
            BY <1>2, <1>10, LoadedType
        <2>2. Head1(p) = Call("rewrite", "primary")
            BY <1>3, <1>10, KeysOfCalls DEF ScrubWrites, At
        <2>3. Stage(Head1(p)) = 0
            BY <2>2, Stages
        <2>4. Settles(Rest(p), proc[p].config.primary, Primary, PrimaryRow, Imported, toml.primary)
            BY <1>3, <2>3, SettlesTail DEF Settled
        <2>5. toml.primary = "null"
            <3>1. Has(proc[p].todo, Call("rewrite", "primary"))
                BY <1>3, <2>2, HasTail DEF Programs
            <3> QED
                BY <1>3, <3>1 DEF Settled, Settles
        <2>6. toml'.primary = toml.primary
            BY <1>1, <1>10, <2>5
        <2> QED
            BY <1>4, <1>5, <2>1, <2>4, <2>6
    <1>11. CASE ScrubTruncates(p)
        <2> DEFINE s == <<Call("rewrite", "primary")>> \o Rest(p)
        <2>1. PICK c \in ConfigState :
                /\ s \in Programs
                /\ Becomes(p, Process(p, s, c, proc[p].listed, proc[p].form, proc[p].choice,
                                      proc[p].fromMainUi))
            BY <1>2, <1>11, TruncateType
        <2> DEFINE r == Process(p, s, c, proc[p].listed, proc[p].form, proc[p].choice,
                                proc[p].fromMainUi)
        <2>2. \A d : Has(s, d) <=> (d = Call("rewrite", "primary") \/ Has(Rest(p), d))
            <3>1. <<Call("rewrite", "primary")>> \in Programs
                BY CallTypes, OneCall DEF Programs
            <3> QED
                BY <1>3, <3>1, ProgramConcat, HasOne
        <2> HIDE DEF s
        <2>3. r \in ProcState /\ r.todo = s
            BY <1>t, <2>1 DEF Process, ProcState
        <2>4. Becomes(p, r)
            BY <2>1
        <2> HIDE DEF r
        <2>5. proc'[p] = r /\ \A q \in Procs \ {p} : proc'[q] = proc[q]
            BY <1>2, <2>3, <2>4, BecomesType
        <2>6. toml.primary # "null" /\ proc[p].config.primary = toml.primary
            BY <1>2, <1>11, TomlTypes DEF ScrubTruncates, MayScrub, PrimaryMatches
        <2>7. PrimaryRow.key # 0 /\ PrimaryRow.val = toml.primary
            BY <1>8, <1>11, <2>6
        <2>8. toml'.primary = "null"
            BY <1>1, <1>11
        <2>9. /\ PrimaryRow' = PrimaryRow /\ (Imported' <=> Imported) /\ Primary' = Primary
            BY <1>2, <2>6, <2>7, <2>8 DEF PrimaryRow, Imported, Primary, PrimaryOf
        <2>10. Settles(s, r.config.primary, Primary, PrimaryRow', Imported', toml'.primary)
            <3>1. \A d \in Staged : ~Has(s, d)
                BY <1>8, <1>11, <2>2, StagedCalls
            <3> QED
                BY <2>8, <3>1, SettlesNothing
        <2>11. Agrees(Primary, PrimaryRow', Imported')
            BY <1>3, <2>9 DEF Agrees
        <2> QED
            BY <2>3, <2>5, <2>7, <2>8, <2>9, <2>10, <2>11, PrimaryStep
    <1> QED
        BY <1>6, <1>7, <1>9, <1>10, <1>11 DEF Configuring

LEMMA ChoosingPrimary ==
    ASSUME BaseInv, PrimaryInv, NEW p \in Procs, Choosing(p)
    PROVE  PrimaryInv' /\ KeptStep
    <1>1. Running(p) /\ UNCHANGED storeVars /\ toml' = toml
        BY ChoosingFacts
    <1>2. PICK r \in ProcState : Becomes(p, r) /\ GoesOn(p, r)
        BY ChoosingBecomes
    <1>3. ProcsOK /\ disk' = disk
        BY <1>1 DEF BaseInv, storeVars
    <1>4. proc'[p] = r /\ \A q \in Procs \ {p} : proc'[q] = proc[q]
        BY <1>2, <1>3, BecomesType
    <1>5. Settled(r)
        <2>1. CASE Quiet(r.todo)
            BY <2>1, QuietSettled
        <2>2. CASE r.todo = proc[p].todo /\ r.config = proc[p].config
            BY <2>2 DEF PrimaryInv, Settled
        <2>3. CASE r.todo = Rest(p) /\ r.config = proc[p].config /\ At(p, "settings")
            <3>1. Head1(p) = Call("settings", Head1(p).key)
                BY <1>1, <1>3, <2>3, ProgramFacts, KeysOfCalls DEF At
            <3>2. Stage(Head1(p)) = 0
                BY <3>1, Stages
            <3> QED
                BY <1>1, <1>3, <2>3, <3>2, RestSettled
        <2> QED
            BY <1>2, <2>1, <2>2, <2>3 DEF GoesOn
    <1> QED
        BY <1>1, <1>3, <1>4, <1>5, PrimaryStays

LEMMA WritePrimary ==
    ASSUME BaseInv, PrimaryInv, NEW p \in Procs, Writing(p)
    PROVE  PrimaryInv' /\ KeptStep
    <1>1. /\ Running(p) /\ toml' = toml
          /\ \/ /\ disk'.profiles = disk.profiles
                /\ \E k \in SettingKeys, v \in SettingVals :
                        /\ disk'.settings = [disk.settings EXCEPT ![k] = Plain(v)]
                        /\ \/ SaveSetting(p) /\ k \notin {"primary", "imported"}
                           \/ /\ WriteSetting(p) /\ Head1(p) = Call("set", k)
                              /\ k = "primary" => v = "null" /\ proc[p].config.primary = "null"
                              /\ k = "imported" => v = "true"
             \/ /\ RemoveProfile(p) /\ disk'.settings = disk.settings
                /\ \E n \in Names : disk'.profiles = [disk.profiles EXCEPT ![n] = Absent]
        BY WriteFacts
    <1>2. ProcsOK /\ RowsOK
        BY DEF BaseInv
    <1>t. proc[p] \in ProcState /\ disk.settings \in [SettingKeys -> SettingRows]
        BY <1>2 DEF ProcsOK, RowsOK, Readable, DiskType
    <1>3. /\ proc[p].todo \in Programs /\ proc[p].todo # <<>> /\ Rest(p) = Tail(proc[p].todo)
          /\ Head1(p) = Head(proc[p].todo) /\ Rest(p) \in Programs /\ Head1(p) \in ProgramCalls
          /\ Settled(proc[p]) /\ RowFits(PrimaryRow) /\ Agrees(Primary, PrimaryRow, Imported)
        BY <1>1, SettledFacts
    \* What the process becomes goes on with its program and its configuration.
    <1>4. PICK r \in ProcState : Becomes(p, r) /\ r.todo = Rest(p) /\ r.config = proc[p].config
        <2>1. CASE WriteSetting(p) \/ SaveSetting(p)
            <3>1. Becomes(p, Then(p, Rest(p)))
                BY <1>2, <2>1, AdvancesType DEF Advances
            <3> QED
                BY <1>2, <1>3, <3>1, ThenType
        <2>2. CASE RemoveProfile(p)
            <3>1. PICK l \in Listings :
                    Becomes(p, Process(p, Rest(p), proc[p].config, l, proc[p].form, proc[p].choice,
                                       proc[p].fromMainUi))
                BY <1>2, <2>2, RemoveType
            <3> DEFINE q == Process(p, Rest(p), proc[p].config, l, proc[p].form, proc[p].choice,
                                    proc[p].fromMainUi)
            <3>2. q \in ProcState /\ q.todo = Rest(p) /\ q.config = proc[p].config
                BY <1>t, <1>3 DEF Process, ProcState
            <3>3. Becomes(p, q)
                BY <3>1
            <3> HIDE DEF q
            <3> QED
                BY <3>2, <3>3
        <2> QED
            BY <2>1, <2>2 DEF Writing
    <1>5. proc'[p] = r /\ \A q \in Procs \ {p} : proc'[q] = proc[q]
        BY <1>2, <1>4, BecomesType
    <1>6. CASE RemoveProfile(p) /\ disk'.settings = disk.settings
        <2>1. Head1(p) = Call("remove", Head1(p).key)
            BY <1>3, <1>6, KeysOfCalls DEF RemoveProfile, At
        <2>2. Stage(Head1(p)) = 0
            BY <2>1, Stages
        <2>3. Settled(r)
            BY <1>1, <1>2, <1>4, <2>2, RestSettled
        <2> QED
            BY <1>1, <1>5, <1>6, <2>3, PrimaryStays
    <1>7. ASSUME NEW k \in SettingKeys, NEW v \in SettingVals,
                 disk'.settings = [disk.settings EXCEPT ![k] = Plain(v)],
                 \/ SaveSetting(p) /\ k \notin {"primary", "imported"}
                 \/ /\ WriteSetting(p) /\ Head1(p) = Call("set", k)
                    /\ k = "primary" => v = "null" /\ proc[p].config.primary = "null"
                    /\ k = "imported" => v = "true"
          PROVE  PrimaryInv' /\ KeptStep
        <2>1. CASE k \notin {"primary", "imported"}
            <3>1. /\ PrimaryRow' = PrimaryRow /\ (Imported' <=> Imported) /\ Primary' = Primary
                BY <1>1, <1>t, <1>7, <2>1 DEF PrimaryRow, Imported, Primary, SettingKeys
            <3>2. Stage(Head1(p)) = 0
                <4>1. CASE SaveSetting(p)
                    <5>1. Head1(p) = Call("settings", Head1(p).key)
                        BY <1>3, <4>1, KeysOfCalls DEF SaveSetting, At
                    <5> QED
                        BY <5>1, Stages
                <4>2. CASE Head1(p) = Call("set", k)
                    BY <2>1, <4>2, Stages
                <4> QED
                    BY <1>7, <4>1, <4>2
            <3>3. Settled(r)
                BY <1>1, <1>2, <1>4, <3>2, RestSettled
            <3>4. Settles(r.todo, r.config.primary, Primary, PrimaryRow', Imported', toml'.primary)
                BY <1>1, <3>1, <3>3, SettlesOn DEF Settled
            <3>5. Agrees(Primary, PrimaryRow', Imported')
                BY <1>3, <3>1 DEF Agrees
            <3> QED
                BY <1>1, <1>5, <3>1, <3>4, <3>5, PrimaryStep
        <2>2. CASE k = "primary"
            <3>1. /\ Head1(p) = Call("set", "primary") /\ proc[p].config.primary = "null"
                  /\ PrimaryRow' = Null /\ (Imported' <=> Imported)
                BY <1>t, <1>7, <2>2 DEF PrimaryRow, Imported, SettingKeys, Null
            <3>2. Settles(proc[p].todo, proc[p].config.primary, PrimaryOf(toml.primary, PrimaryRow),
                          PrimaryRow, Imported, toml.primary)
                  /\ Agrees(PrimaryOf(toml.primary, PrimaryRow), PrimaryRow, Imported)
                BY <1>3 DEF Settled, Primary
            <3>3. /\ PrimaryOf(toml.primary, Null) = PrimaryOf(toml.primary, PrimaryRow)
                  /\ PrimaryRow.key # 0 => Null.key # 0 /\ Null.val = PrimaryRow.val
                  /\ Null # Absent /\ (Null = Null => PrimaryOf(toml.primary, PrimaryRow) = "null")
                  /\ Agrees(PrimaryOf(toml.primary, Null), Null, Imported)
                  /\ Settles(Tail(proc[p].todo), proc[p].config.primary,
                             PrimaryOf(toml.primary, Null), Null, Imported, toml.primary)
                BY <1>3, <3>1, <3>2, PrimaryWritten
            <3>4. Primary' = Primary /\ Primary = PrimaryOf(toml.primary, Null)
                BY <1>1, <3>1, <3>3 DEF Primary
            <3>5. Agrees(Primary, PrimaryRow', Imported')
                BY <3>1, <3>3, <3>4 DEF Agrees
            <3>6. Settles(r.todo, r.config.primary, Primary, Null, Imported, toml.primary)
                BY <1>3, <1>4, <3>3, <3>4
            <3>7. Settles(r.todo, r.config.primary, Primary, PrimaryRow', Imported', toml'.primary)
                BY <1>1, <3>1, <3>6, SettlesOn
            <3>8. Primary = "null"
                BY <3>3 DEF Primary
            <3>9. /\ PrimaryRow.key # 0 => PrimaryRow'.key # 0 /\ PrimaryRow'.val = PrimaryRow.val
                  /\ PrimaryRow # Absent => PrimaryRow' # Absent
                BY <3>1, <3>3
            <3> QED
                BY <1>1, <1>5, <3>1, <3>4, <3>5, <3>7, <3>8, <3>9, PrimaryStep
        <2>3. CASE k = "imported"
            <3>1. /\ Head1(p) = Call("set", "imported") /\ PrimaryRow' = PrimaryRow /\ Imported'
                  /\ Primary' = Primary
                BY <1>1, <1>t, <1>7, <2>3 DEF PrimaryRow, Imported, Primary, SettingKeys, SaveSetting
            <3>2. PrimaryRow # Absent /\ Settles(Tail(proc[p].todo), proc[p].config.primary, Primary,
                                                  PrimaryRow, TRUE, toml.primary)
                BY <1>3, <3>1, ImportMarked DEF Settled
            <3>3. Agrees(Primary, PrimaryRow', Imported')
                BY <1>3, <3>1, <3>2 DEF Agrees
            <3>4. Settles(r.todo, r.config.primary, Primary, PrimaryRow, TRUE, toml.primary)
                BY <1>3, <1>4, <3>2
            <3>5. Settles(r.todo, r.config.primary, Primary, PrimaryRow', Imported', toml'.primary)
                BY <1>1, <3>1, <3>4, SettlesOn
            <3> QED
                BY <1>1, <1>5, <3>1, <3>3, <3>5, PrimaryStep
        <2> QED
            BY <2>1, <2>2, <2>3
    <1> QED
        BY <1>1, <1>6, <1>7

LEMMA CommitsPrimary ==
    ASSUME BaseInv, PrimaryInv, NEW p \in Procs, Committing(p)
    PROVE  PrimaryInv' /\ KeptStep
    <1>1. /\ Running(p) /\ toml' = toml /\ keyring # 0
          /\ CommitPrimary(p) =>
                /\ Head1(p) = Call("set", "primary") /\ proc[p].config.primary \in Uris
                /\ disk'.settings = [disk.settings EXCEPT !["primary"] =
                                        Sealed(proc[p].config.primary, keyring)]
          /\ ~CommitPrimary(p) => disk'.settings = disk.settings
        BY CommitFacts
    <1>2. ProcsOK /\ RowsOK
        BY DEF BaseInv
    <1>t. proc[p] \in ProcState /\ disk.settings \in [SettingKeys -> SettingRows]
        BY <1>2 DEF ProcsOK, RowsOK, Readable, DiskType
    <1>3. /\ proc[p].todo \in Programs /\ proc[p].todo # <<>> /\ Rest(p) = Tail(proc[p].todo)
          /\ Head1(p) = Head(proc[p].todo) /\ Rest(p) \in Programs /\ Head1(p) \in ProgramCalls
          /\ Settled(proc[p]) /\ RowFits(PrimaryRow) /\ Agrees(Primary, PrimaryRow, Imported)
        BY <1>1, SettledFacts
    <1>4. PICK r \in ProcState : Becomes(p, r) /\ r.todo = Rest(p) /\ r.config = proc[p].config
        <2>1. CASE CommitPrimary(p) \/ CommitDemo(p)
            <3>1. Becomes(p, Then(p, Rest(p)))
                BY <1>2, <2>1, AdvancesType DEF Advances
            <3> QED
                BY <1>2, <1>3, <3>1, ThenType
        <2>2. CASE CommitProfile(p)
            <3>1. PICK c \in ChoiceState :
                    Becomes(p, Process(p, Rest(p), proc[p].config, proc[p].listed, proc[p].form, c,
                                       proc[p].fromMainUi))
                BY <1>2, <2>2, SavedType
            <3> DEFINE q == Process(p, Rest(p), proc[p].config, proc[p].listed, proc[p].form, c,
                                    proc[p].fromMainUi)
            <3>2. q \in ProcState /\ q.todo = Rest(p) /\ q.config = proc[p].config
                BY <1>t, <1>3 DEF Process, ProcState
            <3>3. Becomes(p, q)
                BY <3>1
            <3> HIDE DEF q
            <3> QED
                BY <3>2, <3>3
        <2> QED
            BY <2>1, <2>2 DEF Committing
    <1>5. proc'[p] = r /\ \A q \in Procs \ {p} : proc'[q] = proc[q]
        BY <1>2, <1>4, BecomesType
    <1>6. CASE ~CommitPrimary(p)
        <2>1. Head1(p) \in {Call("demo", "all"), Call("save", "all")}
            BY <1>3, <1>6, KeysOfCalls DEF Committing, CommitDemo, CommitProfile, Ready, At
        <2>2. Stage(Head1(p)) = 0
            BY <2>1, Stages
        <2>3. Settled(r)
            BY <1>1, <1>2, <1>4, <2>2, RestSettled
        <2> QED
            BY <1>1, <1>5, <1>6, <2>3, PrimaryStays
    <1>7. CASE CommitPrimary(p)
        <2> DEFINE v == proc[p].config.primary
                   row == Sealed(v, keyring)
        <2>1. /\ Head1(p) = Call("set", "primary") /\ v \in Uris
              /\ PrimaryRow' = row /\ (Imported' <=> Imported)
            BY <1>1, <1>t, <1>7 DEF PrimaryRow, Imported, SettingKeys
        <2>2. v # "null" /\ row.key # 0 /\ row.val = v
            BY <1>1, <2>1, StoreAssumption DEF Sealed
        <2> HIDE DEF row
        <2>3. Settles(proc[p].todo, v, PrimaryOf(toml.primary, PrimaryRow), PrimaryRow, Imported,
                      toml.primary)
              /\ Agrees(PrimaryOf(toml.primary, PrimaryRow), PrimaryRow, Imported)
            BY <1>3 DEF Settled, Primary
        <2>4. /\ PrimaryOf(toml.primary, row) = PrimaryOf(toml.primary, PrimaryRow)
              /\ PrimaryRow.key # 0 => row.key # 0 /\ row.val = PrimaryRow.val
              /\ row # Absent /\ (row = Null => PrimaryOf(toml.primary, PrimaryRow) = "null")
              /\ Agrees(PrimaryOf(toml.primary, row), row, Imported)
              /\ Settles(Tail(proc[p].todo), v, PrimaryOf(toml.primary, row), row, Imported,
                         toml.primary)
            BY <1>3, <2>1, <2>2, <2>3, PrimaryWritten
        <2>5. Primary' = Primary /\ Primary = PrimaryOf(toml.primary, row)
            BY <1>1, <2>1, <2>4 DEF Primary
        <2>6. Agrees(Primary, PrimaryRow', Imported')
            BY <2>1, <2>4, <2>5 DEF Agrees
        <2>7. Settles(r.todo, r.config.primary, Primary, row, Imported, toml.primary)
            BY <1>3, <1>4, <2>4, <2>5
        <2>8. Settles(r.todo, r.config.primary, Primary, PrimaryRow', Imported', toml'.primary)
            BY <1>1, <2>1, <2>7, SettlesOn
        <2>9. /\ PrimaryRow.key # 0 => PrimaryRow'.key # 0 /\ PrimaryRow'.val = PrimaryRow.val
              /\ PrimaryRow # Absent => PrimaryRow' # Absent
              /\ PrimaryRow' = Null => Primary = "null"
            BY <2>1, <2>4 DEF Primary
        <2> QED
            BY <1>1, <1>5, <2>1, <2>5, <2>6, <2>8, <2>9, PrimaryStep
    <1> QED
        BY <1>6, <1>7

\* The process starts, ends, opens a connection, or starts or drops a transaction.
LEMMA OtherPrimary ==
    ASSUME BaseInv, PrimaryInv, NEW p \in Procs,
           Start(p) \/ SaveConflicts(p) \/ OpenCall(p) \/ BeginWrite(p) \/ Exiting(p)
    PROVE  PrimaryInv' /\ KeptStep
    <1>1. ProcsOK
        BY DEF BaseInv
    <1>t. proc[p] \in ProcState
        BY <1>1 DEF ProcsOK
    <1>2. ASSUME NEW r \in ProcState, Becomes(p, r), Settled(r), disk'.settings = disk.settings,
                 toml' = toml
          PROVE  PrimaryInv' /\ KeptStep
        <2>1. proc'[p] = r /\ \A q \in Procs \ {p} : proc'[q] = proc[q]
            BY <1>1, <1>2, BecomesType
        <2> QED
            BY <1>2, <2>1, PrimaryStays
    <1>3. Settled(proc[p])
        BY DEF PrimaryInv, Settled
    <1>4. CASE Start(p)
        <2>1. Becomes(p, Then(p, Boot)) /\ Boot \in Programs
            BY <1>1, <1>4, EncryptsAt, StartType DEF Start, BaseInv
        <2>2. Then(p, Boot) \in ProcState /\ Then(p, Boot).todo = Boot
            BY <1>1, <2>1, ThenType
        <2>3. Quiet(Boot)
            <3>1. Call("init", "all") \notin Relevant /\ Call("marker", "imported") \notin Relevant
                BY CallsDiffer DEF Relevant, Staged
            <3> QED
                BY <3>1, HasTwo DEF Boot, Quiet
        <2>4. disk'.settings = disk.settings /\ toml' = toml
            BY <1>4 DEF Start, storeVars
        <2> QED
            BY <1>2, <2>1, <2>2, <2>3, <2>4, QuietSettled
    <1>5. CASE SaveConflicts(p)
        <2>1. disk'.settings = disk.settings /\ toml' = toml /\ Recover(p)
            BY <1>5, RollbackBase DEF SaveConflicts
        <2>2. PICK f \in FormState :
                /\ <<Call("list", "all")>> \in Programs
                /\ Becomes(p, Process(p, <<Call("list", "all")>>, proc[p].config, proc[p].listed, f,
                                      proc[p].choice, TRUE))
            BY <1>1, <2>1, RecoverType
        <2> DEFINE r == Process(p, <<Call("list", "all")>>, proc[p].config, proc[p].listed, f,
                                proc[p].choice, TRUE)
        <2>3. r \in ProcState /\ r.todo = <<Call("list", "all")>>
            BY <1>t, <2>2 DEF Process, ProcState
        <2>4. Becomes(p, r)
            BY <2>2
        <2> HIDE DEF r
        <2> QED
            BY <1>2, <2>1, <2>3, <2>4, ShortFits, QuietSettled
    <1>6. CASE OpenCall(p)
        <2> DEFINE r == [proc[p] EXCEPT !.open = TRUE]
        <2>1. Becomes(p, r) /\ r \in ProcState
            BY <1>1, <1>6, OpenType
        <2>2. r.todo = proc[p].todo /\ r.config = proc[p].config
            BY <1>t DEF ProcState
        <2>3. disk'.settings = disk.settings /\ toml' = toml
            BY <1>6, OpenBase
        <2> HIDE DEF r
        <2>4. Settled(r)
            BY <1>3, <2>2 DEF Settled
        <2> QED
            BY <1>2, <2>1, <2>3, <2>4
    <1>7. CASE BeginWrite(p)
        <2>1. UNCHANGED <<disk, proc, toml>>
            BY <1>7, BeginBase
        <2>2. Becomes(p, proc[p])
            BY <1>1, <2>1 DEF Becomes, ProcsOK
        <2> QED
            BY <1>t, <1>2, <1>3, <2>1, <2>2
    <1>8. CASE Exiting(p)
        <2>1. Exit(p)
            BY <1>8 DEF Exiting, CheckConnection, CancelSelection, QuitSelection, Quit, Die
        <2>2. disk' = disk /\ toml' = toml
            BY <2>1, ExitBase DEF Exit, Others
        <2>3. Becomes(p, Ended) /\ Ended \in ProcState
            BY <1>1, <2>1, ExitType
        <2>4. Quiet(Ended.todo)
            BY DEF Ended, Quiet, Has
        <2> QED
            BY <1>2, <2>2, <2>3, <2>4, QuietSettled
    <1> QED
        BY <1>4, <1>5, <1>6, <1>7, <1>8

LEMMA PrimaryInit == Init => PrimaryInv
    <1> SUFFICES ASSUME Init PROVE PrimaryInv
        OBVIOUS
    <1>1. disk \in InitialStores /\ \A p \in Procs : proc[p] = Ended
        BY DEF Init
    <1>2. ASSUME NEW p \in Procs PROVE Settled(proc[p])
        <2>1. Quiet(Ended.todo)
            BY DEF Ended, Quiet, Has
        <2> QED
            BY <1>1, <2>1, QuietSettled
    <1>3. Agrees(Primary, PrimaryRow, Imported)
        <2>1. CASE disk = NewStore
            <3>1. PrimaryRow = Absent /\ ~Imported
                BY <2>1 DEF PrimaryRow, Imported, NewStore, SettingKeys, Absent, Plain
            <3> QED
                BY <3>1, PlainRows DEF Agrees
        <2>2. CASE \E n \in Names, u \in Uris : disk = WithProfile(n, u)
            <3>1. PrimaryRow = Null /\ Imported
                BY <2>2 DEF PrimaryRow, Imported, NewStore, SettingKeys, InUse, WithProfile
            <3> QED
                BY <3>1, PlainRows DEF Agrees
        <2> QED
            BY <1>1, <2>1, <2>2, StartupAssumption DEF InitialStores
    <1> QED
        BY <1>2, <1>3 DEF PrimaryInv, Settled

LEMMA PrimaryNext ==
    ASSUME BaseInv, PrimaryInv, Next
    PROVE  PrimaryInv' /\ KeptStep
    <1>1. PICK p \in Procs :
              \/ Start(p) \/ Reading(p) \/ Configuring(p) \/ Choosing(p) \/ Writing(p)
              \/ Committing(p) \/ SaveConflicts(p) \/ OpenCall(p) \/ BeginWrite(p) \/ Exiting(p)
        BY StepKinds
    <1> QED
        BY <1>1, ReadPrimary, ConfigPrimary, ChoosingPrimary, WritePrimary, CommitsPrimary, OtherPrimary

LEMMA PrimaryStutter ==
    ASSUME PrimaryInv, UNCHANGED vars
    PROVE  PrimaryInv'
    BY DEF PrimaryInv, Primary, PrimaryRow, Imported, vars, storeVars

(***************************************************************************)
(* SQLite and config.toml agree on the primary connection, and each        *)
(* process has what the rest of its program relies on                      *)
(* (load_or_default_with_store).                                           *)
(***************************************************************************)
THEOREM PrimaryInvariance == Spec => []PrimaryInv
    <1>1. BaseInv /\ PrimaryInv /\ [Next]_vars => PrimaryInv'
        BY PrimaryNext, PrimaryStutter
    <1> QED
        BY StartupInvariance, PrimaryInit, <1>1, PTL DEF Spec

(***************************************************************************)
(* The primary connection leaves config.toml only when SQLite has the same *)
(* one encrypted, and no process that starts takes it from SQLite again    *)
(* (scrub_primary_from_active_toml, persist_config_settings).              *)
(***************************************************************************)
THEOREM PrimaryStaysKept == Spec => PrimaryKept
    <1>1. BaseInv /\ PrimaryInv /\ [Next]_vars => [KeptStep]_vars
        BY PrimaryNext
    <1> QED
        BY StartupInvariance, PrimaryInvariance, <1>1, PTL DEF Spec, PrimaryKept, KeptStep
=============================================================================
