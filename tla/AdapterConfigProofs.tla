------------------------ MODULE AdapterConfigProofs -------------------------
(***************************************************************************)
(* What adapters install and adapters uninstall do to the user's file, for *)
(* files of any length, any number of commands, crashes, saves and moves,  *)
(* and every format.                                                       *)
(***************************************************************************)
EXTENDS AdapterConfig, ListProofs

AllHooks == OurHooks \cup OtherHooks
Stops == {"unlisted", "nocmd"}
Kinds == {"missing", "blank", "broken", "doc"}

\* The entries a file may have: in the flat format, one hook each.
Entries(fmt) == {e \in Seq(AllHooks) : fmt = "flat" => Len(e) <= 1}

Texts(fmt) == [kind : Kinds, rest : BOOLEAN, entries : Seq(Entries(fmt))]

\* inspect may have missed a hook of ours.
Hidden(fmt, entries) == fmt = "toml" /\ Picked(entries, Stops) # <<>>

-----------------------------------------------------------------------------
(* The inductive invariant, in parts *)

\* A text that is no document has no hook of ours, and there is at most one in any
\* text unless inspect may miss it.
GoodText(fmt, text) ==
    /\ text \in Texts(fmt)
    /\ text.kind # "doc" => Ours(text.entries) = <<>>
    /\ text.kind = "missing" => text = NoFile
    /\ Hidden(fmt, text.entries) \/ Len(Ours(text.entries)) <= 1

Types ==
    /\ format \in {"nested", "flat", "toml"}
    /\ GoodText(format, file) /\ GoodText(format, backup) /\ GoodText(format, draft)
    /\ todo \in {<<>>, <<"install">>, <<"uninstall">>, <<"uninstall", "install">>}
    /\ pc # "idle" => last = "none"
    /\ crashes \in Nat
    /\ pc \in {"truncate", "write"} => draft.kind = "doc"
    /\ pc = "write" => file = Blank

\* The install that is under way adds its hook to a file that has none of ours, and
\* what is about to be written is as the command will say.
Ready ==
    /\ pc \in {"truncate_backup", "copy", "read"} /\ Head(todo) = "install" =>
          Hidden(format, file.entries) \/ Ours(file.entries) = <<>>
    /\ pc \in {"truncate", "write"} =>
          /\ Head(todo) = "install" =>
                Hidden(format, draft.entries) \/ Ours(draft.entries) = <<"ours">>
          /\ Head(todo) = "uninstall" => Ours(draft.entries) = <<>>
    /\ pc = "idle" /\ file.kind = "doc" /\ ~Hidden(format, file.entries) =>
          /\ last = "install" => Ours(file.entries) = <<"ours">>
          /\ last = "uninstall" => Ours(file.entries) = <<>>

\* Without a crash only the file that is being written is not whole.
Kept ==
    crashes = 0 /\ harm \subseteq {"unbacked"} =>
        /\ pc # "write" => Whole(file)
        /\ pc \in {"truncate", "write"} => Whole(draft)
        /\ file.kind = "blank" => pc = "write"

\* With crashes the file is whole or empty, and behind an empty one is a backup.
Covered ==
    harm = {} =>
        /\ file.kind # "blank" => Whole(file)
        /\ file.kind = "blank" => Whole(backup) \/ (Whole(file) /\ backup.kind = "missing")
        /\ pc \notin {"idle", "write"} => file.kind # "blank"
        /\ pc \in {"read", "truncate"} => Whole(backup) \/ file.kind = "missing"
        /\ pc \in {"truncate", "write"} => Whole(draft)
        /\ file.kind = "missing" => backup.kind = "missing"

Inv == TypeOK /\ Types /\ Ready /\ Kept /\ Covered

-----------------------------------------------------------------------------
(* What the operations do to the hooks *)

\* Our hooks and those of others are picked out of the entries.
LEMMA OursIsPicked == \A es : Ours(es) = Picked(es, OurHooks) /\ Foreign(es) = Picked(es, OtherHooks)
  BY DEF Ours, Foreign, Picked

\* The hooks are ours or of others, never both.
LEMMA HookSets ==
    /\ OurHooks \cap OtherHooks = {} /\ OurHooks \subseteq AllHooks /\ OtherHooks \subseteq AllHooks
    /\ \A h \in AllHooks : h \notin OurHooks => h \in OtherHooks
    /\ Stops \subseteq OtherHooks
    /\ "ours" \in OurHooks /\ "stale" \in OurHooks /\ "foreign" \in OtherHooks
    /\ "foreign" \notin OurHooks /\ "foreign" \notin Stops /\ "ours" \notin Stops
    /\ "ours" \notin OtherHooks
  BY DEF OurHooks, OtherHooks, AllHooks, Stops

\* The entries of a file are lists of hooks.
LEMMA EntriesAreHooks ==
    ASSUME NEW fmt
    PROVE  /\ Entries(fmt) \in SUBSET Seq(AllHooks)
           /\ \A es \in Seq(Entries(fmt)) : es \in Seq(Seq(AllHooks))
<1>1. Entries(fmt) \subseteq Seq(AllHooks)
  BY DEF Entries
<1>q. QED  BY <1>1

\* Retain on a list of one hook.
LEMMA RetainOne ==
    ASSUME NEW h, NEW keep
    PROVE  Retain(<<h>>, keep) = IF h \in keep THEN <<h>> ELSE <<>>
<1>. DEFINE S == {h}
            nil == <<>>
<1>1. nil \in Seq(S) /\ h \in S /\ Append(nil, h) = <<h>>
  OBVIOUS
<1>2. Retain(nil, keep) = <<>>
  BY RetainEmpty
<1>. HIDE DEF S, nil
<1>3. Retain(Append(nil, h), keep) =
          IF h \in keep THEN Append(Retain(nil, keep), h) ELSE Retain(nil, keep)
  BY <1>1, RetainAppend
<1>q. QED  BY <1>1, <1>2, <1>3 DEF nil

\* One more entry, of one hook.
LEMMA AddedEntry ==
    ASSUME NEW fmt, NEW es \in Seq(Entries(fmt)), NEW h \in AllHooks, NEW keep
    PROVE  /\ Append(es, <<h>>) \in Seq(Entries(fmt))
           /\ Picked(Append(es, <<h>>), keep) =
                 IF h \in keep THEN Append(Picked(es, keep), h) ELSE Picked(es, keep)
<1>. DEFINE e == <<h>>
<1>1. e \in Seq(AllHooks) /\ Len(e) = 1
  OBVIOUS
<1>2. Retain(e, keep) = IF h \in keep THEN <<h>> ELSE <<>>
  BY RetainOne
<1>. HIDE DEF e
<1>3. e \in Entries(fmt)
  BY <1>1 DEF Entries
<1>4. Append(es, e) \in Seq(Entries(fmt))
  BY <1>3
<1>5. es \in Seq(Seq(AllHooks))
  BY EntriesAreHooks
<1>6. Picked(Append(es, e), keep) = Picked(es, keep) \o Retain(e, keep)
  BY <1>1, <1>5, PickedAppend
<1>7. Picked(es, keep) \in Seq(AllHooks)
  BY <1>5, PickedType
<1>. DEFINE p == Picked(es, keep)
<1>. HIDE DEF p
<1>8. p \o <<>> = p
  BY <1>7, ConcatEmptySeq DEF p
<1>9. p \o <<h>> = Append(p, h)
  BY <1>7 DEF p
<1>q. QED  BY <1>2, <1>4, <1>6, <1>8, <1>9 DEF e, p

\* install: our hook is the last.
LEMMA WithHookAdds ==
    ASSUME NEW fmt, NEW es \in Seq(Entries(fmt))
    PROVE  /\ WithHook(es) \in Seq(Entries(fmt))
           /\ Ours(WithHook(es)) = Append(Ours(es), "ours")
           /\ Foreign(WithHook(es)) = Foreign(es)
           /\ Hidden(fmt, WithHook(es)) = Hidden(fmt, es)
<1>1. "ours" \in AllHooks
  BY HookSets
<1>. DEFINE more == Append(es, <<"ours">>)
<1>2. more \in Seq(Entries(fmt))
  BY <1>1, AddedEntry
<1>3. Picked(more, OurHooks) = Append(Picked(es, OurHooks), "ours")
  BY <1>1, AddedEntry, HookSets
<1>4. Picked(more, OtherHooks) = Picked(es, OtherHooks) /\ Picked(more, Stops) = Picked(es, Stops)
  BY <1>1, AddedEntry, HookSets
<1>. HIDE DEF more
<1>5. WithHook(es) = more
  BY DEF WithHook, more
<1>q. QED  BY <1>2, <1>3, <1>4, <1>5, OursIsPicked DEF Hidden

\* A save: the other tool's hook is the last.
LEMMA SaveAdds ==
    ASSUME NEW fmt, NEW es \in Seq(Entries(fmt))
    PROVE  /\ Append(es, <<"foreign">>) \in Seq(Entries(fmt))
           /\ Ours(Append(es, <<"foreign">>)) = Ours(es)
           /\ Foreign(Append(es, <<"foreign">>)) = Append(Foreign(es), "foreign")
           /\ Hidden(fmt, Append(es, <<"foreign">>)) = Hidden(fmt, es)
<1>1. "foreign" \in AllHooks
  BY HookSets
<1>. DEFINE more == Append(es, <<"foreign">>)
<1>2. more \in Seq(Entries(fmt))
  BY <1>1, AddedEntry
<1>3. Picked(more, OurHooks) = Picked(es, OurHooks) /\ Picked(more, Stops) = Picked(es, Stops)
  BY <1>1, AddedEntry, HookSets
<1>4. Picked(more, OtherHooks) = Append(Picked(es, OtherHooks), "foreign")
  BY <1>1, AddedEntry, HookSets
<1>. HIDE DEF more
<1>q. QED  BY <1>2, <1>3, <1>4, OursIsPicked DEF Hidden, more

\* Without one of ours in it, an entry has none to pick.
LEMMA NoneOfOurs ==
    ASSUME NEW e \in Seq(AllHooks), \A i \in DOMAIN e : e[i] \notin OurHooks
    PROVE  Retain(e, OurHooks) = <<>>
<1>1. e \in Seq(OtherHooks)
  BY HookSets
<1>q. QED  BY <1>1, RetainNone, HookSets

\* An entry of one hook, which is ours, has no other.
LEMMA OneOfOurs ==
    ASSUME NEW e \in Seq(AllHooks), Len(e) <= 1, ~ \A i \in DOMAIN e : e[i] \notin OurHooks
    PROVE  Retain(e, OtherHooks) = <<>>
<1>1. e \in Seq(OurHooks)
  <2>1. PICK i \in DOMAIN e : e[i] \in OurHooks
    OBVIOUS
  <2>2. DOMAIN e = 1..Len(e) /\ Len(e) \in Nat
    OBVIOUS
  <2>3. Len(e) = 1 /\ i = 1
    BY <2>1, <2>2
  <2>4. \A j \in 1..Len(e) : e[j] \in OurHooks
    BY <2>1, <2>3
  <2>q. QED  BY <2>2, <2>4
<1>q. QED  BY <1>1, RetainNone, HookSets

\* A list is one over its own members.
LEMMA InOwnRange ==
    ASSUME NEW S, NEW list \in Seq(S)
    PROVE  /\ list \in Seq(Range(list)) /\ Range(list) \subseteq S
           /\ \A e \in Range(list) : \E i \in DOMAIN list : list[i] = e
  BY DEF Range

\* uninstall of the flat and the TOML format: the entries with a hook of ours go.
LEMMA EntriesGo ==
    ASSUME NEW fmt, NEW es \in Seq(Entries(fmt)), fmt # "nested"
    PROVE  /\ WithoutHook(fmt, es) \in Seq(Entries(fmt))
           /\ Ours(WithoutHook(fmt, es)) = <<>>
           /\ fmt = "flat" => Foreign(WithoutHook(fmt, es)) = Foreign(es)
<1>. DEFINE D == {e \in Range(es) : \A i \in DOMAIN e : e[i] \notin OurHooks}
            E == Range(es)
            less == Retain(es, D)
            both == Entries(fmt) \cap D
<1>1. WithoutHook(fmt, es) = less
  BY DEF WithoutHook, IsOurHook
<1>2. es \in Seq(E) /\ E \subseteq Entries(fmt)
  BY InOwnRange
<1>3. Entries(fmt) \in SUBSET Seq(AllHooks)
  BY EntriesAreHooks
<1>4. E \in SUBSET Seq(AllHooks) /\ both \in SUBSET Seq(AllHooks)
  BY <1>2, <1>3
<1>5. less \in Seq(both)
  BY RetainType
<1>6. \A e \in both : Retain(e, OurHooks) = <<>>
  BY <1>4, NoneOfOurs
<1>7. fmt = "flat" => \A e \in E \ D : Retain(e, OtherHooks) = <<>>
  <2>. SUFFICES ASSUME fmt = "flat", NEW e \in E \ D PROVE Retain(e, OtherHooks) = <<>>
    OBVIOUS
  <2>1. e \in Seq(AllHooks) /\ Len(e) <= 1
    BY <1>2 DEF Entries
  <2>2. ~ \A i \in DOMAIN e : e[i] \notin OurHooks
    OBVIOUS
  <2>. HIDE DEF E, D
  <2>q. QED  BY <2>1, <2>2, OneOfOurs
<1>8. both \subseteq Entries(fmt)
  OBVIOUS
<1>. HIDE DEF D, E, both
<1>9. less \in Seq(Entries(fmt))
  BY <1>5, <1>8
<1>10. Picked(less, OurHooks) = <<>>
  <2>. HIDE DEF less
  <2>q. QED  BY <1>4, <1>5, <1>6, PickedNothing
<1>11. fmt = "flat" => Picked(less, OtherHooks) = Picked(es, OtherHooks)
  BY <1>2, <1>4, <1>7, PickedDropped
<1>. HIDE DEF less
<1>q. QED  BY <1>1, <1>9, <1>10, <1>11, OursIsPicked

\* uninstall of the nested format: our hooks go, and then the entries left empty.
LEMMA HooksGo ==
    ASSUME NEW es \in Seq(Entries("nested"))
    PROVE  /\ WithoutHook("nested", es) \in Seq(Entries("nested"))
           /\ Ours(WithoutHook("nested", es)) = <<>>
           /\ Foreign(WithoutHook("nested", es)) = Foreign(es)
<1>. DEFINE A == Seq(AllHooks)
            O == Seq(OtherHooks)
            f == [e \in A |-> Retain(e, OtherHooks)]
            stripped == Mapped(es, f)
            E == Range(stripped)
            D == E \ {<<>>}
            less == Retain(stripped, D)
<1>1. es \in Seq(A) /\ Entries("nested") = A
  BY EntriesAreHooks DEF Entries
<1>2. \A e \in A : Retain(e, OtherHooks) \in O
  <2>1. AllHooks \cap OtherHooks = OtherHooks
    BY HookSets
  <2>q. QED  BY <2>1, RetainType
<1>3. O \in SUBSET A
  BY HookSets
<1>4. f \in [A -> O]
  BY <1>2
<1>5. WithoutHook("nested", es) = less
  <2>1. [i \in DOMAIN es |-> Retain(es[i], OtherHooks)] = stripped
    <3>1. \A i \in DOMAIN es : es[i] \in A
      BY <1>1
    <3>2. \A i \in DOMAIN es : f[es[i]] = Retain(es[i], OtherHooks)
      BY <3>1
    <3>. HIDE DEF f, A
    <3>q. QED  BY <3>2, Zenon DEF Mapped
  <2>. HIDE DEF stripped
  <2>q. QED  BY <2>1 DEF WithoutHook
<1>6. stripped \in Seq(O)
  <2>1. Takes(f, A, O)
    BY <1>4 DEF Takes
  <2>. HIDE DEF f, A, O
  <2>q. QED  BY <1>1, <2>1, MappedType
<1>7. \A e \in A : Retain(f[e], OtherHooks) = Retain(e, OtherHooks)
  BY <1>2, RetainAll
<1>8. Picked(stripped, OtherHooks) = Picked(es, OtherHooks)
  <2>1. Takes(f, A, Seq(AllHooks)) /\ A \in SUBSET Seq(AllHooks)
    BY <1>3, <1>4 DEF Takes
  <2>. HIDE DEF f, A
  <2>q. QED  BY <1>1, <1>7, <2>1, PickedMapped
<1>9. stripped \in Seq(E) /\ E \subseteq O
  <2>. HIDE DEF stripped
  <2>q. QED  BY <1>6, InOwnRange
<1>10. E \in SUBSET Seq(AllHooks)
  BY <1>3, <1>9
<1>11. \A e \in E \ D : Retain(e, OtherHooks) = <<>>
  BY RetainEmpty
<1>. HIDE DEF stripped
<1>12. Picked(less, OtherHooks) = Picked(stripped, OtherHooks)
  <2>. HIDE DEF E, D
  <2>q. QED  BY <1>9, <1>10, <1>11, PickedDropped
<1>13. less \in Seq(O)
  <2>. HIDE DEF D, O
  <2>1. less \in Seq(O \cap D)
    BY <1>6, RetainType
  <2>q. QED  BY <2>1
<1>14. \A e \in O : Retain(e, OurHooks) = <<>>
  BY RetainNone, HookSets
<1>15. Picked(less, OurHooks) = <<>>
  <2>. HIDE DEF less, O
  <2>1. O \in SUBSET Seq(AllHooks)
    BY <1>3
  <2>q. QED  BY <1>13, <1>14, <2>1, PickedNothing
<1>16. less \in Seq(A)
  <2>. HIDE DEF less
  <2>q. QED  BY <1>3, <1>13
<1>. HIDE DEF less
<1>q. QED  BY <1>1, <1>5, <1>8, <1>12, <1>15, <1>16, OursIsPicked

\* In every format, and whatever is lost with the entries of TOML.
LEMMA WithoutHookRemoves ==
    ASSUME NEW fmt \in {"nested", "flat", "toml"}, NEW es \in Seq(Entries(fmt))
    PROVE  /\ WithoutHook(fmt, es) \in Seq(Entries(fmt))
           /\ Ours(WithoutHook(fmt, es)) = <<>>
           /\ fmt # "toml" => Foreign(WithoutHook(fmt, es)) = Foreign(es)
<1>1. CASE fmt = "nested"
  BY <1>1, HooksGo
<1>2. CASE fmt # "nested"
  BY <1>2, EntriesGo
<1>q. QED  BY <1>1, <1>2

Renamed(h) == IF h = "ours" THEN "stale" ELSE h

\* ReplaceAll goes hook by hook.
LEMMA ReplaceAppend ==
    ASSUME NEW e \in Seq(AllHooks), NEW x \in AllHooks
    PROVE  /\ ReplaceAll(e, "ours", "stale") \in Seq(AllHooks)
           /\ Len(ReplaceAll(e, "ours", "stale")) = Len(e)
           /\ ReplaceAll(Append(e, x), "ours", "stale") =
                 Append(ReplaceAll(e, "ours", "stale"), Renamed(x))
           /\ Renamed(x) \in AllHooks
<1>. DEFINE n == Len(e)
            m == ReplaceAll(e, "ours", "stale")
            l == ReplaceAll(Append(e, x), "ours", "stale")
            r == Append(m, Renamed(x))
<1>0. "stale" \in AllHooks
  BY HookSets
<1>1. \A h \in AllHooks : Renamed(h) \in AllHooks
  BY <1>0 DEF Renamed
<1>2. m \in Seq(AllHooks) /\ Len(m) = n /\ n \in Nat /\ \A i \in 1..n : m[i] = Renamed(e[i])
  BY <1>0 DEF ReplaceAll, Renamed
<1>3. /\ l \in Seq(AllHooks) /\ Len(l) = n + 1 /\ (\A i \in 1..n : l[i] = Renamed(e[i]))
      /\ l[n + 1] = Renamed(x)
  BY <1>0 DEF ReplaceAll, Renamed
<1>. HIDE DEF n, m, l
<1>4. /\ r \in Seq(AllHooks) /\ Len(r) = n + 1 /\ (\A i \in 1..n : r[i] = m[i])
      /\ r[n + 1] = Renamed(x)
  BY <1>1, <1>2
<1>. HIDE DEF r
<1>5. \A i \in 1..(n + 1) : i \in 1..n \/ i = n + 1
  BY <1>2
<1>6. \A i \in 1..Len(l) : l[i] = r[i]
  BY <1>2, <1>3, <1>4, <1>5
<1>7. l = r
  BY <1>3, <1>4, <1>6, SeqEqual
<1>q. QED  BY <1>1, <1>2, <1>7 DEF m, l, r, n

\* A stale hook is as much ours as the one it was, and the others are as they were.
LEMMA ReplacedHooks ==
    ASSUME NEW keep, "ours" \in keep <=> "stale" \in keep
    PROVE  \A e \in Seq(AllHooks) :
              /\ Len(Retain(ReplaceAll(e, "ours", "stale"), keep)) = Len(Retain(e, keep))
              /\ "ours" \notin keep => Retain(ReplaceAll(e, "ours", "stale"), keep) = Retain(e, keep)
<1>. DEFINE new(e) == ReplaceAll(e, "ours", "stale")
            T == {e \in Seq(AllHooks) :
                    /\ Len(Retain(new(e), keep)) = Len(Retain(e, keep))
                    /\ "ours" \notin keep => Retain(new(e), keep) = Retain(e, keep)}
<1>1. <<>> \in T
  <2>1. new(<<>>) = <<>>
    BY DEF ReplaceAll
  <2>2. <<>> \in Seq(AllHooks)
    OBVIOUS
  <2>. HIDE DEF new
  <2>q. QED  BY <2>1, <2>2
<1>2. ASSUME NEW e \in T, NEW x \in AllHooks PROVE Append(e, x) \in T
  <2>. DEFINE m == new(e)
              y == Renamed(x)
              re == Retain(e, keep)
              rm == Retain(m, keep)
  <2>1. /\ e \in Seq(AllHooks) /\ Append(e, x) \in Seq(AllHooks)
        /\ Len(rm) = Len(re) /\ ("ours" \notin keep => rm = re)
    OBVIOUS
  <2>2. m \in Seq(AllHooks) /\ new(Append(e, x)) = Append(m, y) /\ y \in AllHooks
    BY <2>1, ReplaceAppend
  <2>3. (y \in keep <=> x \in keep) /\ ("ours" \notin keep /\ x \in keep => y = x)
    BY DEF Renamed
  <2>. HIDE DEF T, m, y, new
  <2>4. Retain(Append(e, x), keep) = IF x \in keep THEN Append(re, x) ELSE re
    BY <2>1, RetainAppend
  <2>5. Retain(Append(m, y), keep) = IF y \in keep THEN Append(rm, y) ELSE rm
    BY <2>2, RetainAppend
  <2>6. re \in Seq(AllHooks \cap keep) /\ rm \in Seq(AllHooks \cap keep)
    BY <2>1, <2>2, RetainType
  <2>. HIDE DEF re, rm
  <2>7. Len(Append(re, x)) = Len(re) + 1 /\ Len(Append(rm, y)) = Len(rm) + 1
    BY <2>6
  <2>8. /\ Len(Retain(Append(m, y), keep)) = Len(Retain(Append(e, x), keep))
        /\ "ours" \notin keep => Retain(Append(m, y), keep) = Retain(Append(e, x), keep)
    BY <2>1, <2>3, <2>4, <2>5, <2>7
  <2>q. QED  BY <2>1, <2>2, <2>8 DEF T
<1>3. T = Seq(AllHooks)
  <2>. HIDE DEF T
  <2>1. T \in SUBSET Seq(AllHooks)
    BY DEF T
  <2>q. QED  BY <1>1, <1>2, <2>1, ListInduction
<1>q. QED  BY <1>3

\* The entries after the binary moved.
Moved(es) == [i \in DOMAIN es |-> ReplaceAll(es[i], "ours", "stale")]

\* A moved binary changes which hooks are stale, and neither their number nor the others'.
LEMMA MovedEntries ==
    ASSUME NEW fmt, NEW es \in Seq(Entries(fmt))
    PROVE  /\ Moved(es) \in Seq(Entries(fmt))
           /\ Len(Ours(Moved(es))) = Len(Ours(es))
           /\ Foreign(Moved(es)) = Foreign(es)
           /\ Hidden(fmt, Moved(es)) = Hidden(fmt, es)
<1>. DEFINE E == Entries(fmt)
            f == [e \in E |-> ReplaceAll(e, "ours", "stale")]
            m == Mapped(es, f)
<1>1. E \in SUBSET Seq(AllHooks)
  BY EntriesAreHooks
<1>2. \A e \in E : f[e] = ReplaceAll(e, "ours", "stale")
  OBVIOUS
<1>3. \A e \in E : ReplaceAll(e, "ours", "stale") \in E
  <2>. SUFFICES ASSUME NEW e \in E PROVE ReplaceAll(e, "ours", "stale") \in E
    OBVIOUS
  <2>. DEFINE new == ReplaceAll(e, "ours", "stale")
  <2>1. "ours" \in AllHooks
    BY HookSets
  <2>2. new \in Seq(AllHooks) /\ Len(new) = Len(e)
    BY <1>1, <2>1, ReplaceAppend
  <2>. HIDE DEF new
  <2>3. new \in E
    BY <2>2 DEF Entries
  <2>q. QED  BY <2>3 DEF new
<1>4. Takes(f, E, E)
  BY <1>3 DEF Takes
<1>5. Moved(es) = m
  <2>1. \A i \in DOMAIN es : es[i] \in E
    OBVIOUS
  <2>2. \A i \in DOMAIN es : f[es[i]] = ReplaceAll(es[i], "ours", "stale")
    BY <2>1
  <2>. HIDE DEF f, E
  <2>q. QED  BY <2>2, Zenon DEF Mapped, Moved
<1>6. Takes(f, E, Seq(AllHooks))
  BY <1>1, <1>3 DEF Takes
<1>7. es \in Seq(E)
  OBVIOUS
<1>8. \A e \in E : Len(Retain(f[e], OurHooks)) = Len(Retain(e, OurHooks))
  <2>1. \A e \in Seq(AllHooks) :
           Len(Retain(ReplaceAll(e, "ours", "stale"), OurHooks)) = Len(Retain(e, OurHooks))
    BY ReplacedHooks, HookSets
  <2>. HIDE DEF f, E
  <2>q. QED  BY <1>1, <1>2, <2>1
<1>9. ASSUME NEW keep, "ours" \notin keep, "stale" \notin keep
      PROVE  \A e \in E : Retain(f[e], keep) = Retain(e, keep)
  <2>1. \A e \in Seq(AllHooks) : Retain(ReplaceAll(e, "ours", "stale"), keep) = Retain(e, keep)
    BY <1>9, ReplacedHooks
  <2>. HIDE DEF f, E
  <2>q. QED  BY <1>1, <1>2, <2>1
<1>. HIDE DEF f, E
<1>10. m \in Seq(E)
  BY <1>4, <1>7, MappedType
<1>11. Len(Picked(m, OurHooks)) = Len(Picked(es, OurHooks))
  BY <1>1, <1>6, <1>7, <1>8, PickedMappedLen
<1>12. ASSUME NEW keep, "ours" \notin keep, "stale" \notin keep
       PROVE  Picked(m, keep) = Picked(es, keep)
  <2>1. \A e \in E : Retain(f[e], keep) = Retain(e, keep)
    BY <1>9, <1>12
  <2>q. QED  BY <1>1, <1>6, <1>7, <2>1, PickedMapped
<1>13. Picked(m, OtherHooks) = Picked(es, OtherHooks)
  BY <1>12 DEF OtherHooks
<1>14. Picked(m, Stops) = Picked(es, Stops)
  BY <1>12 DEF Stops
<1>. HIDE DEF m
<1>q. QED  BY <1>5, <1>10, <1>11, <1>13, <1>14, OursIsPicked DEF Hidden, E

\* SelectInSeq finds the place of a member with the wanted property, or there is none.
LEMMA SelectFinds ==
    ASSUME NEW S, NEW list \in Seq(S), NEW stops
    PROVE  LET i == SelectInSeq(list, LAMBDA h : h \in stops)
           IN  \/ i = 0 /\ \A k \in 1..Len(list) : list[k] \notin stops
               \/ i \in 1..Len(list) /\ list[i] \in stops
<1>. DEFINE I == {k \in 1..Len(list) : list[k] \in stops}
            i == SelectInSeq(list, LAMBDA h : h \in stops)
<1>1. i = IF I # {} THEN Min(I) ELSE 0
  BY DEF SelectInSeq
<1>2. CASE I = {}
  BY <1>1, <1>2
<1>3. CASE I # {}
  <2>1. I \subseteq Nat
    OBVIOUS
  <2>. HIDE DEF I
  <2>2. Min(I) \in I
    BY <1>3, <2>1, MinIn
  <2>3. i \in I
    BY <1>1, <1>3, <2>2
  <2>q. QED  BY <2>3 DEF I
<1>q. QED  BY <1>2, <1>3

FindStops(fmt) == OurHooks \cup (IF fmt = "toml" THEN Stops ELSE {})

\* What inspect finds, and what it means that it finds nothing.
LEMMA FindIs ==
    ASSUME NEW fmt, NEW text \in Texts(fmt)
    PROVE  /\ Find(fmt, text) \in {"none", "ours", "stale"}
           /\ Find(fmt, text) # "none" =>
                 /\ text.kind = "doc"
                 /\ \E k \in 1..Len(FlattenSeq(text.entries)) :
                       FlattenSeq(text.entries)[k] = Find(fmt, text)
           /\ Find(fmt, text) = "none" /\ text.kind = "doc" =>
                 Hidden(fmt, text.entries) \/ Ours(text.entries) = <<>>
<1>. DEFINE es == text.entries
            flat == FlattenSeq(es)
            stops == FindStops(fmt)
            i == SelectInSeq(flat, LAMBDA h : h \in stops)
<1>1. es \in Seq(Seq(AllHooks))
  <2>1. es \in Seq(Entries(fmt))
    BY DEF Texts
  <2>q. QED  BY <2>1, EntriesAreHooks
<1>2. flat \in Seq(AllHooks)
  BY <1>1, FlattenType
<1>3. Find(fmt, text) = IF text.kind = "doc" /\ i # 0 /\ flat[i] \in OurHooks THEN flat[i] ELSE "none"
  BY DEF Find, FindStops, Stops
<1>. HIDE DEF flat, stops
<1>4. \/ i = 0 /\ \A k \in 1..Len(flat) : flat[k] \notin stops
      \/ i \in 1..Len(flat) /\ flat[i] \in stops
  BY <1>2, SelectFinds
<1>. HIDE DEF i
<1>5. "none" \notin OurHooks /\ OurHooks = {"ours", "stale"}
  BY DEF OurHooks
<1>6. ASSUME Find(fmt, text) = "none", text.kind = "doc", ~Hidden(fmt, es)
      PROVE  Ours(es) = <<>>
  <2>1. i = 0 \/ flat[i] \notin OurHooks
    BY <1>3, <1>5, <1>6
  <2>2. CASE i = 0
    <3>1. \A k \in DOMAIN flat : flat[k] \notin OurHooks
      BY <1>2, <1>4, <2>2 DEF stops, FindStops
    <3>2. Retain(flat, OurHooks) = <<>>
      BY <1>2, <3>1, NoneOfOurs
    <3>q. QED  BY <3>2 DEF Ours, flat
  <2>3. CASE i # 0
    <3>1. i \in 1..Len(flat) /\ flat[i] \in Stops /\ fmt = "toml"
      BY <1>4, <2>1, <2>3 DEF stops, FindStops
    <3>2. \E k \in 1..Len(Retain(flat, Stops)) : Retain(flat, Stops)[k] = flat[i]
      BY <1>2, <3>1, RetainFinds
    <3>3. Retain(flat, Stops) # <<>>
      BY <3>2
    <3>q. QED  BY <1>6, <3>1, <3>3 DEF Hidden, Picked, flat
  <2>q. QED  BY <2>2, <2>3
<1>7. Find(fmt, text) # "none" => text.kind = "doc" /\ \E k \in 1..Len(flat) : flat[k] = Find(fmt, text)
  BY <1>3, <1>4
<1>8. Find(fmt, text) \in {"none", "ours", "stale"}
  BY <1>3, <1>5
<1>q. QED  BY <1>6, <1>7, <1>8 DEF flat

\* A list of at most one member is that member.
LEMMA OnlyMember ==
    ASSUME NEW S, NEW list \in Seq(S), Len(list) <= 1, NEW j \in 1..Len(list)
    PROVE  list = <<list[j]>>
<1>. DEFINE n == Len(list)
<1>1. n \in Nat /\ n <= 1 /\ j \in 1..n
  OBVIOUS
<1>2. n = 1 /\ j = 1
  <2>. HIDE DEF n
  <2>q. QED  BY <1>1
<1>q. QED  BY <1>2

\* If there is at most one hook of ours, and inspect finds this binary's, it is that.
LEMMA FindsOurs ==
    ASSUME NEW fmt, NEW text \in Texts(fmt), Find(fmt, text) = "ours",
           Len(Ours(text.entries)) <= 1
    PROVE  Ours(text.entries) = <<"ours">>
<1>. DEFINE es == text.entries
            flat == FlattenSeq(es)
            got == Retain(flat, OurHooks)
<1>1. flat \in Seq(AllHooks)
  <2>1. es \in Seq(Entries(fmt))
    BY DEF Texts
  <2>2. es \in Seq(Seq(AllHooks))
    BY <2>1, EntriesAreHooks
  <2>q. QED  BY <2>2, FlattenType
<1>2. PICK k \in 1..Len(flat) : flat[k] = "ours"
  BY FindIs
<1>3. Ours(es) = got
  BY DEF Ours
<1>. HIDE DEF flat
<1>4. PICK j \in 1..Len(got) : got[j] = flat[k]
  BY <1>1, <1>2, RetainFinds, HookSets
<1>5. got \in Seq(AllHooks \cap OurHooks)
  BY <1>1, RetainType
<1>6. Len(got) <= 1
  BY <1>3
<1>. HIDE DEF got
<1>7. got = <<got[j]>>
  BY <1>5, <1>6, OnlyMember
<1>q. QED  BY <1>2, <1>3, <1>4, <1>7

\* Settled asks for the members by which Hidden is defined.
LEMMA HiddenMeans ==
    ASSUME NEW fmt, NEW es \in Seq(Entries(fmt)), Hidden(fmt, es)
    PROVE  Contains(FlattenSeq(es), "unlisted") \/ Contains(FlattenSeq(es), "nocmd")
<1>. DEFINE flat == FlattenSeq(es)
<1>1. flat \in Seq(AllHooks)
  BY EntriesAreHooks, FlattenType
<1>2. Retain(flat, Stops) # <<>>
  BY DEF Hidden, Picked
<1>. HIDE DEF flat
<1>. SUFFICES ASSUME ~Contains(flat, "unlisted"), ~Contains(flat, "nocmd") PROVE FALSE
  BY DEF flat
<1>3. \A k \in 1..Len(flat) : flat[k] \in AllHooks \ Stops
  BY <1>1 DEF Contains, Stops
<1>4. flat \in Seq(AllHooks \ Stops)
  BY <1>1, <1>3
<1>5. Retain(flat, Stops) = <<>>
  <2>. DEFINE S == AllHooks \ Stops
  <2>1. S \cap Stops = {} /\ flat \in Seq(S)
    BY <1>4
  <2>. HIDE DEF S
  <2>q. QED  BY <2>1, RetainNone
<1>q. QED  BY <1>2, <1>5

-----------------------------------------------------------------------------
(* The invariant holds at the start *)

\* The edits that are left are at most two.
LEMMA TodoTypes ==
    \A t \in {<<>>, <<"install">>, <<"uninstall">>, <<"uninstall", "install">>} :
        t \in BoundedSeq({"install", "uninstall"}, 2)
<1>. DEFINE C == {"install", "uninstall"}
<1>1. <<>> \in [1..0 -> C] /\ <<"install">> \in [1..1 -> C] /\ <<"uninstall">> \in [1..1 -> C]
      /\ <<"uninstall", "install">> \in [1..2 -> C]
  OBVIOUS
<1>2. 0 \in 0..2 /\ 1 \in 0..2 /\ 2 \in 0..2
  OBVIOUS
<1>. HIDE DEF C
<1>3. \A m \in 0..2 : \A t \in [1..m -> C] : t \in BoundedSeq(C, 2)
  BY DEF BoundedSeq, SeqOf
<1>q. QED  BY <1>1, <1>2, <1>3 DEF C

\* No file and an empty file are well formed.
LEMMA GoodEmpty ==
    ASSUME NEW fmt
    PROVE  GoodText(fmt, NoFile) /\ GoodText(fmt, Blank)
<1>1. Ours(<<>>) = <<>>
  BY PickedEmpty, OursIsPicked
<1>2. <<>> \in Seq(Entries(fmt)) /\ Len(<<>>) <= 1
  OBVIOUS
<1>3. NoFile \in Texts(fmt) /\ Blank \in Texts(fmt)
  BY <1>2 DEF Texts, NoFile, Blank, Text, Kinds
<1>4. /\ NoFile.entries = <<>> /\ Blank.entries = <<>>
      /\ NoFile.kind = "missing" /\ Blank.kind = "blank"
  BY DEF NoFile, Blank, Text
<1>q. QED  BY <1>1, <1>2, <1>3, <1>4 DEF GoodText

\* The entries a user writes are entries of the format.
LEMMA EntriesOfAreEntries ==
    ASSUME NEW fmt
    PROVE  EntriesOf(fmt) \subseteq Entries(fmt)
<1>1. ASSUME NEW h \in AllHooks, NEW k \in AllHooks
      PROVE  <<h>> \in Entries(fmt) /\ (fmt # "flat" => <<h, k>> \in Entries(fmt))
  <2>1. <<h>> \in Seq(AllHooks) /\ Len(<<h>>) <= 1 /\ <<h, k>> \in Seq(AllHooks)
    OBVIOUS
  <2>q. QED  BY <2>1 DEF Entries
<1>2. {"ours", "stale", "foreign", "nocmd", "unlisted"} \subseteq AllHooks
  BY DEF AllHooks, OurHooks, OtherHooks
<1>3. /\ {<<"ours">>, <<"stale">>, <<"foreign">>, <<"nocmd">>} \subseteq Entries(fmt)
      /\ <<"unlisted">> \in Entries(fmt)
      /\ fmt # "flat" => {<<"foreign", "ours">>, <<"stale", "foreign">>} \subseteq Entries(fmt)
  BY <1>1, <1>2
<1>q. QED  BY <1>3 DEF EntriesOf, Unlisted

\* The user's text.
LEMMA GoodUserText ==
    ASSUME NEW fmt, NEW text \in UserTexts(fmt)
    PROVE  GoodText(fmt, text) /\ text.kind # "blank"
<1>1. CASE text = NoFile
  BY <1>1, GoodEmpty DEF NoFile, Text
<1>2. CASE text = Text("broken", TRUE, <<<<"foreign">>>>)
  <2>. DEFINE es == <<<<"foreign">>>>
              nil == <<>>
  <2>1. nil \in Seq(Entries(fmt)) /\ Append(nil, <<"foreign">>) = es
    OBVIOUS
  <2>2. Ours(nil) = <<>>
    BY PickedEmpty, OursIsPicked
  <2>. HIDE DEF nil
  <2>3. Append(nil, <<"foreign">>) \in Seq(Entries(fmt)) /\ Ours(Append(nil, <<"foreign">>)) = <<>>
    BY <2>1, <2>2, SaveAdds
  <2>4. es \in Seq(Entries(fmt)) /\ Ours(es) = <<>>
    BY <2>1, <2>3
  <2>5. text.kind = "broken" /\ text.rest = TRUE /\ text.entries = es
    BY <1>2 DEF Text
  <2>. HIDE DEF es
  <2>6. text \in Texts(fmt)
    BY <1>2, <2>4 DEF Texts, Text, Kinds, es
  <2>7. Len(<<>>) <= 1
    OBVIOUS
  <2>q. QED  BY <2>4, <2>5, <2>6, <2>7 DEF GoodText
<1>3. CASE \E es \in BoundedSeq(EntriesOf(fmt), MaxEntries) :
              Len(Ours(es)) <= 1 /\ text = Text("doc", TRUE, es)
  <2>1. PICK es \in BoundedSeq(EntriesOf(fmt), MaxEntries) :
              Len(Ours(es)) <= 1 /\ text = Text("doc", TRUE, es)
    BY <1>3
  <2>2. PICK m \in 0..MaxEntries : es \in [1..m -> EntriesOf(fmt)]
    BY DEF BoundedSeq, SeqOf
  <2>3. m \in Nat
    BY EntriesAssumption
  <2>4. es \in Seq(EntriesOf(fmt))
    BY <2>2, <2>3
  <2>5. es \in Seq(Entries(fmt))
    BY <2>4, EntriesOfAreEntries
  <2>6. text.kind = "doc" /\ text.entries = es /\ text \in Texts(fmt)
    BY <2>1, <2>5 DEF Texts, Text, Kinds
  <2>q. QED  BY <2>1, <2>6 DEF GoodText
<1>q. QED  BY <1>1, <1>2, <1>3 DEF UserTexts

\* The file and its backup as the first command finds them.
LEMMA InitInv == Init => Inv
<1>. SUFFICES ASSUME Init PROVE Inv
  OBVIOUS
<1>1. /\ format \in Formats /\ file \in UserTexts(format) /\ backup = NoFile
      /\ pc = "idle" /\ todo = <<>> /\ draft = NoFile /\ last = "none" /\ harm = {}
      /\ theirs = [rest |-> file.rest, hooks |-> Foreign(file.entries)] /\ crashes = 0
  BY DEF Init
<1>2. TypeOK
  BY <1>1, TodoTypes DEF TypeOK
<1>3. GoodText(format, file) /\ file.kind # "blank"
  BY <1>1, GoodUserText
<1>4. Types
  BY <1>1, <1>3, GoodEmpty, FormatsAssumption DEF Types
<1>5. Ready
  BY <1>1 DEF Ready
<1>6. Whole(file) /\ backup.kind = "missing"
  BY <1>1 DEF Whole, NoFile, Text
<1>7. Kept /\ Covered
  BY <1>1, <1>3, <1>6 DEF Kept, Covered
<1>q. QED  BY <1>2, <1>4, <1>5, <1>7 DEF Inv

-----------------------------------------------------------------------------
(* Every step keeps the invariant *)

\* What a well-formed text has.
LEMMA GoodFacts ==
    ASSUME NEW fmt, NEW text, GoodText(fmt, text)
    PROVE  /\ text \in Texts(fmt) /\ text.kind \in Kinds /\ text.rest \in BOOLEAN
           /\ text.entries \in Seq(Entries(fmt))
           /\ text.kind # "doc" => Ours(text.entries) = <<>>
           /\ text.kind = "missing" => text = NoFile
           /\ Hidden(fmt, text.entries) \/ Len(Ours(text.entries)) <= 1
  BY DEF GoodText, Texts

\* A text that parses is well formed if at most one of its hooks is ours.
LEMMA GoodDoc ==
    ASSUME NEW fmt, NEW rest \in BOOLEAN, NEW es \in Seq(Entries(fmt)),
           Hidden(fmt, es) \/ Len(Ours(es)) <= 1
    PROVE  /\ GoodText(fmt, Text("doc", rest, es))
           /\ Text("doc", rest, es).kind = "doc" /\ Text("doc", rest, es).rest = rest
           /\ Text("doc", rest, es).entries = es
<1>. DEFINE text == Text("doc", rest, es)
<1>1. text \in Texts(fmt) /\ text.kind = "doc" /\ text.rest = rest /\ text.entries = es
  BY DEF Texts, Text, Kinds
<1>. HIDE DEF text
<1>2. GoodText(fmt, text)
  BY <1>1 DEF GoodText
<1>q. QED  BY <1>1, <1>2 DEF text

\* install, up to its first edit.
LEMMA BeginInstallInv == ASSUME Inv, BeginInstall PROVE Inv'
<1>. DEFINE found == Find(format, file)
<1>0. TypeOK /\ Types /\ Ready /\ Kept /\ Covered
  BY DEF Inv
<1>1. /\ pc = "idle"
      /\ UNCHANGED <<format, file, backup, draft, theirs, crashes>>
      /\ harm' = harm \cup (IF file.kind = "blank" THEN {"rerun"} ELSE {})
  BY DEF BeginInstall
<1>2. /\ pc' = IF found = "ours" THEN "idle" ELSE "truncate_backup"
      /\ last' = IF found = "ours" THEN "install" ELSE "none"
      /\ todo' = CASE found = "ours" -> <<>>
                   [] found = "stale" -> <<"uninstall", "install">>
                   [] OTHER -> <<"install">>
  BY DEF BeginInstall
<1>3. GoodText(format, file)
  BY <1>0 DEF Types
<1>4. /\ found \in {"none", "ours", "stale"}
      /\ found = "none" /\ file.kind = "doc" =>
            Hidden(format, file.entries) \/ Ours(file.entries) = <<>>
  BY <1>3, GoodFacts, FindIs
<1>5. found = "none" => Hidden(format, file.entries) \/ Ours(file.entries) = <<>>
  BY <1>3, <1>4, GoodFacts
<1>6. found = "ours" => Hidden(format, file.entries) \/ Ours(file.entries) = <<"ours">>
  BY <1>3, GoodFacts, FindsOurs
<1>. HIDE DEF found
<1>7. TypeOK'
  <2>1. todo' \in BoundedSeq({"install", "uninstall"}, 2) /\ (pc' = "idle") = (todo' = <<>>)
    BY <1>2, <1>4, TodoTypes
  <2>q. QED  BY <1>0, <1>1, <1>2, <2>1 DEF TypeOK
<1>8. Types'
  BY <1>0, <1>1, <1>2, <1>4 DEF Types
<1>9. Ready'
  <2>1. Head(todo') = "install" /\ pc' # "idle" => found = "none"
    BY <1>2, <1>4
  <2>q. QED  BY <1>0, <1>1, <1>2, <1>4, <1>5, <1>6, <2>1 DEF Ready
<1>10. Kept'
  BY <1>0, <1>1, <1>2 DEF Kept, Whole
<1>11. Covered'
  BY <1>0, <1>1, <1>2 DEF Covered, Whole
<1>q. QED  BY <1>7, <1>8, <1>9, <1>10, <1>11 DEF Inv

\* uninstall, up to its edit.
LEMMA BeginUninstallInv == ASSUME Inv, BeginUninstall PROVE Inv'
<1>. DEFINE found == Find(format, file)
<1>0. TypeOK /\ Types /\ Ready /\ Kept /\ Covered
  BY DEF Inv
<1>1. /\ pc = "idle"
      /\ UNCHANGED <<format, file, backup, draft, theirs, harm, crashes>>
  BY DEF BeginUninstall
<1>2. /\ pc' = IF found # "none" THEN "truncate_backup" ELSE "idle"
      /\ last' = IF found # "none" THEN "none" ELSE "uninstall"
      /\ todo' = IF found # "none" THEN <<"uninstall">> ELSE <<>>
  BY DEF BeginUninstall
<1>3. GoodText(format, file)
  BY <1>0 DEF Types
<1>4. /\ found # "none" => file.kind = "doc"
      /\ found = "none" /\ file.kind = "doc" =>
            Hidden(format, file.entries) \/ Ours(file.entries) = <<>>
  BY <1>3, GoodFacts, FindIs
<1>. HIDE DEF found
<1>5. TypeOK'
  <2>1. todo' \in BoundedSeq({"install", "uninstall"}, 2) /\ (pc' = "idle") = (todo' = <<>>)
    BY <1>2, TodoTypes
  <2>q. QED  BY <1>0, <1>1, <1>2, <2>1 DEF TypeOK
<1>6. Types'
  BY <1>0, <1>1, <1>2 DEF Types
<1>7. Ready'
  <2>1. pc' # "idle" => Head(todo') = "uninstall"
    BY <1>2
  <2>q. QED  BY <1>0, <1>1, <1>2, <1>4, <2>1 DEF Ready
<1>8. Kept'
  BY <1>0, <1>1, <1>2 DEF Kept, Whole
<1>9. Covered'
  BY <1>0, <1>1, <1>2, <1>4 DEF Covered, Whole
<1>q. QED  BY <1>5, <1>6, <1>7, <1>8, <1>9 DEF Inv

\* back_up empties the old backup, if there is a file to copy.
LEMMA BackUpInv == ASSUME Inv, BackUp PROVE Inv'
<1>0. TypeOK /\ Types /\ Ready /\ Kept /\ Covered
  BY DEF Inv
<1>1. /\ pc = "truncate_backup" /\ pc' = IF file = NoFile THEN "read" ELSE "copy"
      /\ backup' = IF file = NoFile THEN backup ELSE Blank
      /\ UNCHANGED <<format, file, todo, draft, last, theirs, harm, crashes>>
  BY DEF BackUp, bounds
<1>2. (file = NoFile) = (file.kind = "missing")
  <2>1. GoodText(format, file)
    BY <1>0 DEF Types
  <2>q. QED  BY <2>1, GoodFacts DEF NoFile, Text
<1>3. TypeOK'
  BY <1>0, <1>1 DEF TypeOK
<1>4. Types'
  BY <1>0, <1>1, GoodEmpty DEF Types
<1>5. Ready'
  BY <1>0, <1>1 DEF Ready
<1>6. Kept'
  BY <1>0, <1>1 DEF Kept, Whole
<1>7. Covered'
  BY <1>0, <1>1, <1>2 DEF Covered, Whole
<1>q. QED  BY <1>3, <1>4, <1>5, <1>6, <1>7 DEF Inv

\* back_up fills the backup with the file, which is whole then.
LEMMA CopyInv == ASSUME Inv, Copy PROVE Inv'
<1>0. TypeOK /\ Types /\ Ready /\ Kept /\ Covered
  BY DEF Inv
<1>1. /\ pc = "copy" /\ pc' = "read" /\ backup' = file
      /\ UNCHANGED <<format, file, todo, draft, last, theirs, harm, crashes>>
  BY DEF Copy, bounds
<1>2. TypeOK'
  BY <1>0, <1>1 DEF TypeOK
<1>3. Types'
  BY <1>0, <1>1 DEF Types
<1>4. Ready'
  BY <1>0, <1>1 DEF Ready
<1>5. Kept'
  BY <1>0, <1>1 DEF Kept, Whole
<1>6. Covered'
  BY <1>0, <1>1 DEF Covered, Whole
<1>q. QED  BY <1>2, <1>3, <1>4, <1>5, <1>6 DEF Inv

\* fs::write empties the file; the backup is whole by now.
LEMMA TruncateInv == ASSUME Inv, Truncate PROVE Inv'
<1>0. TypeOK /\ Types /\ Ready /\ Kept /\ Covered
  BY DEF Inv
<1>1. /\ pc = "truncate" /\ pc' = "write" /\ file' = Blank
      /\ UNCHANGED <<format, backup, todo, draft, last, theirs, harm, crashes>>
  BY DEF Truncate, bounds
<1>2. /\ Blank.kind = "blank" /\ Blank.rest = NoFile.rest /\ Blank.entries = NoFile.entries
      /\ file.kind = "missing" => file = NoFile
  <2>1. GoodText(format, file)
    BY <1>0 DEF Types
  <2>q. QED  BY <2>1, GoodFacts DEF Blank, NoFile, Text
<1>3. TypeOK'
  BY <1>0, <1>1 DEF TypeOK
<1>4. Types'
  BY <1>0, <1>1, GoodEmpty DEF Types
<1>5. Ready'
  BY <1>0, <1>1 DEF Ready
<1>6. Kept'
  BY <1>0, <1>1 DEF Kept, Whole
<1>7. Covered'
  BY <1>0, <1>1, <1>2 DEF Covered, Whole
<1>q. QED  BY <1>3, <1>4, <1>5, <1>6, <1>7 DEF Inv

\* The command dies, and leaves file and backup as they are.
LEMMA CrashInv == ASSUME Inv, Crash PROVE Inv'
<1>0. TypeOK /\ Types /\ Ready /\ Kept /\ Covered
  BY DEF Inv
<1>1. /\ pc # "idle" /\ pc' = "idle" /\ todo' = <<>> /\ crashes' = crashes + 1
      /\ UNCHANGED <<format, file, backup, draft, last, theirs, harm>>
  BY DEF Crash
<1>2. last = "none" /\ crashes \in Nat
  BY <1>0, <1>1 DEF Types
<1>3. TypeOK'
  BY <1>0, <1>1, TodoTypes DEF TypeOK
<1>4. Types'
  BY <1>0, <1>1, <1>2 DEF Types
<1>5. Ready'
  BY <1>1, <1>2 DEF Ready
<1>6. Kept'
  <2>1. crashes' # 0
    BY <1>1, <1>2
  <2>q. QED  BY <2>1 DEF Kept
<1>7. Covered'
  BY <1>0, <1>1 DEF Covered, Whole
<1>q. QED  BY <1>3, <1>4, <1>5, <1>6, <1>7 DEF Inv

\* The first edit of a running command.
LEMMA TodoHeads ==
    ASSUME Types, TypeOK, pc # "idle"
    PROVE  \/ todo = <<"install">> /\ Head(todo) = "install" /\ Len(todo) = 1 /\ Tail(todo) = <<>>
           \/ todo = <<"uninstall">> /\ Head(todo) = "uninstall" /\ Len(todo) = 1 /\ Tail(todo) = <<>>
           \/ /\ todo = <<"uninstall", "install">> /\ Head(todo) = "uninstall"
              /\ Len(todo) = 2 /\ Tail(todo) = <<"install">>
<1>1. todo \in {<<"install">>, <<"uninstall">>, <<"uninstall", "install">>}
  BY DEF Types, TypeOK
<1>2. CASE todo = <<"install">>
  BY <1>2
<1>3. CASE todo = <<"uninstall">>
  BY <1>3
<1>4. CASE todo = <<"uninstall", "install">>
  <2>1. Tail(<<"uninstall", "install">>) = <<"install">>
    OBVIOUS
  <2>q. QED  BY <1>4, <2>1
<1>q. QED  BY <1>1, <1>2, <1>3, <1>4

\* What Read makes of the entries, in memory.
Edited == IF Head(todo) = "install" THEN WithHook(file.entries) ELSE WithoutHook(format, file.entries)

\* The text is read and edited: hooks of others stay, ours goes or comes.
LEMMA ReadInv == ASSUME Inv, Read PROVE Inv'
<1>0. TypeOK /\ Types /\ Ready /\ Kept /\ Covered
  BY DEF Inv
<1>1. pc = "read" /\ UNCHANGED <<format, file, backup, last, theirs, crashes>>
  BY DEF Read, bounds
<1>2. last = "none" /\ GoodText(format, file) /\ format \in {"nested", "flat", "toml"}
  BY <1>0, <1>1 DEF Types
<1>3. CASE pc' = "idle" /\ todo' = <<>> /\ UNCHANGED <<draft, harm>>
  <2>1. TypeOK'
    BY <1>0, <1>1, <1>3, TodoTypes DEF TypeOK
  <2>2. Types'
    BY <1>0, <1>1, <1>2, <1>3 DEF Types
  <2>3. Ready'
    BY <1>1, <1>2, <1>3 DEF Ready
  <2>4. Kept'
    BY <1>0, <1>1, <1>3 DEF Kept, Whole
  <2>5. Covered'
    BY <1>0, <1>1, <1>3 DEF Covered, Whole
  <2>q. QED  BY <2>1, <2>2, <2>3, <2>4, <2>5 DEF Inv
<1>4. CASE /\ draft' = Text("doc", file.rest, Edited)
           /\ harm' = harm \cup (IF format = "toml" /\ Foreign(Edited) # Foreign(file.entries)
                                 THEN {"shared"} ELSE {})
           /\ pc' = "truncate" /\ UNCHANGED todo
  <2>1. Head(todo) \in {"install", "uninstall"}
    BY <1>0, <1>1, TodoHeads
  <2>. DEFINE es == file.entries
  <2>2. es \in Seq(Entries(format)) /\ file.rest \in BOOLEAN
    BY <1>2, GoodFacts
  <2>3. ASSUME Head(todo) = "install"
        PROVE  /\ Edited \in Seq(Entries(format)) /\ Foreign(Edited) = Foreign(es)
               /\ Hidden(format, Edited) \/ (Ours(Edited) = <<"ours">> /\ Len(Ours(Edited)) <= 1)
    <3>1. Edited = WithHook(es)
      BY <2>3 DEF Edited
    <3>2. Hidden(format, es) \/ Ours(es) = <<>>
      BY <1>0, <1>1, <2>3 DEF Ready
    <3>3. Append(<<>>, "ours") = <<"ours">> /\ Len(<<"ours">>) <= 1
      OBVIOUS
    <3>. HIDE DEF es
    <3>4. /\ WithHook(es) \in Seq(Entries(format))
          /\ Ours(WithHook(es)) = Append(Ours(es), "ours")
          /\ Foreign(WithHook(es)) = Foreign(es)
          /\ Hidden(format, WithHook(es)) = Hidden(format, es)
      BY <2>2, WithHookAdds
    <3>q. QED  BY <3>1, <3>2, <3>3, <3>4
  <2>4. ASSUME Head(todo) = "uninstall"
        PROVE  /\ Edited \in Seq(Entries(format)) /\ Ours(Edited) = <<>> /\ Len(Ours(Edited)) <= 1
               /\ format # "toml" => Foreign(Edited) = Foreign(es)
    <3>1. Edited = WithoutHook(format, es)
      BY <2>4 DEF Edited
    <3>2. Len(<<>>) <= 1
      OBVIOUS
    <3>. HIDE DEF es
    <3>q. QED  BY <1>2, <2>2, <3>1, <3>2, WithoutHookRemoves
  <2>. HIDE DEF es
  <2>5. Edited \in Seq(Entries(format)) /\ (Hidden(format, Edited) \/ Len(Ours(Edited)) <= 1)
    BY <2>1, <2>3, <2>4
  <2>6. /\ GoodText(format, draft') /\ draft'.kind = "doc"
        /\ draft'.rest = file.rest /\ draft'.entries = Edited
    BY <1>4, <2>2, <2>5, GoodDoc
  <2>7. "shared" \notin harm' => Foreign(draft'.entries) = Foreign(file.entries)
    BY <1>4, <2>1, <2>3, <2>4, <2>6 DEF es
  <2>8. TypeOK'
    BY <1>0, <1>1, <1>4 DEF TypeOK
  <2>9. Types'
    BY <1>0, <1>1, <1>2, <1>4, <2>6 DEF Types
  <2>10. Ready'
    BY <1>1, <1>4, <2>3, <2>4, <2>6 DEF Ready
  <2>11. Kept'
    BY <1>0, <1>1, <1>4, <2>6, <2>7 DEF Kept, Whole
  <2>12. Covered'
    BY <1>0, <1>1, <1>4, <2>6, <2>7 DEF Covered, Whole
  <2>q. QED  BY <2>8, <2>9, <2>10, <2>11, <2>12 DEF Inv
<1>q. QED  BY <1>3, <1>4 DEF Read, Edited

\* The edited text reaches the file.
LEMMA WriteInv == ASSUME Inv, Write PROVE Inv'
<1>0. TypeOK /\ Types /\ Ready /\ Kept /\ Covered
  BY DEF Inv
<1>1. /\ pc = "write" /\ file' = draft /\ pc' = IF Len(todo) > 1 THEN "truncate_backup" ELSE "idle"
      /\ todo' = Tail(todo) /\ last' = IF Len(todo) > 1 THEN "none" ELSE Head(todo)
      /\ UNCHANGED <<format, backup, draft, theirs, harm, crashes>>
  BY DEF Write, bounds
<1>2. draft.kind = "doc"
  BY <1>0, <1>1 DEF Types
<1>3. \/ Head(todo) = "install" /\ pc' = "idle" /\ todo' = <<>> /\ last' = "install"
      \/ Head(todo) = "uninstall" /\ pc' = "idle" /\ todo' = <<>> /\ last' = "uninstall"
      \/ /\ Head(todo) = "uninstall" /\ pc' = "truncate_backup" /\ todo' = <<"install">>
         /\ Head(todo') = "install" /\ last' = "none"
  BY <1>0, <1>1, TodoHeads
<1>4. TypeOK'
  <2>1. todo' \in BoundedSeq({"install", "uninstall"}, 2) /\ (pc' = "idle") = (todo' = <<>>)
    BY <1>3, TodoTypes
  <2>q. QED  BY <1>0, <1>1, <1>3, <2>1 DEF TypeOK
<1>5. Types'
  BY <1>0, <1>1, <1>3 DEF Types
<1>6. Ready'
  BY <1>0, <1>1, <1>3 DEF Ready
<1>7. Kept'
  BY <1>0, <1>1, <1>2, <1>3 DEF Kept, Whole
<1>8. Covered'
  BY <1>0, <1>1, <1>2, <1>3 DEF Covered, Whole
<1>q. QED  BY <1>4, <1>5, <1>6, <1>7, <1>8 DEF Inv

\* Another program saves the file with one more hook.
LEMMA SaveInv == ASSUME Inv, Save PROVE Inv'
<1>. DEFINE es == file.entries
            more == Append(es, <<"foreign">>)
<1>0. TypeOK /\ Types /\ Ready /\ Kept /\ Covered
  BY DEF Inv
<1>1. /\ file.kind = "doc" /\ file' = [file EXCEPT !.rest = TRUE, !.entries = more]
      /\ theirs' = [rest |-> TRUE, hooks |-> Append(theirs.hooks, "foreign")]
      /\ harm' = harm \cup (CASE pc = "read" -> {"unbacked"}
                              [] pc = "truncate" -> {"unbacked", "overwritten"}
                              [] OTHER -> {})
      /\ UNCHANGED <<format, backup, pc, todo, draft, last, crashes>>
  BY DEF Save
<1>2. GoodText(format, file) /\ pc # "write"
  <2>1. Blank.kind # "doc"
    BY DEF Blank, Text
  <2>q. QED  BY <1>0, <1>1, <2>1 DEF Types
<1>3. es \in Seq(Entries(format)) /\ file \in Texts(format)
      /\ (Hidden(format, es) \/ Len(Ours(es)) <= 1)
  BY <1>2, GoodFacts
<1>4. /\ more \in Seq(Entries(format)) /\ Ours(more) = Ours(es)
      /\ Foreign(more) = Append(Foreign(es), "foreign") /\ Hidden(format, more) = Hidden(format, es)
  BY <1>3, SaveAdds
<1>. HIDE DEF es, more
<1>5. file' = Text("doc", TRUE, more)
  BY <1>1, <1>3 DEF Text, Texts
<1>6. /\ GoodText(format, file') /\ file'.kind = "doc"
      /\ file'.rest = TRUE /\ file'.entries = more
  BY <1>3, <1>4, <1>5, GoodDoc
<1>7. Whole(file) => Whole(file)'
  <2>. SUFFICES ASSUME Whole(file) PROVE Whole(file)'
    OBVIOUS
  <2>1. theirs.hooks = Foreign(es)
    BY DEF Whole, es
  <2>q. QED  BY <1>1, <1>4, <1>6, <2>1 DEF Whole
<1>8. TypeOK'
  BY <1>0, <1>1 DEF TypeOK
<1>9. Types'
  BY <1>0, <1>1, <1>2, <1>6 DEF Types
<1>10. Ready'
  BY <1>0, <1>1, <1>4, <1>6 DEF Ready, es
<1>11. /\ harm' = {} => harm = {} /\ pc \notin {"read", "truncate"}
       /\ harm' \subseteq {"unbacked"} => harm \subseteq {"unbacked"} /\ pc # "truncate"
  BY <1>1
<1>12. Kept'
  BY <1>0, <1>1, <1>2, <1>6, <1>7, <1>11 DEF Kept
<1>13. Covered'
  BY <1>0, <1>1, <1>2, <1>6, <1>7, <1>11 DEF Covered
<1>q. QED  BY <1>8, <1>9, <1>10, <1>12, <1>13 DEF Inv

\* The binary moves, and our hook is stale.
LEMMA MoveBinaryInv == ASSUME Inv, MoveBinary PROVE Inv'
<1>. DEFINE es == file.entries
            new == Moved(es)
<1>0. TypeOK /\ Types /\ Ready /\ Kept /\ Covered
  BY DEF Inv
<1>1. /\ pc = "idle" /\ file' = [file EXCEPT !.entries = new] /\ last' = "none"
      /\ UNCHANGED <<format, backup, pc, todo, draft, theirs, harm, crashes>>
  BY DEF MoveBinary, Moved
<1>2. GoodText(format, file)
  BY <1>0 DEF Types
<1>3. /\ es \in Seq(Entries(format)) /\ file \in Texts(format)
      /\ Hidden(format, es) \/ Len(Ours(es)) <= 1
      /\ file.kind # "doc" => Ours(es) = <<>>
      /\ file.kind = "missing" => file = NoFile
  BY <1>2, GoodFacts
<1>4. /\ new \in Seq(Entries(format)) /\ Len(Ours(new)) = Len(Ours(es))
      /\ Foreign(new) = Foreign(es) /\ Hidden(format, new) = Hidden(format, es)
  BY <1>3, MovedEntries
<1>5. Ours(es) = <<>> => Ours(new) = <<>>
  <2>1. new \in Seq(Seq(AllHooks))
    BY <1>4, EntriesAreHooks
  <2>. HIDE DEF new
  <2>2. Ours(new) \in Seq(AllHooks)
    BY <2>1, PickedType, OursIsPicked
  <2>q. QED  BY <1>4, <2>2
<1>6. file = NoFile => new = <<>>
  BY DEF NoFile, Text, Moved
<1>. HIDE DEF es, new
<1>7. file' \in Texts(format) /\ file'.kind = file.kind /\ file'.rest = file.rest /\ file'.entries = new
  BY <1>1, <1>3, <1>4 DEF Texts
<1>8. file'.kind = "missing" => file' = NoFile
  <2>. SUFFICES ASSUME file.kind = "missing" PROVE file' = NoFile
    BY <1>7
  <2>1. file = NoFile /\ new = <<>>
    BY <1>3, <1>6
  <2>q. QED  BY <1>1, <2>1 DEF NoFile, Text
<1>9. GoodText(format, file')
  BY <1>3, <1>4, <1>5, <1>7, <1>8 DEF GoodText
<1>10. Whole(file)' = Whole(file)
  BY <1>1, <1>4, <1>7 DEF Whole, es
<1>11. TypeOK'
  BY <1>0, <1>1 DEF TypeOK
<1>12. Types'
  BY <1>0, <1>1, <1>9 DEF Types
<1>13. Ready'
  BY <1>1 DEF Ready
<1>14. Kept'
  BY <1>0, <1>1, <1>7, <1>10 DEF Kept
<1>15. Covered'
  <2>1. Whole(backup)' = Whole(backup)
    BY <1>1 DEF Whole
  <2>q. QED  BY <1>0, <1>1, <1>7, <1>10, <2>1 DEF Covered
<1>q. QED  BY <1>11, <1>12, <1>13, <1>14, <1>15 DEF Inv

\* The backup is copied over an empty file.
LEMMA RestoreInv == ASSUME Inv, Restore PROVE Inv'
<1>0. TypeOK /\ Types /\ Ready /\ Kept /\ Covered
  BY DEF Inv
<1>1. /\ pc = "idle" /\ file.kind = "blank" /\ backup.kind # "missing"
      /\ file' = backup /\ last' = "none"
      /\ UNCHANGED <<format, backup, pc, todo, draft, theirs, harm, crashes>>
  BY DEF Restore, bounds
<1>2. TypeOK'
  BY <1>0, <1>1 DEF TypeOK
<1>3. Types'
  BY <1>0, <1>1 DEF Types
<1>4. Ready'
  BY <1>1 DEF Ready
<1>5. Kept'
  BY <1>0, <1>1 DEF Kept
<1>6. Covered'
  BY <1>0, <1>1 DEF Covered, Whole
<1>q. QED  BY <1>2, <1>3, <1>4, <1>5, <1>6 DEF Inv

\* Every step keeps the invariant.
LEMMA StepInv == Inv /\ [Next]_vars => Inv'
<1>. SUFFICES ASSUME Inv, [Next]_vars PROVE Inv'
  OBVIOUS
<1>1. CASE UNCHANGED vars
  BY <1>1 DEF vars, bounds, Inv, TypeOK, Types, Ready, Kept, Covered, Whole
<1>2. CASE Next
  BY <1>2, BeginInstallInv, BeginUninstallInv, BackUpInv, CopyInv, ReadInv, TruncateInv, WriteInv,
     CrashInv, SaveInv, MoveBinaryInv, RestoreInv DEF Next
<1>q. QED  BY <1>1, <1>2

-----------------------------------------------------------------------------
\* The invariant holds in every reachable state.
THEOREM AdapterInvariant == Spec => []Inv
  BY InitInv, StepInv, PTL DEF Spec

\* Type correctness of the commands' steps (adapters.rs install, uninstall).
THEOREM AdapterTypes == Spec => []TypeOK
<1>1. Inv => TypeOK
  BY DEF Inv
<1>q. QED  BY <1>1, AdapterInvariant, PTL

\* "Everything else in the file is preserved": between commands the file has every
\* hook and setting of the user's, if no command died on it, nobody saved it behind a
\* command's back and TOML removed no entry that was shared.
THEOREM OthersAreKept == Spec => []OthersKept
<1>1. Inv => OthersKept
  BY DEF Inv, Kept, OthersKept
<1>q. QED  BY <1>1, AdapterInvariant, PTL

\* back_up comes before every write: wherever a command dies, the user's text is in
\* the file or in the backup, until an install takes the emptied file for the user's.
THEOREM AlwaysRecoverable == Spec => []Recoverable
<1>1. Inv => Recoverable
  BY DEF Inv, Covered, Recoverable
<1>q. QED  BY <1>1, AdapterInvariant, PTL

\* install and uninstall leave what they report: one hook of this binary, or none.
THEOREM CommandsSettle == Spec => []Settled
<1>1. Inv => Settled
  <2>. SUFFICES ASSUME Inv PROVE Settled
    OBVIOUS
  <2>. DEFINE flat == FlattenSeq(file.entries)
              hidden == format = "toml" /\ (Contains(flat, "unlisted") \/ Contains(flat, "nocmd"))
  <2>1. GoodText(format, file)
    BY DEF Inv, Types
  <2>2. file.entries \in Seq(Entries(format))
    BY <2>1, GoodFacts
  <2>3. Hidden(format, file.entries) => hidden
    BY <2>2, HiddenMeans DEF Hidden
  <2>. HIDE DEF hidden
  <2>4. pc = "idle" /\ file.kind = "doc" /\ ~hidden =>
          /\ last = "install" => Ours(file.entries) = <<"ours">>
          /\ last = "uninstall" => Ours(file.entries) = <<>>
    BY <2>3 DEF Inv, Ready
  <2>q. QED  BY <2>4 DEF Settled, hidden
<1>q. QED  BY <1>1, AdapterInvariant, PTL

=============================================================================
