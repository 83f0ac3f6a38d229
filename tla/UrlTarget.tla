----------------------------- MODULE UrlTarget -----------------------------
(***************************************************************************)
(* What the crate's own readers make of the target of a url the builder    *)
(* has put together: PathAndQueryReader, which cuts it and compares paths, *)
(* and PathAndQueryKey, which makes one key of all the urls that say the   *)
(* same.                                                                   *)
(***************************************************************************)
EXTENDS UrlBuilderInner, SequencesExt

-----------------------------------------------------------------------------
(* PathAndQueryReader *)

\* Of slashes at the end one does not count, but for the root.
Normal(p) ==
  IF p = <<>> THEN <<"/">>
  ELSE IF Len(p) > 1 /\ EndsWithSlash(p) THEN Front(p)
  ELSE p

\* The target up to its first "?", and what is behind that.
PathOf(target) == IF Places(target, "?") = {} THEN target ELSE Upto(target, Min(Places(target, "?")))
QueryOf(target) ==
  IF Places(target, "?") = {} THEN NoQuery ELSE Behind(target, Min(Places(target, "?")) + 1)

IsMyPath(target, p) ==
  LET mine == Normal(PathOf(target)) IN
  IF StartsWith(Normal(p), <<"/">>) THEN mine = Normal(p) ELSE StripSlash(mine) = Normal(p)

-----------------------------------------------------------------------------
(* build_key *)

Pairs(q) ==
  LET cuts == <<-1>> \o SelectSeq([n \in 1..Len(q) |-> n - 1], LAMBDA n : q[n + 1] = "&")
  IN  [k \in 1..Len(cuts) |-> Between(q, cuts[k] + 1, IF k = Len(cuts) THEN Len(q) ELSE cuts[k + 1])]

KeyOf(pair) == IF Places(pair, "=") = {} THEN pair ELSE Upto(pair, Min(Places(pair, "=")))
ValueOf(pair) == Behind(pair, Len(KeyOf(pair)))

\* Characters and texts in the order of their bytes.
Bytes == <<"%", "&", "/", "1", ":", "=", "?", "[", "]", "a", "u", "~">>
Rank(c) == SelectInSeq(Bytes, LAMBDA b : b = c)
Before(s, t) ==
  \E k \in 1..Len(t) :
    /\ k <= Len(s) + 1 /\ Upto(s, k - 1) = Upto(t, k - 1)
    /\ k = Len(s) + 1 \/ Rank(s[k]) < Rank(t[k])

\* Mutant of PairBefore: the values of a key keep their order.
PairBeforeByKey(p, q) == Before(KeyOf(p), KeyOf(q))

\* By key, then by value; a pair without "=" before those with one.
PairBefore(p, q) ==
  \/ Before(KeyOf(p), KeyOf(q))
  \/ KeyOf(p) = KeyOf(q) /\ Before(ValueOf(p), ValueOf(q))

\* An "&" goes in front of a pair if anything was written before it.
BuildKey(target) ==
  LET Joined(ps) == FoldLeft(LAMBDA out, p : (IF out = <<>> THEN out ELSE Append(out, "&")) \o p, <<>>, ps)
      path == IF PathOf(target) = <<>> THEN <<"/">> ELSE PathOf(target)
  IN  IF QueryOf(target) = NoQuery THEN path
      ELSE Append(path, "?") \o Joined(SortSeq(Pairs(QueryOf(target)), PairBefore))

-----------------------------------------------------------------------------
(* Properties *)

\* The crate's reader finds in a request target the path and the query the builder's getters give,
\* and takes that path for its own, with a slash at its end or without one.
IsReadBack(target, p, q) ==
  /\ PathOf(target) = p /\ QueryOf(target) = q
  /\ IsMyPath(target, p)
  /\ ~EndsWithSlash(p) => IsMyPath(target, Append(p, "/"))
  /\ ~StartsWith(StripSlash(p), <<"/">>) => IsMyPath(target, StripSlash(p))

\* A target with two neighbouring pairs of its query changed about.
Swapped(ps, k) == [ps EXCEPT ![k] = ps[k + 1], ![k + 1] = ps[k]]
WithPairs(ps) ==
  GetPath \o FlattenSeq([k \in DOMAIN ps |-> <<IF k = 1 THEN "?" ELSE "&">> \o ps[k]])

Said(target) ==
  IF QueryOf(target) = NoQuery THEN NoQuery
  ELSE ToBag(SelectSeq(Pairs(QueryOf(target)), LAMBDA p : p # <<>>))

\* "reordering the query never changes the key", and nothing else than order, and pairs that say
\* nothing, is lost in it: repeats, flags and empty values stay.  A key is its own key, so "the
\* conversion route and the direct constructor always agree" (build_key).
KeyIsCanonical ==
  LET key == BuildKey(GetPathAndQuery) IN
  /\ PathOf(key) = GetPath /\ Said(key) = Said(GetPathAndQuery)
  /\ BuildKey(key) = key
  /\ GetQuery # NoQuery =>
       \A k \in 1..(Len(Pairs(GetQuery)) - 1) : BuildKey(WithPairs(Swapped(Pairs(GetQuery), k))) = key
=============================================================================
