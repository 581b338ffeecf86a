---------------------------- MODULE NaturalOrder ----------------------------
(***************************************************************************)
(* The order of pages and of books: natural_cmp of                         *)
(* crates/gashuu-core/src/ordering.rs.  A name is a sequence of characters *)
(* (code points); a comparison is -1, 0 or 1.                              *)
(***************************************************************************)
EXTENDS Integers, Sequences

Digits == 48 .. 57
IsDigit(c) == c \in Digits

\* char::to_ascii_lowercase.
to_ascii_lowercase(c) == IF c \in 65 .. 90 THEN c + 32 ELSE c

Sign(a, b) == IF a < b THEN -1 ELSE IF a > b THEN 1 ELSE 0

\* Ordering::then_with.
Then(first, second) == IF first # 0 THEN first ELSE second

\* str::cmp, by code point.
LexCmp(a, b) ==
  LET both == 1 .. (IF Len(a) < Len(b) THEN Len(a) ELSE Len(b))
      differ == {k \in both : a[k] # b[k]}
  IN  IF differ = {} THEN Sign(Len(a), Len(b))
      ELSE LET k == CHOOSE k \in differ : \A j \in differ : k <= j
           IN  Sign(a[k], b[k])

\* The end of the longest run of digits of s that starts at i.
RunEnd(s, i) ==
  CHOOSE k \in i .. Len(s) :
    /\ \A j \in i .. k : IsDigit(s[j])
    /\ k = Len(s) \/ ~IsDigit(s[k + 1])

take_digits(s, i) == SubSeq(s, i, RunEnd(s, i))

\* str::trim_start_matches('0').
TrimZeros(run) ==
  LET zeros == {n \in 0 .. Len(run) : \A j \in 1 .. n : run[j] = 48}
      most == CHOOSE n \in zeros : \A m \in zeros : m <= n
  IN  SubSeq(run, most + 1, Len(run))

\* By value without overflow: significant digits, then their text, then the
\* runs as written.
cmp_numeric(a, b) ==
  LET ta == TrimZeros(a)
      tb == TrimZeros(b)
  IN  Then(Sign(Len(ta), Len(tb)), Then(LexCmp(ta, tb), LexCmp(a, b)))

\* The loop, from position i of a and j of b.
natural_cmp(a, b) ==
  LET from[i \in 1 .. Len(a) + 1, j \in 1 .. Len(b) + 1] ==
        IF i > Len(a) \/ j > Len(b) THEN Sign(Len(a) - i, Len(b) - j)
        ELSE IF IsDigit(a[i]) /\ IsDigit(b[j])
          THEN Then(cmp_numeric(take_digits(a, i), take_digits(b, j)),
                    from[RunEnd(a, i) + 1, RunEnd(b, j) + 1])
        ELSE Then(Then(Sign(to_ascii_lowercase(a[i]), to_ascii_lowercase(b[j])),
                       Sign(a[i], b[j])),
                  from[i + 1, j + 1])
  IN  from[1, 1]
=============================================================================
