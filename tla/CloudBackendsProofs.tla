-------------------------- MODULE CloudBackendsProofs --------------------------
(***************************************************************************)
(* The cloud backends for every set of paths, keys and requests, every     *)
(* secret prefix and every number of writes at the provider: what a read   *)
(* says was so, and a path is answered from its own secrets and with its   *)
(* own keys.                                                               *)
(***************************************************************************)
EXTENDS CloudBackends, FiniteSetTheorems, SequenceTheorems, TLAPS

--------------------------------------------------------------------------------
(* Flat names *)

Char == STRING \cup {"-", "_", "/"}
Text == Seq(Char)

\* A function on 1 .. n is a sequence.
LEMMA FunctionIsSeq ==
  ASSUME NEW S, NEW n \in Nat, NEW f \in [1 .. n -> S]
  PROVE  f \in Seq(S) /\ Len(f) = n
OBVIOUS

\* The characters of s and then those of t.
LEMMA Concat ==
  ASSUME NEW s \in Text, NEW t \in Text
  PROVE  /\ s \o t \in Text
         /\ Len(s \o t) = Len(s) + Len(t)
         /\ \A i \in 1 .. Len(s) : (s \o t)[i] = s[i]
         /\ \A i \in 1 .. Len(t) : (s \o t)[Len(s) + i] = t[i]
<1>1. s \o t \in Text /\ Len(s \o t) = Len(s) + Len(t)
  BY ConcatProperties DEF Text
<1>2. Len(s) \in Nat /\ Len(t) \in Nat
  BY LenProperties DEF Text
<1>3. \A i \in 1 .. Len(s) + Len(t) : (s \o t)[i] = IF i <= Len(s) THEN s[i] ELSE t[i - Len(s)]
  BY ConcatProperties DEF Text
<1>4. ASSUME NEW i \in 1 .. Len(t) PROVE (s \o t)[Len(s) + i] = t[i]
  <2>1. /\ Len(s) + i \in 1 .. Len(s) + Len(t)
        /\ ~(Len(s) + i <= Len(s))
        /\ (Len(s) + i) - Len(s) = i
    BY <1>2
  <2> QED BY <1>3, <2>1
<1>5. ASSUME NEW i \in 1 .. Len(s) PROVE (s \o t)[i] = s[i]
  <2>1. i \in 1 .. Len(s) + Len(t) /\ i <= Len(s)
    BY <1>2
  <2> QED BY <1>3, <2>1
<1> QED BY <1>1, <1>4, <1>5

\* Encoding keeps the length and leaves neither slash nor underscore.
LEMMA EncodeParts ==
  ASSUME NEW s \in Text
  PROVE  /\ flatEncode(s) \in Text
         /\ Len(flatEncode(s)) = Len(s)
         /\ \A i \in 1 .. Len(s) :
              /\ flatEncode(s)[i] = IF s[i] \in {"/", "_"} THEN "-" ELSE s[i]
              /\ flatEncode(s)[i] \notin {"/", "_"}
<1>1. Len(s) \in Nat /\ DOMAIN s = 1 .. Len(s) /\ \A i \in 1 .. Len(s) : s[i] \in Char
  BY LenProperties, ElementOfSeq DEF Text
<1>2. flatEncode(s) = [i \in 1 .. Len(s) |-> IF s[i] \in {"/", "_"} THEN "-" ELSE s[i]]
  BY <1>1 DEF flatEncode
<1>3. \A i \in 1 .. Len(s) : flatEncode(s)[i] \in Char
  BY <1>1, <1>2 DEF Char
<1>4. flatEncode(s) \in Text /\ Len(flatEncode(s)) = Len(s)
  <2>1. flatEncode(s) \in [1 .. Len(s) -> Char]
    BY <1>2, <1>3
  <2> QED BY <2>1, <1>1, FunctionIsSeq DEF Text
<1> QED BY <1>2, <1>4

\* The prefix of a path's names: the encoded path and two hyphens.
LEMMA PrefixParts ==
  ASSUME NEW p \in Text
  PROVE  /\ flatSecretPrefix(p) \in Text
         /\ Len(flatSecretPrefix(p)) = Len(p) + 2
         /\ \A i \in 1 .. Len(p) : flatSecretPrefix(p)[i] = flatEncode(p)[i]
         /\ flatSecretPrefix(p)[Len(p) + 1] = "-" /\ flatSecretPrefix(p)[Len(p) + 2] = "-"
<1> DEFINE h == <<"-", "-">>
<1>1. flatEncode(p) \in Text /\ Len(flatEncode(p)) = Len(p) /\ Len(p) \in Nat
  BY EncodeParts, LenProperties DEF Text
<1>2. h \in Text /\ Len(h) = 2 /\ h[1] = "-" /\ h[2] = "-"
  <2>1. "-" \in Char
    BY DEF Char
  <2> QED BY <2>1 DEF Text
<1>3. flatSecretPrefix(p) = flatEncode(p) \o h
  BY DEF flatSecretPrefix
<1> HIDE DEF h
<1>4. /\ flatSecretPrefix(p) \in Text
      /\ Len(flatSecretPrefix(p)) = Len(p) + 2
      /\ \A i \in 1 .. Len(p) : flatSecretPrefix(p)[i] = flatEncode(p)[i]
      /\ \A i \in 1 .. 2 : flatSecretPrefix(p)[Len(p) + i] = h[i]
  <2>1. /\ flatEncode(p) \o h \in Text
        /\ Len(flatEncode(p) \o h) = Len(flatEncode(p)) + Len(h)
        /\ \A i \in 1 .. Len(flatEncode(p)) : (flatEncode(p) \o h)[i] = flatEncode(p)[i]
        /\ \A i \in 1 .. Len(h) : (flatEncode(p) \o h)[Len(flatEncode(p)) + i] = h[i]
    BY <1>1, <1>2, Concat
  <2> QED BY <2>1, <1>1, <1>2, <1>3
<1>5. 1 \in 1 .. 2 /\ 2 \in 1 .. 2
  OBVIOUS
<1> QED BY <1>2, <1>4, <1>5

\* A flat name: the encoded path, two hyphens, the encoded key.
LEMMA NameParts ==
  ASSUME NEW p \in Text, NEW k \in Text
  PROVE  /\ flatKeyName(p, k) \in Text
         /\ Len(flatKeyName(p, k)) = Len(p) + 2 + Len(k)
         /\ \A i \in 1 .. Len(p) + 2 : flatKeyName(p, k)[i] = flatSecretPrefix(p)[i]
         /\ \A i \in 1 .. Len(k) : flatKeyName(p, k)[Len(p) + 2 + i] = flatEncode(k)[i]
         /\ \A i \in 1 .. Len(p) + 2 + Len(k) : flatKeyName(p, k)[i] \notin {"/", "_"}
<1>1. Len(p) \in Nat /\ Len(k) \in Nat
  BY LenProperties DEF Text
<1>2. flatSecretPrefix(p) \in Text /\ Len(flatSecretPrefix(p)) = Len(p) + 2
  BY PrefixParts
<1>3. flatEncode(k) \in Text /\ Len(flatEncode(k)) = Len(k)
  BY EncodeParts
<1>4. /\ flatKeyName(p, k) \in Text
      /\ Len(flatKeyName(p, k)) = Len(p) + 2 + Len(k)
      /\ \A i \in 1 .. Len(p) + 2 : flatKeyName(p, k)[i] = flatSecretPrefix(p)[i]
      /\ \A i \in 1 .. Len(k) : flatKeyName(p, k)[Len(p) + 2 + i] = flatEncode(k)[i]
  <2> DEFINE s == flatSecretPrefix(p)
             t == flatEncode(k)
  <2>1. flatKeyName(p, k) = s \o t
    BY DEF flatKeyName
  <2> HIDE DEF s, t
  <2>2. /\ s \o t \in Text
        /\ Len(s \o t) = Len(s) + Len(t)
        /\ \A i \in 1 .. Len(s) : (s \o t)[i] = s[i]
        /\ \A i \in 1 .. Len(t) : (s \o t)[Len(s) + i] = t[i]
    BY <1>2, <1>3, Concat DEF s, t
  <2>3. Len(s) = Len(p) + 2 /\ Len(t) = Len(k)
    BY <1>2, <1>3 DEF s, t
  <2> QED BY <2>1, <2>2, <2>3 DEF s, t
<1>7. ASSUME NEW i \in 1 .. Len(p) + 2 + Len(k) PROVE flatKeyName(p, k)[i] \notin {"/", "_"}
  <2>1. CASE i \in 1 .. Len(p)
    <3>1. flatKeyName(p, k)[i] = flatEncode(p)[i]
      <4>1. i \in 1 .. Len(p) + 2
        BY <1>1, <2>1
      <4> QED BY <4>1, <2>1, <1>4, PrefixParts
    <3> QED BY <2>1, <3>1, EncodeParts
  <2>2. CASE i \in {Len(p) + 1, Len(p) + 2}
    <3>1. Len(p) + 1 \in 1 .. Len(p) + 2 /\ Len(p) + 2 \in 1 .. Len(p) + 2
      BY <1>1
    <3>2. flatKeyName(p, k)[i] = "-"
      BY <2>2, <3>1, <1>4, PrefixParts
    <3> QED BY <3>2
  <2>3. CASE i > Len(p) + 2
    <3>1. PICK j \in 1 .. Len(k) : i = Len(p) + 2 + j
      <4>1. i - (Len(p) + 2) \in 1 .. Len(k) /\ i = Len(p) + 2 + (i - (Len(p) + 2))
        BY <1>1, <2>3
      <4> QED BY <4>1
    <3>2. flatKeyName(p, k)[i] = flatEncode(k)[j]
      BY <3>1, <1>4
    <3>3. flatEncode(k)[j] \notin {"/", "_"}
      BY EncodeParts
    <3> QED BY <3>2, <3>3
  <2>4. i \in 1 .. Len(p) \/ i \in {Len(p) + 1, Len(p) + 2} \/ i > Len(p) + 2
    BY <1>1
  <2> QED BY <2>1, <2>2, <2>3, <2>4
<1> QED BY <1>4, <1>7

\* CutPrefix, character by character.
LEMMA BelongsParts ==
  ASSUME NEW p \in Text, NEW n \in Text
  PROVE  belongs(p, n) <=> /\ Len(n) > Len(p) + 2
                           /\ \A i \in 1 .. Len(p) + 2 : n[i] = flatSecretPrefix(p)[i]
<1> DEFINE s == flatSecretPrefix(p)
           l == Len(p) + 2
<1>1. s \in Text /\ Len(s) = l /\ l \in Nat /\ Len(n) \in Nat
  BY PrefixParts, LenProperties DEF Text
<1>2. belongs(p, n) <=> l <= Len(n) /\ SubSeq(s, 1, l) = SubSeq(n, 1, l) /\ Len(n) > l
  BY <1>1 DEF belongs, IsPrefix
<1> HIDE DEF s, l
<1>3. SUFFICES ASSUME Len(n) > l
               PROVE  SubSeq(s, 1, l) = SubSeq(n, 1, l) <=> \A i \in 1 .. l : n[i] = s[i]
  BY <1>1, <1>2 DEF s, l
<1>4. SubSeq(s, 1, l) = [i \in 1 .. l |-> s[i]] /\ SubSeq(n, 1, l) = [i \in 1 .. l |-> n[i]]
  BY <1>1, <1>3, SubSeqProperties DEF Text
<1> QED BY <1>4

\* What is left of a name after the prefix, decoded.
LEMMA DecodeParts ==
  ASSUME NEW p \in Text, NEW n \in Text, Len(n) > Len(p) + 2
  PROVE  /\ flatDecodeKey(p, n) \in Text
         /\ Len(flatDecodeKey(p, n)) = Len(n) - (Len(p) + 2)
         /\ \A i \in 1 .. Len(n) - (Len(p) + 2) :
              flatDecodeKey(p, n)[i] = IF n[Len(p) + 2 + i] = "-" THEN "_" ELSE n[Len(p) + 2 + i]
<1> DEFINE l == Len(p) + 2
           rest == SubSeq(n, l + 1, Len(n))
<1>1. l \in Nat /\ Len(n) \in Nat /\ Len(flatSecretPrefix(p)) = l
  BY PrefixParts, LenProperties DEF Text
<1>2. flatDecodeKey(p, n) = [i \in DOMAIN rest |-> IF rest[i] = "-" THEN "_" ELSE rest[i]]
  BY <1>1 DEF flatDecodeKey
<1> HIDE DEF l, rest
<1>3. /\ rest \in Text
      /\ Len(rest) = Len(n) - l
      /\ DOMAIN rest = 1 .. Len(n) - l
      /\ \A i \in 1 .. Len(n) - l : rest[i] = n[l + i]
  <2>1. Len(n) > l
    BY DEF l
  <2>2. l + 1 \in 1 .. Len(n) + 1 /\ Len(n) \in (l + 1) - 1 .. Len(n)
    BY <1>1, <2>1
  <2>3. rest \in Text /\ Len(rest) = Len(n) - (l + 1) + 1
        /\ \A i \in 1 .. Len(n) - (l + 1) + 1 : rest[i] = n[(l + 1) + i - 1]
    BY <1>1, <2>1, <2>2, SubSeqProperties DEF Text, rest
  <2>4. Len(rest) = Len(n) - l /\ \A i \in 1 .. Len(n) - l : rest[i] = n[l + i]
    BY <1>1, <2>3
  <2> QED BY <2>3, <2>4, LenProperties DEF Text
<1>4. \A i \in 1 .. Len(n) - l : rest[i] \in Char
  BY <1>3, ElementOfSeq DEF Text
<1>5. \A i \in 1 .. Len(n) - l : flatDecodeKey(p, n)[i] \in Char
  BY <1>2, <1>3, <1>4 DEF Char
<1>6. flatDecodeKey(p, n) \in Text /\ Len(flatDecodeKey(p, n)) = Len(n) - l
  <2>1. Len(n) - l \in Nat
    BY <1>1 DEF l
  <2>2. flatDecodeKey(p, n) \in [1 .. Len(n) - l -> Char]
    BY <1>2, <1>3, <1>5
  <2> QED BY <2>1, <2>2, FunctionIsSeq DEF Text
<1> QED BY <1>2, <1>3, <1>6 DEF l

\* A name as a Key Vault permits it.
Plain(n) == \A i \in 1 .. Len(n) : n[i] \notin {"/", "_"}

\* Decoding such a name and encoding what came of it gives the name back.
LEMMA EncodeOfDecoded ==
  ASSUME NEW p \in Text, NEW n \in Text, belongs(p, n), Plain(n)
  PROVE  flatKeyName(p, flatDecodeKey(p, n)) = n
<1> DEFINE k == flatDecodeKey(p, n)
           l == Len(p) + 2
           m == flatKeyName(p, k)
<1>1. l \in Nat /\ Len(n) \in Nat
  BY LenProperties DEF Text
<1>2. Len(n) > l
  BY BelongsParts
<1>3. \A i \in 1 .. l : n[i] = flatSecretPrefix(p)[i]
  BY BelongsParts
<1>4. k \in Text /\ Len(k) = Len(n) - l
  BY <1>2, DecodeParts
<1>5. \A i \in 1 .. Len(n) - l : k[i] = IF n[l + i] = "-" THEN "_" ELSE n[l + i]
  BY <1>2, DecodeParts
<1> HIDE DEF k
<1>6. m \in Text /\ Len(m) = l + Len(k)
  BY <1>4, NameParts
<1>7. /\ \A i \in 1 .. l : m[i] = flatSecretPrefix(p)[i]
      /\ \A i \in 1 .. Len(k) : m[l + i] = flatEncode(k)[i]
  BY <1>4, NameParts
<1> HIDE DEF m, l
<1>8. Len(m) = Len(n)
  BY <1>1, <1>4, <1>6
<1>9. ASSUME NEW j \in 1 .. Len(n), j > l PROVE m[j] = n[j]
  <2>1. PICK i \in 1 .. Len(k) : j = l + i
    <3>1. j - l \in 1 .. Len(k) /\ j = l + (j - l)
      BY <1>1, <1>4, <1>9
    <3> QED BY <3>1
  <2>2. k[i] = IF n[j] = "-" THEN "_" ELSE n[j]
    BY <1>4, <1>5, <2>1
  <2>3. flatEncode(k)[i] = IF k[i] \in {"/", "_"} THEN "-" ELSE k[i]
    BY <1>4, EncodeParts
  <2>4. n[j] \notin {"/", "_"}
    BY DEF Plain
  <2>5. flatEncode(k)[i] = n[j]
    BY <2>2, <2>3, <2>4
  <2>6. m[j] = flatEncode(k)[i]
    BY <1>7, <2>1
  <2> QED BY <2>5, <2>6
<1>10. ASSUME NEW j \in 1 .. Len(n), ~(j > l) PROVE m[j] = n[j]
  <2>1. j \in 1 .. l
    BY <1>1, <1>10
  <2> QED BY <2>1, <1>3, <1>7
<1>11. m = n
  BY <1>6, <1>8, <1>9, <1>10, SeqEqual DEF Text
<1> QED BY <1>11 DEF m, k

\* A key that follows the convention belongs to its path, and decodes to itself.
LEMMA DecodeOfEncoded ==
  ASSUME NEW p \in Text, NEW k \in Text, k # <<>>, \A i \in DOMAIN k : k[i] \notin {"-", "/"}
  PROVE  belongs(p, flatKeyName(p, k)) /\ flatDecodeKey(p, flatKeyName(p, k)) = k
<1> DEFINE n == flatKeyName(p, k)
           l == Len(p) + 2
           d == flatDecodeKey(p, n)
<1>1. l \in Nat /\ Len(k) \in Nat \ {0} /\ DOMAIN k = 1 .. Len(k)
  BY LenProperties, EmptySeq DEF Text
<1>2. /\ n \in Text /\ Len(n) = l + Len(k)
      /\ \A i \in 1 .. l : n[i] = flatSecretPrefix(p)[i]
      /\ \A i \in 1 .. Len(k) : n[l + i] = flatEncode(k)[i]
  BY NameParts
<1> HIDE DEF n
<1>3. Len(n) > l /\ Len(n) - l = Len(k)
  BY <1>1, <1>2
<1>4. belongs(p, n)
  BY <1>2, <1>3, BelongsParts
<1>5. /\ d \in Text /\ Len(d) = Len(n) - l
      /\ \A i \in 1 .. Len(n) - l : d[i] = IF n[l + i] = "-" THEN "_" ELSE n[l + i]
  BY <1>2, <1>3, DecodeParts
<1> HIDE DEF d, l
<1>6. ASSUME NEW i \in 1 .. Len(k) PROVE d[i] = k[i]
  <2>1. d[i] = IF flatEncode(k)[i] = "-" THEN "_" ELSE flatEncode(k)[i]
    BY <1>2, <1>3, <1>5
  <2>2. flatEncode(k)[i] = IF k[i] \in {"/", "_"} THEN "-" ELSE k[i]
    BY EncodeParts
  <2>3. k[i] \notin {"-", "/"}
    BY <1>1
  <2> QED BY <2>1, <2>2, <2>3
<1>7. d = k
  BY <1>3, <1>5, <1>6, SeqEqual DEF Text
<1> QED BY <1>4, <1>7 DEF n, d

\* The conditions of FlatPaths on one path.
OneReading(p) ==
  /\ flatEncode(p)[Len(p)] # "-"
  /\ \A i \in 1 .. Len(p) - 1 : ~(flatEncode(p)[i] = "-" /\ flatEncode(p)[i + 1] = "-")

\* The first double hyphen of a name ends its path.
LEMMA FirstDoubleHyphen ==
  ASSUME NEW p \in Text, p # <<>>, OneReading(p), NEW n,
         \A i \in 1 .. Len(p) + 2 : n[i] = flatSecretPrefix(p)[i],
         NEW j \in 1 .. Len(p)
  PROVE  ~(n[j] = "-" /\ n[j + 1] = "-") /\ n[Len(p) + 1] = "-" /\ n[Len(p) + 2] = "-"
<1>1. Len(p) \in Nat \ {0}
  BY EmptySeq DEF Text
<1>2. n[Len(p) + 1] = "-" /\ n[Len(p) + 2] = "-"
  <2>1. Len(p) + 1 \in 1 .. Len(p) + 2 /\ Len(p) + 2 \in 1 .. Len(p) + 2
    BY <1>1
  <2> QED BY <2>1, PrefixParts
<1>3. \A i \in 1 .. Len(p) : n[i] = flatEncode(p)[i]
  <2>1. \A i \in 1 .. Len(p) : i \in 1 .. Len(p) + 2
    BY <1>1
  <2> QED BY <2>1, PrefixParts
<1>4. CASE j = Len(p)
  BY <1>2, <1>3, <1>4 DEF OneReading
<1>5. CASE j # Len(p)
  <2>1. j \in 1 .. Len(p) - 1 /\ j + 1 \in 1 .. Len(p)
    BY <1>1, <1>5
  <2> QED BY <2>1, <1>2, <1>3 DEF OneReading
<1> QED BY <1>4, <1>5

\* So a name that belongs to two paths has them encoded alike.
LEMMA SamePrefix ==
  ASSUME NEW p \in Text, NEW q \in Text, NEW k \in Text, p # <<>>, q # <<>>,
         OneReading(p), OneReading(q), belongs(p, flatKeyName(q, k))
  PROVE  flatSecretPrefix(p) = flatSecretPrefix(q)
<1> DEFINE n == flatKeyName(q, k)
<1>1. Len(p) \in Nat \ {0} /\ Len(q) \in Nat \ {0} /\ n \in Text
  BY EmptySeq, NameParts DEF Text
<1>2. \A i \in 1 .. Len(q) + 2 : n[i] = flatSecretPrefix(q)[i]
  BY NameParts
<1>3. \A i \in 1 .. Len(p) + 2 : n[i] = flatSecretPrefix(p)[i]
  BY <1>1, BelongsParts
<1> HIDE DEF n
<1>4. /\ n[Len(p) + 1] = "-" /\ n[Len(p) + 2] = "-"
      /\ \A j \in 1 .. Len(p) : ~(n[j] = "-" /\ n[j + 1] = "-")
  <2>1. 1 \in 1 .. Len(p)
    BY <1>1
  <2> QED BY <2>1, <1>3, FirstDoubleHyphen
<1>5. /\ n[Len(q) + 1] = "-" /\ n[Len(q) + 2] = "-"
      /\ \A j \in 1 .. Len(q) : ~(n[j] = "-" /\ n[j + 1] = "-")
  <2>1. 1 \in 1 .. Len(q)
    BY <1>1
  <2> QED BY <2>1, <1>2, FirstDoubleHyphen
<1>6. Len(p) = Len(q)
  <2>1. ~(Len(p) < Len(q))
    <3> SUFFICES ASSUME Len(p) < Len(q) PROVE FALSE
      OBVIOUS
    <3>1. Len(p) + 1 \in 1 .. Len(q) /\ (Len(p) + 1) + 1 = Len(p) + 2
      BY <1>1
    <3> QED BY <3>1, <1>4, <1>5
  <2>2. ~(Len(q) < Len(p))
    <3> SUFFICES ASSUME Len(q) < Len(p) PROVE FALSE
      OBVIOUS
    <3>1. Len(q) + 1 \in 1 .. Len(p) /\ (Len(q) + 1) + 1 = Len(q) + 2
      BY <1>1
    <3> QED BY <3>1, <1>4, <1>5
  <2> QED BY <1>1, <2>1, <2>2
<1>7. /\ flatSecretPrefix(p) \in Text /\ Len(flatSecretPrefix(p)) = Len(p) + 2
      /\ flatSecretPrefix(q) \in Text /\ Len(flatSecretPrefix(q)) = Len(p) + 2
  BY <1>6, PrefixParts
<1>8. \A i \in 1 .. Len(p) + 2 : flatSecretPrefix(p)[i] = flatSecretPrefix(q)[i]
  BY <1>2, <1>3, <1>6
<1> QED BY <1>7, <1>8, SeqEqual DEF Text

--------------------------------------------------------------------------------
(* The names in use *)

LEMMA WiderSeq ==
  ASSUME NEW S, NEW T, S \subseteq T, NEW s \in Seq(S)
  PROVE  s \in Seq(T)
<1>1. Len(s) \in Nat /\ s \in [1 .. Len(s) -> S]
  BY LenProperties
<1>2. s \in [1 .. Len(s) -> T]
  BY <1>1
<1> QED BY <1>1, <1>2, FunctionIsSeq

\* Paths and keys are texts, and not empty.
LEMMA PathsAndKeys ==
  ASSUME backend \in Backends, NEW p \in Path
  PROVE  /\ p \in Text /\ p # <<>>
         /\ Keys[p] # {}
         /\ \A k \in Keys[p] : k \in Text /\ k # <<>>
<1>1. /\ p \in Seq(STRING) \ {<<>>}
      /\ Keys[p] \subseteq Seq(STRING) \ {<<>>} /\ Keys[p] # {}
  BY CloudBackendsAssumption DEF Path
<1>2. STRING \subseteq Char
  BY DEF Char
<1>3. \A s \in Seq(STRING) : s \in Text
  BY <1>2, WiderSeq DEF Text
<1> QED BY <1>1, <1>3

LEMMA ImageFinite ==
  ASSUME NEW S, IsFiniteSet(S), NEW f
  PROVE  IsFiniteSet({f[x] : x \in S})
<1> DEFINE g == [x \in S |-> f[x]]
           T == {f[x] : x \in S}
<1>1. g \in Surjection(S, T)
  BY DEF Surjection
<1> QED BY <1>1, FS_Surjection

LEMMA NameFinite ==
  ASSUME backend \in Backends
  PROVE  IsFiniteSet(Name)
<1> DEFINE f == [p \in Path |-> {Home(p, k) : k \in Keys[p]}]
<1>1. IsFiniteSet(Path) /\ \A p \in Path : IsFiniteSet(Keys[p])
  BY CloudBackendsAssumption DEF Path
<1>2. ASSUME NEW p \in Path PROVE IsFiniteSet(f[p])
  <2> DEFINE g == [k \in Keys[p] |-> Home(p, k)]
  <2>1. IsFiniteSet({g[k] : k \in Keys[p]})
    BY <1>1, ImageFinite
  <2>2. {g[k] : k \in Keys[p]} = {Home(p, k) : k \in Keys[p]}
    OBVIOUS
  <2>3. f[p] = {Home(p, k) : k \in Keys[p]}
    OBVIOUS
  <2> QED BY <2>1, <2>2, <2>3
<1>3. Name = UNION {f[p] : p \in Path}
  BY DEF Name
<1> HIDE DEF f
<1>4. IsFiniteSet({f[p] : p \in Path})
  BY <1>1, ImageFinite
<1>5. \A T \in {f[p] : p \in Path} : IsFiniteSet(T)
  BY <1>2
<1>6. IsFiniteSet(UNION {f[p] : p \in Path})
  BY <1>4, <1>5, FS_UNION
<1> QED BY <1>3, <1>6

\* The listing runs over all of the names.
LEMMA ListingParts ==
  ASSUME backend \in Backends
  PROVE  /\ Len(Listing) \in Nat
         /\ \A i \in 1 .. Len(Listing) : Listing[i] \in Name
         /\ \A n \in Name : \E i \in 1 .. Len(Listing) : Listing[i] = n
<1> DEFINE c == Cardinality(Name)
<1>1. IsFiniteSet(Name)
  BY NameFinite
<1>2. c \in Nat /\ ExistsBijection(1 .. c, Name)
  BY <1>1, FS_CardinalityType
<1> HIDE DEF c
<1>3. \E f \in [1 .. c -> Name] : IsInjective(f)
  BY <1>2 DEF ExistsBijection, Bijection, Injection
<1>4. Listing \in [1 .. c -> Name] /\ IsInjective(Listing)
  BY <1>3 DEF Listing, SetToSeq, c
<1> DEFINE L == Listing
<1> HIDE DEF L
<1>5. L \in Injection(1 .. c, Name)
  BY <1>4 DEF Injection, L
<1>6. Cardinality(1 .. c) = Cardinality(Name)
  <2>1. Cardinality(1 .. c) = c
    BY <1>2, FS_Interval
  <2> QED BY <2>1 DEF c
<1>7. L \in Surjection(1 .. c, Name)
  BY <1>1, <1>5, <1>6, FS_Injection
<1>8. L \in Seq(Name) /\ Len(L) = c
  BY <1>2, <1>4, FunctionIsSeq DEF L
<1> QED BY <1>2, <1>4, <1>7, <1>8 DEF L, Surjection

LEMMA HomeInName ==
  ASSUME NEW p \in Path, NEW k \in Keys[p]
  PROVE  Home(p, k) \in Name
BY DEF Name

LEMMA FlatName ==
  ASSUME backend \in Backends, backend = "azure flat", NEW n \in Name
  PROVE  /\ n \in Text
         /\ Plain(n)
         /\ \E p \in Path : \E k \in Keys[p] : n = flatKeyName(p, k)
<1>1. PICK p \in Path : \E k \in Keys[p] : n = flatKeyName(p, k)
  BY DEF Name, Home
<1>2. PICK k \in Keys[p] : n = flatKeyName(p, k)
  BY <1>1
<1>3. p \in Text /\ k \in Text
  BY PathsAndKeys
<1>4. n \in Text /\ Plain(n)
  BY <1>2, <1>3, NameParts DEF Plain
<1> QED BY <1>2, <1>4

\* The configured backend does not change, so neither do the names.
LEMMA SameNames ==
  ASSUME backend' = backend, NEW p, NEW k
  PROVE  /\ Path' = Path /\ Name' = Name /\ Listing' = Listing
         /\ Home(p, k)' = Home(p, k) /\ cacheKey(p)' = cacheKey(p) /\ Place(p)' = Place(p)
<1>1. Path' = Path
  BY DEF Path
<1>2. \A x : secretName(x)' = secretName(x)
  BY DEF secretName
<1>3. \A x, y : Home(x, y)' = Home(x, y)
  BY <1>2 DEF Home
<1>4. Name' = Name
  BY <1>1, <1>3 DEF Name
<1>5. Listing' = Listing
  BY <1>4 DEF Listing
<1>6. cacheKey(p)' = cacheKey(p) /\ Place(p)' = Place(p)
  BY <1>2 DEF cacheKey, Place
<1> QED BY <1>1, <1>3, <1>4, <1>5, <1>6

--------------------------------------------------------------------------------
(* The inductive invariant *)

\* A request is a record of these fields.
Field == {"pc", "path", "cursor", "names", "result", "answer", "seen", "count"}
IsRequest(q) == q = [f \in Field |-> q[f]]

\* What is held of a path comes from the secrets it names.
OwnData(p, data) == \A k \in DOMAIN data : data[k].of = Home(p, k)

OwnRead(q) ==
  /\ q.pc # "idle" => q.path \in Path
  /\ q.pc \in {"listing", "getting"} => backend = "azure flat" /\ q.names \in Seq(Name)
  /\ q.pc = "listing" => q.cursor \in Nat \ {0} /\ q.result = Nothing
  /\ q.pc = "getting one" => backend # "azure flat"
  /\ q.pc = "getting" => OwnData(q.path, q.result)
  /\ q.pc \in {"assembled", "filled", "counted", "answered"} => OwnData(q.path, q.answer.data)

\* Where a key of the path is on its way through getFlat: listed, still to be
\* listed, or seen to be absent.
Listed(q, n) == \E i \in 1 .. Len(q.names) : q.names[i] = n
Ahead(q, n) == \E i \in q.cursor .. Len(Listing) : Listing[i] = n

WasSo(q) ==
  \A k \in IF backend = "aws" /\ DOMAIN q.answer.data = {ValueKey} THEN {ValueKey} ELSE Keys[q.path] :
    <<Home(q.path, k), IF k \in DOMAIN q.answer.data THEN q.answer.data[k] ELSE Gone>> \in q.seen

Watched(q) == \A k \in Keys[q.path] : <<Home(q.path, k), vault[Home(q.path, k)]>> \in q.seen
ListsAll(q) ==
  \A k \in Keys[q.path] : \/ Listed(q, Home(q.path, k))
                          \/ Ahead(q, Home(q.path, k))
                          \/ <<Home(q.path, k), Gone>> \in q.seen
GetsAll(q) ==
  \A k \in Keys[q.path] :
    /\ k \in DOMAIN q.result => <<Home(q.path, k), q.result[k]>> \in q.seen
    /\ k \notin DOMAIN q.result => \/ Listed(q, Home(q.path, k))
                                   \/ <<Home(q.path, k), Gone>> \in q.seen
TrueRead(q) ==
  /\ q.pc \in {"listing", "getting", "getting one"} => Watched(q)
  /\ q.pc = "listing" => ListsAll(q)
  /\ q.pc = "getting" => GetsAll(q)
  /\ q.pc = "assembled" => WasSo(q)

PlainRead(q) ==
  /\ q.pc = "getting" => DOMAIN q.result \subseteq KeysAt(q.path)
  /\ q.pc = "assembled" =>
       DOMAIN q.answer.data \subseteq KeysAt(q.path) \cup (IF backend = "aws" THEN {ValueKey} ELSE {})

ReadInv(q) ==
  /\ IsRequest(q)
  /\ OwnRead(q)
  /\ FlatKeys => TrueRead(q)
  /\ FlatKeys /\ FlatPaths => PlainRead(q)

CachedOwn == \A key \in DOMAIN cached : \A p \in Path : cacheKey(p) = key => OwnData(p, cached[key].data)

BackendInv ==
  /\ backend \in Backends
  /\ vault = [n \in Name |-> vault[n]]
  /\ \A n \in Name : vault[n] = Gone \/ vault[n].of = n
  /\ CachedOwn
  /\ req = [r \in Request |-> req[r]]
  /\ \A r \in Request : ReadInv(req[r])

--------------------------------------------------------------------------------
(* What changes nothing for a request *)

LEMMA SameOwnRead ==
  ASSUME backend' = backend, NEW q, OwnRead(q)
  PROVE  OwnRead(q)'
<1>1. Path' = Path /\ Name' = Name /\ \A p, k : Home(p, k)' = Home(p, k)
  BY SameNames
<1>2. \A p, data : OwnData(p, data) => OwnData(p, data)'
  BY <1>1 DEF OwnData
<1> QED BY <1>1, <1>2 DEF OwnRead

LEMMA SameTrueRead ==
  ASSUME backend' = backend, vault' = vault, NEW q, TrueRead(q)
  PROVE  TrueRead(q)'
<1>1. Listing' = Listing /\ \A p, k : Home(p, k)' = Home(p, k)
  BY SameNames
<1>2. Watched(q) => Watched(q)'
  BY <1>1 DEF Watched
<1>3. \A n : (Listed(q, n) => Listed(q, n)') /\ (Ahead(q, n) => Ahead(q, n)')
  BY <1>1 DEF Listed, Ahead
<1>4. ListsAll(q) => ListsAll(q)'
  BY <1>1, <1>3 DEF ListsAll
<1>5. GetsAll(q) => GetsAll(q)'
  BY <1>1, <1>3 DEF GetsAll
<1>6. WasSo(q) => WasSo(q)'
  BY <1>1 DEF WasSo
<1> QED BY <1>2, <1>4, <1>5, <1>6 DEF TrueRead

LEMMA SamePlainRead ==
  ASSUME backend' = backend, NEW q, PlainRead(q)
  PROVE  PlainRead(q)'
<1>1. Path' = Path /\ \A p : Place(p)' = Place(p)
  BY SameNames
<1>2. \A p : KeysAt(p)' = KeysAt(p)
  BY <1>1 DEF KeysAt
<1> QED BY <1>2 DEF PlainRead

LEMMA SameReadInv ==
  ASSUME backend' = backend, vault' = vault, NEW q, ReadInv(q)
  PROVE  ReadInv(q)'
<1>1. IsRequest(q) => IsRequest(q)'
  BY DEF IsRequest
<1> QED BY <1>1, SameOwnRead, SameTrueRead, SamePlainRead DEF ReadInv

LEMMA SameCachedOwn ==
  ASSUME backend' = backend, cached' = cached, CachedOwn
  PROVE  CachedOwn'
<1>1. Path' = Path /\ \A p, k : Home(p, k)' = Home(p, k) /\ cacheKey(p)' = cacheKey(p)
  BY SameNames
<1>2. \A p, data : OwnData(p, data) => OwnData(p, data)'
  BY <1>1 DEF OwnData
<1> QED BY <1>1, <1>2 DEF CachedOwn

LEMMA SameVault ==
  ASSUME backend' = backend, vault' = vault,
         vault = [n \in Name |-> vault[n]],
         \A n \in Name : vault[n] = Gone \/ vault[n].of = n
  PROVE  /\ vault' = [n \in Name' |-> vault'[n]]
         /\ \A n \in Name' : vault'[n] = Gone \/ vault'[n].of = n
<1>1. Name' = Name
  BY SameNames
<1> QED BY <1>1

\* One request moves, and nothing else.
LEMMA OneMoves ==
  ASSUME BackendInv, UNCHANGED <<backend, vault, cached>>,
         NEW r \in Request, NEW q, ReadInv(q), req' = [req EXCEPT ![r] = q]
  PROVE  BackendInv'
<1>1. /\ req' = [s \in Request |-> req'[s]]
      /\ req'[r] = q
      /\ \A s \in Request : s # r => req'[s] = req[s]
  BY DEF BackendInv
<1>2. ASSUME NEW s \in Request PROVE ReadInv(req[s])'
  <2>1. ReadInv(req[s])
    BY DEF BackendInv
  <2>2. PICK w : w = req'[s]
    OBVIOUS
  <2>3. ReadInv(w)
    BY <1>1, <2>1, <2>2
  <2>4. ReadInv(w)'
    BY <2>3, SameReadInv
  <2> QED BY <2>2, <2>4
<1>3. CachedOwn'
  BY SameCachedOwn DEF BackendInv
<1>4. /\ vault' = [n \in Name' |-> vault'[n]]
      /\ \A n \in Name' : vault'[n] = Gone \/ vault'[n].of = n
  BY SameVault DEF BackendInv
<1> QED BY <1>1, <1>2, <1>3, <1>4 DEF BackendInv

--------------------------------------------------------------------------------
(* The steps *)

LEMMA IdleFields ==
  /\ IsRequest(Idle)
  /\ Idle.pc = "idle" /\ Idle.names = <<>> /\ Idle.result = Nothing /\ Idle.answer = Failed
BY DEF Idle, IsRequest, Field

LEMMA NoData ==
  /\ DOMAIN Nothing = {} /\ Missing.data = Nothing /\ Failed.data = Nothing
  /\ \A data : Found(data).data = data
BY DEF Nothing, Missing, Failed, Found

LEMMA InitInv == Init => BackendInv
<1> SUFFICES ASSUME Init PROVE BackendInv
  OBVIOUS
<1>1. backend \in Backends /\ vault = [n \in Name |-> vault[n]]
  BY DEF Init
<1>2. \A n \in Name : vault[n] = Gone \/ vault[n].of = n
  BY DEF Init, Contents
<1>3. CachedOwn /\ req = [r \in Request |-> req[r]]
  BY DEF Init, CachedOwn
<1>4. ReadInv(Idle)
  BY IdleFields DEF ReadInv, OwnRead, TrueRead, PlainRead
<1>5. \A r \in Request : req[r] = Idle
  BY DEF Init
<1> QED BY <1>1, <1>2, <1>3, <1>4, <1>5 DEF BackendInv

\* An answered request holds no more than its own data.
LEMMA AnsweredInv ==
  ASSUME NEW q, IsRequest(q), q.pc = "answered", q.path \in Path, OwnData(q.path, q.answer.data)
  PROVE  ReadInv(q)
BY DEF ReadInv, OwnRead, TrueRead, PlainRead

LEMMA NoOwnData ==
  ASSUME NEW p, NEW a \in {Missing, Failed}
  PROVE  OwnData(p, a.data)
BY NoData DEF OwnData

LEMMA AbortKeeps ==
  ASSUME BackendInv, NEW r \in Request, NEW a \in {Missing, Failed}, req[r].pc # "idle",
         Abort(r, a), UNCHANGED <<providerVars, cacheVars>>
  PROVE  BackendInv'
<1> DEFINE o == req[r]
<1>1. req = [s \in Request |-> req[s]] /\ IsRequest(o) /\ o.path \in Path
  BY DEF BackendInv, ReadInv, OwnRead
<1>2. PICK q : q = [o EXCEPT !.pc = "answered", !.answer = a]
  OBVIOUS
<1>3. req' = [req EXCEPT ![r] = q]
  BY <1>1, <1>2 DEF Abort
<1>4. /\ q.pc = "answered" /\ q.path = o.path /\ q.answer = a
      /\ IsRequest(q)
  BY <1>1, <1>2 DEF IsRequest, Field
<1>5. ReadInv(q)
  BY <1>1, <1>4, NoOwnData, AnsweredInv
<1> QED BY <1>3, <1>5, OneMoves DEF providerVars, cacheVars

LEMMA ReturnKeeps ==
  ASSUME BackendInv, NEW r \in Request, Return(r)
  PROVE  BackendInv'
<1>1. ReadInv(Idle)
  BY IdleFields DEF ReadInv, OwnRead, TrueRead, PlainRead
<1>2. PICK q : q = Idle
  OBVIOUS
<1>3. req' = [req EXCEPT ![r] = q] /\ ReadInv(q)
  BY <1>1, <1>2 DEF Return
<1> QED BY <1>3, OneMoves DEF Return, providerVars, cacheVars

LEMMA CountKeeps ==
  ASSUME BackendInv, NEW r \in Request, Count(r)
  PROVE  BackendInv'
<1> DEFINE o == req[r]
<1>1. /\ req = [s \in Request |-> req[s]] /\ IsRequest(o)
      /\ o.path \in Path /\ OwnData(o.path, o.answer.data)
  BY DEF BackendInv, ReadInv, OwnRead, Count
<1>2. PICK q : q = [o EXCEPT !.pc = "counted", !.count = Cardinality(DOMAIN cached)]
  OBVIOUS
<1>3. req' = [req EXCEPT ![r] = q]
  BY <1>1, <1>2 DEF Count
<1>4. /\ q.pc = "counted" /\ q.path = o.path /\ q.answer = o.answer
      /\ IsRequest(q)
  BY <1>1, <1>2 DEF IsRequest, Field
<1>5. ReadInv(q)
  BY <1>1, <1>4 DEF ReadInv, OwnRead, TrueRead, PlainRead
<1> QED BY <1>3, <1>5, OneMoves DEF Count, providerVars, cacheVars

\* A hit is answered with what was filled in for a path kept in the same place.
LEMMA GetSecretKeeps ==
  ASSUME BackendInv, NEW r \in Request, NEW path \in Path, GetSecret(r, path)
  PROVE  BackendInv'
<1> DEFINE key == cacheKey(path)
           pc == IF backend = "azure flat" THEN "listing" ELSE "getting one"
           seen == {<<n, vault[n]>> : n \in {Home(path, k) : k \in Keys[path]}}
<1>1. CASE key \in DOMAIN cached
  <2>1. PICK q : q = [Idle EXCEPT !.pc = "answered", !.path = path, !.answer = cached[key]]
    OBVIOUS
  <2>2. req' = [req EXCEPT ![r] = q]
    BY <1>1, <2>1 DEF GetSecret
  <2>3. q.pc = "answered" /\ q.path = path /\ q.answer = cached[key] /\ IsRequest(q)
    BY <2>1, IdleFields DEF IsRequest, Field
  <2>4. OwnData(path, cached[key].data)
    BY <1>1 DEF BackendInv, CachedOwn
  <2>5. ReadInv(q)
    BY <2>3, <2>4, AnsweredInv
  <2> QED BY <2>2, <2>5, OneMoves DEF GetSecret, providerVars, cacheVars
<1>2. CASE key \notin DOMAIN cached
  <2>1. PICK q : q = [Idle EXCEPT !.pc = pc, !.path = path, !.cursor = 1, !.seen = seen]
    OBVIOUS
  <2>2. req' = [req EXCEPT ![r] = q]
    BY <1>2, <2>1 DEF GetSecret
  <2>3. /\ q.pc = pc /\ q.path = path /\ q.cursor = 1 /\ q.names = <<>> /\ q.result = Nothing
        /\ q.seen = seen
        /\ IsRequest(q)
    BY <2>1, IdleFields DEF IsRequest, Field
  <2>4. \/ q.pc = "listing" /\ backend = "azure flat"
        \/ q.pc = "getting one" /\ backend # "azure flat"
    BY <2>3
  <2>5. Watched(q)
    <3>1. \A k \in Keys[path] : <<Home(path, k), vault[Home(path, k)]>> \in seen
      OBVIOUS
    <3> QED BY <2>3, <3>1 DEF Watched
  <2>6. ListsAll(q)
    <3> SUFFICES ASSUME NEW k \in Keys[path] PROVE Ahead(q, Home(path, k))
      BY <2>3 DEF ListsAll
    <3>1. backend \in Backends /\ Home(path, k) \in Name
      BY HomeInName DEF BackendInv
    <3> QED BY <2>3, <3>1, ListingParts DEF Ahead
  <2>7. q.names \in Seq(Name) /\ q.cursor \in Nat \ {0}
    <3>1. q.names = <<>> /\ q.cursor = 1
      BY <2>3
    <3> QED BY <3>1, EmptySeq
  <2>8. ReadInv(q)
    BY <2>3, <2>4, <2>5, <2>6, <2>7 DEF ReadInv, OwnRead, TrueRead, PlainRead
  <2> QED BY <2>2, <2>8, OneMoves DEF GetSecret, providerVars, cacheVars
<1> QED BY <1>1, <1>2

\* What the invariant says of a request that lists, and of one that gets.
LEMMA Listing1 ==
  ASSUME BackendInv, NEW r \in Request, req[r].pc \in {"listing", "getting"}
  PROVE  /\ backend \in Backends /\ backend = "azure flat"
         /\ req = [s \in Request |-> req[s]] /\ IsRequest(req[r])
         /\ req[r].path \in Path /\ req[r].names \in Seq(Name)
         /\ req[r].pc = "listing" => req[r].cursor \in Nat \ {0} /\ req[r].result = Nothing
         /\ req[r].pc = "getting" => OwnData(req[r].path, req[r].result)
BY DEF BackendInv, ReadInv, OwnRead

LEMMA Listing2 ==
  ASSUME BackendInv, NEW r \in Request, FlatKeys
  PROVE  /\ req[r].pc \in {"listing", "getting", "getting one"} => Watched(req[r])
         /\ req[r].pc = "listing" => ListsAll(req[r])
         /\ req[r].pc = "getting" => GetsAll(req[r])
BY DEF BackendInv, ReadInv, TrueRead

\* A listed name goes behind the others.
LEMMA ListedAppend ==
  ASSUME NEW s \in Seq(Name), NEW x \in Name
  PROVE  /\ Append(s, x) \in Seq(Name)
         /\ \A n : (\E i \in 1 .. Len(s) : s[i] = n) => \E i \in 1 .. Len(Append(s, x)) : Append(s, x)[i] = n
         /\ \E i \in 1 .. Len(Append(s, x)) : Append(s, x)[i] = x
<1> DEFINE t == Append(s, x)
<1>1. Len(s) \in Nat
  BY LenProperties
<1>2. /\ t \in Seq(Name) /\ Len(t) = Len(s) + 1 /\ t[Len(s) + 1] = x
      /\ \A i \in 1 .. Len(s) : t[i] = s[i]
  BY AppendProperties
<1> HIDE DEF t
<1>3. \A i \in 1 .. Len(s) : i \in 1 .. Len(t)
  BY <1>1, <1>2
<1>4. Len(s) + 1 \in 1 .. Len(t)
  BY <1>1, <1>2
<1>5. t \in Seq(Name) /\ \E i \in 1 .. Len(t) : t[i] = x
  BY <1>2, <1>4
<1>6. \A n : (\E i \in 1 .. Len(s) : s[i] = n) => \E i \in 1 .. Len(t) : t[i] = n
  BY <1>2, <1>3
<1> QED BY <1>5, <1>6 DEF t

LEMMA ListPageKeeps ==
  ASSUME BackendInv, NEW r \in Request, ListPage(r)
  PROVE  BackendInv'
<1> DEFINE o == req[r]
           name == Listing[o.cursor]
           names == IF Present(name) THEN Append(o.names, name) ELSE o.names
<1>1. o.pc = "listing" /\ o.cursor <= Len(Listing)
  BY DEF ListPage
<1>2. /\ backend \in Backends /\ backend = "azure flat"
      /\ req = [s \in Request |-> req[s]] /\ IsRequest(o)
      /\ o.path \in Path /\ o.names \in Seq(Name)
      /\ o.cursor \in Nat \ {0} /\ o.result = Nothing
  BY <1>1, Listing1
<1>3. PICK q : q = [o EXCEPT !.cursor = o.cursor + 1, !.names = names]
  OBVIOUS
<1>4. req' = [req EXCEPT ![r] = q]
  BY <1>2, <1>3 DEF ListPage
<1>5. /\ q.pc = "listing" /\ q.path = o.path /\ q.cursor = o.cursor + 1 /\ q.names = names
      /\ q.result = o.result /\ q.seen = o.seen
      /\ IsRequest(q)
  BY <1>1, <1>2, <1>3 DEF IsRequest, Field
<1>6. Len(Listing) \in Nat /\ o.cursor \in 1 .. Len(Listing) /\ name \in Name
  <2>1. Len(Listing) \in Nat /\ \A i \in 1 .. Len(Listing) : Listing[i] \in Name
    BY <1>2, ListingParts
  <2>2. o.cursor \in Nat /\ o.cursor # 0 /\ o.cursor <= Len(Listing)
    BY <1>1, <1>2
  <2>3. o.cursor \in 1 .. Len(Listing)
    BY <2>1, <2>2
  <2> QED BY <2>1, <2>3
<1>7. names \in Seq(Name)
  BY <1>2, <1>6, ListedAppend
<1>8. q.cursor \in Nat \ {0}
  <2>1. o.cursor \in Nat /\ q.cursor = o.cursor + 1
    BY <1>2, <1>5
  <2> QED BY <2>1
<1>9. /\ \A n : Listed(o, n) => Listed(q, n)
      /\ Present(name) => Listed(q, name)
  <2>1. CASE Present(name)
    <3>1. q.names = Append(o.names, name)
      BY <1>5, <2>1
    <3>2. o.names \in Seq(Name) /\ name \in Name
      BY <1>2, <1>6
    <3> HIDE DEF o, name, names
    <3> QED BY <3>1, <3>2, ListedAppend DEF Listed
  <2>2. CASE ~Present(name)
    <3>1. q.names = o.names
      BY <1>5, <2>2
    <3> QED BY <2>2, <3>1 DEF Listed
  <2> QED BY <2>1, <2>2
<1>10. ASSUME FlatKeys PROVE Watched(q) /\ ListsAll(q)
  <2>1. Watched(o) /\ ListsAll(o)
    BY <1>1, <1>10, Listing2
  <2>2. Watched(q)
    BY <1>5, <2>1 DEF Watched
  <2>3. ASSUME NEW k \in Keys[o.path]
        PROVE  \/ Listed(q, Home(o.path, k)) \/ Ahead(q, Home(o.path, k))
               \/ <<Home(o.path, k), Gone>> \in o.seen
    <3> DEFINE n == Home(o.path, k)
    <3>1. CASE Listed(o, n)
      BY <1>9, <3>1
    <3>2. CASE <<n, Gone>> \in o.seen
      BY <3>2
    <3>3. CASE Ahead(o, n)
      <4>1. PICK i \in o.cursor .. Len(Listing) : Listing[i] = n
        BY <3>3 DEF Ahead
      <4>2. CASE i = o.cursor
        <5>1. n = name
          BY <4>1, <4>2
        <5>2. CASE Present(name)
          BY <1>9, <5>1, <5>2
        <5>3. CASE ~Present(name)
          <6>1. vault[n] = Gone
            BY <5>1, <5>3 DEF Present
          <6>2. <<n, vault[n]>> \in o.seen
            BY <2>1 DEF Watched
          <6> QED BY <6>1, <6>2
        <5> QED BY <5>2, <5>3
      <4>3. CASE i # o.cursor
        <5>1. i \in o.cursor + 1 .. Len(Listing)
          <6>1. o.cursor \in Nat
            BY <1>2
          <6> QED BY <1>6, <4>1, <4>3, <6>1
        <5>2. Ahead(q, n)
          BY <1>5, <4>1, <5>1 DEF Ahead
        <5> QED BY <5>2
      <4> QED BY <4>2, <4>3
    <3> QED BY <2>1, <3>1, <3>2, <3>3 DEF ListsAll
  <2> QED BY <1>5, <2>2, <2>3 DEF ListsAll
<1>11. OwnRead(q)
  BY <1>2, <1>5, <1>7, <1>8 DEF OwnRead
<1>12. ReadInv(q)
  BY <1>5, <1>10, <1>11 DEF ReadInv, TrueRead, PlainRead
<1> QED BY <1>4, <1>12, OneMoves DEF ListPage, providerVars, cacheVars

LEMMA ListEndsKeeps ==
  ASSUME BackendInv, NEW r \in Request, ListEnds(r)
  PROVE  BackendInv'
<1> DEFINE o == req[r]
<1>1. o.pc = "listing" /\ o.cursor > Len(Listing)
  BY DEF ListEnds
<1>2. /\ backend \in Backends /\ backend = "azure flat"
      /\ req = [s \in Request |-> req[s]] /\ IsRequest(o)
      /\ o.path \in Path /\ o.names \in Seq(Name)
      /\ o.cursor \in Nat \ {0} /\ o.result = Nothing
  BY <1>1, Listing1
<1>3. PICK q : q = [o EXCEPT !.pc = "getting"]
  OBVIOUS
<1>4. req' = [req EXCEPT ![r] = q]
  BY <1>2, <1>3 DEF ListEnds
<1>5. /\ q.pc = "getting" /\ q.path = o.path /\ q.names = o.names
      /\ q.result = o.result /\ q.seen = o.seen
      /\ IsRequest(q)
  BY <1>2, <1>3 DEF IsRequest, Field
<1>6. DOMAIN q.result = {}
  BY <1>2, <1>5, NoData
<1>7. \A n : ~Ahead(o, n)
  <2>1. Len(Listing) \in Nat /\ o.cursor \in Nat /\ o.cursor > Len(Listing)
    BY <1>1, <1>2, ListingParts
  <2>2. o.cursor .. Len(Listing) = {}
    BY <2>1
  <2> QED BY <2>2 DEF Ahead
<1>8. ASSUME FlatKeys PROVE Watched(q) /\ GetsAll(q)
  <2>1. Watched(o) /\ ListsAll(o)
    BY <1>1, <1>8, Listing2
  <2>2. Watched(q)
    BY <1>5, <2>1 DEF Watched
  <2>3. \A n : Listed(o, n) <=> Listed(q, n)
    BY <1>5 DEF Listed
  <2> QED BY <1>5, <1>6, <1>7, <2>1, <2>2, <2>3 DEF ListsAll, GetsAll
<1>9. OwnData(q.path, q.result)
  BY <1>6 DEF OwnData
<1>10. OwnRead(q)
  BY <1>2, <1>5, <1>9 DEF OwnRead
<1>11. ReadInv(q)
  BY <1>5, <1>6, <1>8, <1>10 DEF ReadInv, TrueRead, PlainRead
<1> QED BY <1>4, <1>11, OneMoves DEF ListEnds, providerVars, cacheVars

\* A name taken for a key of the path is where that key is kept.
LEMMA DecodedHome ==
  ASSUME backend \in Backends, backend = "azure flat", NEW p \in Path, NEW n \in Name, belongs(p, n)
  PROVE  Home(p, flatDecodeKey(p, n)) = n
<1>1. p \in Text /\ n \in Text /\ Plain(n)
  BY PathsAndKeys, FlatName
<1>2. flatKeyName(p, flatDecodeKey(p, n)) = n
  BY <1>1, EncodeOfDecoded
<1> QED BY <1>2 DEF Home

\* The names of the path's own keys are taken for those keys.
LEMMA OwnKeyDecodes ==
  ASSUME backend \in Backends, backend = "azure flat", FlatKeys, NEW p \in Path, NEW k \in Keys[p]
  PROVE  belongs(p, Home(p, k)) /\ flatDecodeKey(p, Home(p, k)) = k
<1>1. p \in Text /\ k \in Text /\ k # <<>>
  BY PathsAndKeys
<1>2. \A i \in DOMAIN k : k[i] \notin {"-", "/"}
  BY DEF FlatKeys, Path
<1>3. Home(p, k) = flatKeyName(p, k)
  BY DEF Home
<1> QED BY <1>1, <1>2, <1>3, DecodeOfEncoded

\* And no others are, unless they are kept in the same place.
LEMMA DecodedIsOwn ==
  ASSUME backend \in Backends, backend = "azure flat", FlatKeys, FlatPaths,
         NEW p \in Path, NEW n \in Name, belongs(p, n)
  PROVE  flatDecodeKey(p, n) \in KeysAt(p)
<1>1. PICK q \in Path : \E k \in Keys[q] : n = flatKeyName(q, k)
  BY FlatName
<1>2. PICK k \in Keys[q] : n = flatKeyName(q, k)
  BY <1>1
<1>3. p \in Text /\ p # <<>> /\ q \in Text /\ q # <<>> /\ k \in Text
  BY PathsAndKeys
<1>4. OneReading(p) /\ OneReading(q)
  BY DEF FlatPaths, OneReading, Path
<1>5. flatSecretPrefix(p) = flatSecretPrefix(q)
  BY <1>2, <1>3, <1>4, SamePrefix
<1>6. flatDecodeKey(p, n) = flatDecodeKey(q, n)
  BY <1>5 DEF flatDecodeKey
<1>7. flatDecodeKey(q, n) = k
  BY <1>2, OwnKeyDecodes DEF Home
<1>8. Place(p) = Place(q)
  BY <1>5 DEF Place
<1> QED BY <1>6, <1>7, <1>8 DEF KeysAt

LEMMA HeadAndTail ==
  ASSUME NEW s \in Seq(Name), s # <<>>
  PROVE  /\ Head(s) \in Name /\ Tail(s) \in Seq(Name)
         /\ \A n : (\E i \in 1 .. Len(s) : s[i] = n) =>
                     n = Head(s) \/ \E i \in 1 .. Len(Tail(s)) : Tail(s)[i] = n
<1> DEFINE t == Tail(s)
<1>1. Len(s) \in Nat
  BY LenProperties
<1>2. /\ Head(s) \in Name /\ t \in Seq(Name) /\ Len(t) = Len(s) - 1
      /\ \A i \in 1 .. Len(t) : t[i] = s[i + 1]
  BY HeadTailProperties
<1>3. Head(s) = s[1]
  OBVIOUS
<1> HIDE DEF t
<1>4. ASSUME NEW i \in 1 .. Len(s) PROVE i = 1 \/ \E j \in 1 .. Len(t) : t[j] = s[i]
  <2>1. SUFFICES ASSUME i # 1 PROVE \E j \in 1 .. Len(t) : t[j] = s[i]
    OBVIOUS
  <2>2. i - 1 \in 1 .. Len(t) /\ (i - 1) + 1 = i
    BY <1>1, <1>2, <2>1
  <2> QED BY <1>2, <2>2
<1> QED BY <1>2, <1>3, <1>4 DEF t

LEMMA GetKeeps ==
  ASSUME BackendInv, NEW r \in Request, Get(r)
  PROVE  BackendInv'
<1> DEFINE o == req[r]
           name == Head(o.names)
           key == flatDecodeKey(o.path, name)
           taken == belongs(o.path, name) /\ Present(name)
           result == IF ~taken THEN o.result
                     ELSE [k \in DOMAIN o.result \cup {key} |-> IF k = key THEN vault[name] ELSE o.result[k]]
<1>1. o.pc = "getting" /\ o.names # <<>>
  BY DEF Get
<1>2. /\ backend \in Backends /\ backend = "azure flat"
      /\ req = [s \in Request |-> req[s]] /\ IsRequest(o)
      /\ o.path \in Path /\ o.names \in Seq(Name)
      /\ OwnData(o.path, o.result)
  BY <1>1, Listing1
<1>3. PICK q : q = [o EXCEPT !.names = Tail(o.names), !.result = result]
  OBVIOUS
<1>4. req' = [req EXCEPT ![r] = q]
  BY <1>2, <1>3 DEF Get
<1>5. /\ q.pc = "getting" /\ q.path = o.path /\ q.names = Tail(o.names)
      /\ q.result = result /\ q.seen = o.seen
      /\ IsRequest(q)
  BY <1>1, <1>2, <1>3 DEF IsRequest, Field
<1>6. name \in Name /\ q.names \in Seq(Name)
  BY <1>1, <1>2, <1>5, HeadAndTail
<1>7. \A n : Listed(o, n) => n = name \/ Listed(q, n)
  <2>1. o.names \in Seq(Name) /\ o.names # <<>> /\ q.names = Tail(o.names)
    BY <1>1, <1>2, <1>5
  <2> HIDE DEF o
  <2> QED BY <2>1, HeadAndTail DEF Listed
<1>8. CASE ~taken
  <2>1. q.result = o.result
    BY <1>5, <1>8
  <2>2. ASSUME FlatKeys PROVE Watched(q) /\ GetsAll(q)
    <3>1. Watched(o) /\ GetsAll(o)
      BY <1>1, <2>2, Listing2
    <3>2. Watched(q)
      BY <1>5, <3>1 DEF Watched
    <3>3. ASSUME NEW k \in Keys[o.path], Home(o.path, k) = name
          PROVE  <<Home(o.path, k), Gone>> \in o.seen
      <4>1. belongs(o.path, name)
        BY <1>2, <2>2, <3>3, OwnKeyDecodes
      <4>2. vault[name] = Gone
        BY <1>8, <4>1 DEF Present
      <4>3. <<Home(o.path, k), vault[Home(o.path, k)]>> \in o.seen
        BY <3>1 DEF Watched
      <4> QED BY <3>3, <4>2, <4>3
    <3>4. GetsAll(q)
      BY <1>5, <1>7, <2>1, <3>1, <3>3 DEF GetsAll
    <3> QED BY <3>2, <3>4
  <2>3. ASSUME FlatKeys, FlatPaths PROVE DOMAIN q.result \subseteq KeysAt(q.path)
    BY <1>1, <1>5, <2>1, <2>3 DEF BackendInv, ReadInv, PlainRead
  <2>4. OwnRead(q)
    BY <1>2, <1>5, <1>6, <2>1 DEF OwnRead
  <2>5. ReadInv(q)
    BY <1>5, <2>2, <2>3, <2>4 DEF ReadInv, TrueRead, PlainRead
  <2> QED BY <1>4, <2>5, OneMoves DEF Get, providerVars, cacheVars
<1>9. CASE taken
  <2>1. /\ DOMAIN q.result = DOMAIN o.result \cup {key}
        /\ q.result[key] = vault[name]
        /\ \A k \in DOMAIN o.result : k # key => q.result[k] = o.result[k]
    BY <1>5, <1>9
  <2>2. Home(o.path, key) = name
    BY <1>2, <1>6, <1>9, DecodedHome
  <2>3. vault[name].of = name
    BY <1>6, <1>9 DEF BackendInv, Present
  <2>4. OwnData(q.path, q.result)
    BY <1>2, <1>5, <2>1, <2>2, <2>3 DEF OwnData
  <2>5. ASSUME FlatKeys PROVE Watched(q) /\ GetsAll(q)
    <3>1. Watched(o) /\ GetsAll(o)
      BY <1>1, <2>5, Listing2
    <3>2. Watched(q)
      BY <1>5, <3>1 DEF Watched
    <3>3. ASSUME NEW k \in Keys[o.path], k \in DOMAIN q.result
          PROVE  <<Home(o.path, k), q.result[k]>> \in o.seen
      <4>1. CASE k = key
        <5>1. <<name, vault[name]>> \in o.seen
          BY <2>2, <3>1, <4>1 DEF Watched
        <5> QED BY <2>1, <2>2, <4>1, <5>1
      <4>2. CASE k # key
        BY <2>1, <3>1, <3>3, <4>2 DEF GetsAll
      <4> QED BY <4>1, <4>2
    <3>4. ASSUME NEW k \in Keys[o.path], k \notin DOMAIN q.result
          PROVE  Listed(q, Home(o.path, k)) \/ <<Home(o.path, k), Gone>> \in o.seen
      <4>1. k \notin DOMAIN o.result /\ k # key
        BY <2>1, <3>4
      <4>2. Home(o.path, k) # name
        BY <1>2, <2>5, <4>1, OwnKeyDecodes
      <4>3. Listed(o, Home(o.path, k)) \/ <<Home(o.path, k), Gone>> \in o.seen
        BY <3>1, <4>1 DEF GetsAll
      <4> QED BY <1>7, <4>2, <4>3
    <3>5. GetsAll(q)
      BY <1>5, <3>3, <3>4 DEF GetsAll
    <3> QED BY <3>2, <3>5
  <2>6. ASSUME FlatKeys, FlatPaths PROVE DOMAIN q.result \subseteq KeysAt(q.path)
    <3>1. DOMAIN o.result \subseteq KeysAt(o.path)
      BY <1>1, <2>6 DEF BackendInv, ReadInv, PlainRead
    <3>2. key \in KeysAt(o.path)
      BY <1>2, <1>6, <1>9, <2>6, DecodedIsOwn
    <3> QED BY <1>5, <2>1, <3>1, <3>2
  <2>7. OwnRead(q)
    BY <1>2, <1>5, <1>6, <2>4 DEF OwnRead
  <2>8. ReadInv(q)
    BY <1>5, <2>5, <2>6, <2>7 DEF ReadInv, TrueRead, PlainRead
  <2> QED BY <1>4, <2>8, OneMoves DEF Get, providerVars, cacheVars
<1> QED BY <1>8, <1>9

LEMMA AssembleKeeps ==
  ASSUME BackendInv, NEW r \in Request, Assemble(r)
  PROVE  BackendInv'
<1> DEFINE o == req[r]
           answer == IF o.result = Nothing THEN Missing ELSE Found(o.result)
<1>1. o.pc = "getting" /\ o.names = <<>>
  BY DEF Assemble
<1>2. /\ backend \in Backends /\ backend = "azure flat"
      /\ req = [s \in Request |-> req[s]] /\ IsRequest(o)
      /\ o.path \in Path
      /\ OwnData(o.path, o.result)
  BY <1>1, Listing1
<1>3. PICK q : q = [o EXCEPT !.pc = "assembled", !.answer = answer]
  OBVIOUS
<1>4. req' = [req EXCEPT ![r] = q]
  BY <1>2, <1>3 DEF Assemble
<1>5. /\ q.pc = "assembled" /\ q.path = o.path /\ q.answer = answer /\ q.seen = o.seen
      /\ IsRequest(q)
  BY <1>2, <1>3 DEF IsRequest, Field
<1>6. answer.data = o.result
  BY NoData
<1>7. ASSUME FlatKeys PROVE WasSo(q)
  <2>1. GetsAll(o)
    BY <1>1, <1>7, Listing2
  <2>2. \A n : ~Listed(o, n)
    BY <1>1 DEF Listed
  <2>3. \A k \in Keys[o.path] :
          <<Home(o.path, k), IF k \in DOMAIN o.result THEN o.result[k] ELSE Gone>> \in o.seen
    BY <2>1, <2>2 DEF GetsAll
  <2>4. backend # "aws"
    BY <1>2
  <2>5. q.answer.data = o.result
    BY <1>5, <1>6
  <2> QED BY <1>5, <2>3, <2>4, <2>5 DEF WasSo
<1>8. ASSUME FlatKeys, FlatPaths PROVE DOMAIN q.answer.data \subseteq KeysAt(q.path)
  <2>1. DOMAIN o.result \subseteq KeysAt(o.path)
    BY <1>1, <1>8 DEF BackendInv, ReadInv, PlainRead
  <2> QED BY <1>5, <1>6, <2>1
<1>9. OwnRead(q)
  BY <1>2, <1>5, <1>6 DEF OwnRead
<1>10. ReadInv(q)
  BY <1>5, <1>7, <1>8, <1>9 DEF ReadInv, TrueRead, PlainRead
<1> QED BY <1>4, <1>10, OneMoves DEF Assemble, providerVars, cacheVars

\* What the one get gives: nothing, or the secret's contents under each of some keys.
LEMMA OneAnswer ==
  ASSUME NEW name, NEW a, a = (IF ~Present(name) THEN Missing ELSE Decoded(name, vault[name])), a # Failed
  PROVE  \/ ~Present(name) /\ DOMAIN a.data = {}
         \/ /\ Present(name)
            /\ \/ DOMAIN a.data = KeysUnder(name)
               \/ backend = "aws" /\ DOMAIN a.data = {ValueKey}
            /\ \A k \in DOMAIN a.data : a.data[k] = vault[name]
<1>1. CASE ~Present(name)
  <2>1. a = Missing
    BY <1>1
  <2> QED BY <1>1, <2>1, NoData
<1>2. CASE Present(name)
  <2>1. a = Decoded(name, vault[name])
    BY <1>2
  <2>2. CASE vault[name].json
    <3>1. a = Found([k \in KeysUnder(name) |-> vault[name]])
      BY <2>1, <2>2 DEF Decoded
    <3>2. a.data = [k \in KeysUnder(name) |-> vault[name]]
      BY <3>1, NoData
    <3> QED BY <1>2, <3>2
  <2>3. CASE ~vault[name].json /\ backend = "aws"
    <3>1. a = Found([k \in {ValueKey} |-> vault[name]])
      BY <2>1, <2>3 DEF Decoded
    <3>2. a.data = [k \in {ValueKey} |-> vault[name]]
      BY <3>1, NoData
    <3> QED BY <1>2, <2>3, <3>2
  <2>4. CASE ~vault[name].json /\ backend # "aws"
    <3>1. a = Failed
      BY <2>1, <2>4 DEF Decoded
    <3> QED BY <3>1
  <2> QED BY <2>2, <2>3, <2>4
<1> QED BY <1>1, <1>2

LEMMA GetOneKeeps ==
  ASSUME BackendInv, NEW r \in Request, GetOne(r)
  PROVE  BackendInv'
<1> DEFINE o == req[r]
           name == secretName(o.path)
           answer == IF ~Present(name) THEN Missing ELSE Decoded(name, vault[name])
<1>1. o.pc = "getting one" /\ UNCHANGED <<providerVars, cacheVars>>
  BY DEF GetOne
<1>2. /\ backend \in Backends /\ backend # "azure flat"
      /\ req = [s \in Request |-> req[s]] /\ IsRequest(o)
      /\ o.path \in Path
  BY <1>1 DEF BackendInv, ReadInv, OwnRead
<1>3. CASE answer = Failed
  <2>1. Abort(r, Failed)
    BY <1>3 DEF GetOne
  <2>2. o.pc # "idle"
    BY <1>1
  <2> QED BY <1>1, <2>1, <2>2, AbortKeeps
<1>4. CASE answer # Failed
  <2>1. PICK a : a = answer
    OBVIOUS
  <2>2. PICK q : q = [o EXCEPT !.pc = "assembled", !.answer = a]
    OBVIOUS
  <2>3. req' = [req EXCEPT ![r].pc = "assembled", ![r].answer = a]
    BY <1>4, <2>1 DEF GetOne
  <2>4. \/ ~Present(name) /\ DOMAIN a.data = {}
        \/ /\ Present(name)
           /\ \/ DOMAIN a.data = KeysUnder(name)
              \/ backend = "aws" /\ DOMAIN a.data = {ValueKey}
           /\ \A k \in DOMAIN a.data : a.data[k] = vault[name]
    BY <1>4, <2>1, OneAnswer
  <2> HIDE DEF answer
  <2>5. req' = [req EXCEPT ![r] = q]
    BY <1>2, <2>2, <2>3
  <2>6. /\ q.pc = "assembled" /\ q.path = o.path /\ q.answer = a /\ q.seen = o.seen
        /\ IsRequest(q)
    BY <1>2, <2>2 DEF IsRequest, Field
  <2>7. \A k : Home(o.path, k) = name
    BY <1>2 DEF Home
  <2>8. name \in Name /\ Keys[o.path] # {}
    <3>1. PICK k \in Keys[o.path] : TRUE
      BY <1>2, PathsAndKeys
    <3>2. Home(o.path, k) \in Name
      BY <1>2, HomeInName
    <3> QED BY <2>7, <3>1, <3>2
  <2>9. Present(name) => vault[name].of = name
    BY <2>8 DEF BackendInv, Present
  <2>10. OwnRead(q)
    <3>1. OwnData(o.path, a.data)
      BY <2>4, <2>7, <2>9 DEF OwnData
    <3> QED BY <1>2, <2>6, <3>1 DEF OwnRead
  <2>11. ASSUME FlatKeys PROVE WasSo(q)
    <3>1. <<name, vault[name]>> \in o.seen
      <4>1. Watched(o)
        BY <1>1, <2>11, Listing2
      <4>2. PICK k \in Keys[o.path] : TRUE
        BY <2>8
      <4>3. <<Home(o.path, k), vault[Home(o.path, k)]>> \in o.seen
        BY <4>1 DEF Watched
      <4> QED BY <2>7, <4>3
    <3>2. Keys[o.path] \subseteq KeysUnder(name)
      BY <1>2 DEF KeysUnder
    <3> DEFINE K == IF backend = "aws" /\ DOMAIN a.data = {ValueKey} THEN {ValueKey} ELSE Keys[o.path]
    <3>3. ASSUME NEW k \in K
          PROVE  <<name, IF k \in DOMAIN a.data THEN a.data[k] ELSE Gone>> \in o.seen
      <4>1. CASE ~Present(name) /\ DOMAIN a.data = {}
        BY <3>1, <4>1 DEF Present
      <4>2. CASE /\ Present(name)
                 /\ \/ DOMAIN a.data = KeysUnder(name)
                    \/ backend = "aws" /\ DOMAIN a.data = {ValueKey}
                 /\ \A x \in DOMAIN a.data : a.data[x] = vault[name]
        <5>1. k \in DOMAIN a.data
          BY <3>2, <4>2
        <5> QED BY <3>1, <4>2, <5>1
      <4> QED BY <2>4, <4>1, <4>2
    <3> QED BY <2>6, <2>7, <3>3 DEF WasSo
  <2>12. PlainRead(q)
    <3>1. KeysUnder(name) = KeysAt(o.path)
      BY <1>2 DEF KeysUnder, KeysAt, Place
    <3> QED BY <2>4, <2>6, <3>1 DEF PlainRead
  <2>13. ReadInv(q)
    BY <2>6, <2>10, <2>11, <2>12 DEF ReadInv, TrueRead
  <2> QED BY <1>1, <2>5, <2>13, OneMoves DEF providerVars, cacheVars
<1> QED BY <1>3, <1>4

LEMMA ForgetKeeps ==
  ASSUME BackendInv, NEW key, Forget(key)
  PROVE  BackendInv'
<1>1. backend' = backend /\ vault' = vault
  BY DEF Forget, providerVars
<1>2. req' = req
  BY DEF Forget
<1>3. ASSUME NEW r \in Request PROVE ReadInv(req[r])'
  <2>1. PICK q : q = req[r]
    OBVIOUS
  <2>2. ReadInv(q)
    BY <2>1 DEF BackendInv
  <2>3. ReadInv(q)'
    BY <1>1, <2>2, SameReadInv
  <2> QED BY <1>2, <2>1, <2>3
<1>4. CachedOwn'
  <2>1. Path' = Path /\ \A p, k : Home(p, k)' = Home(p, k) /\ cacheKey(p)' = cacheKey(p)
    BY <1>1, SameNames
  <2>2. DOMAIN cached' \subseteq DOMAIN cached /\ \A x \in DOMAIN cached' : cached'[x] = cached[x]
    BY DEF Forget
  <2>3. \A p, data : OwnData(p, data) => OwnData(p, data)'
    BY <2>1 DEF OwnData
  <2>4. ASSUME NEW x \in DOMAIN cached', NEW p \in Path, cacheKey(p) = x
        PROVE  OwnData(p, cached[x].data)'
    <3>1. OwnData(p, cached[x].data)
      BY <2>2, <2>4 DEF BackendInv, CachedOwn
    <3>2. PICK data : data = cached[x].data
      OBVIOUS
    <3>3. OwnData(p, data)'
      BY <2>3, <3>1, <3>2
    <3> QED BY <2>2, <3>2, <3>3
  <2> QED BY <2>1, <2>4 DEF CachedOwn
<1>5. /\ vault' = [n \in Name' |-> vault'[n]]
      /\ \A n \in Name' : vault'[n] = Gone \/ vault'[n].of = n
  BY <1>1, SameVault DEF BackendInv
<1>6. backend' \in Backends /\ req' = [r \in Request |-> req'[r]]
  BY <1>1, <1>2 DEF BackendInv
<1> QED BY <1>1, <1>3, <1>4, <1>5, <1>6 DEF BackendInv

\* Paths that share a cache key are kept in the same place.
LEMMA SameKeySameHome ==
  ASSUME NEW p, NEW q, cacheKey(p) = cacheKey(q), NEW k
  PROVE  Home(p, k) = Home(q, k)
BY DEF cacheKey, Home

LEMMA FillKeeps ==
  ASSUME BackendInv, NEW r \in Request, Fill(r)
  PROVE  BackendInv'
<1> DEFINE o == req[r]
           key == cacheKey(o.path)
           pc == IF o.answer = Missing THEN "answered" ELSE "filled"
<1>1. /\ o.pc = "assembled"
      /\ backend' = backend /\ vault' = vault
      /\ cached' = [q \in DOMAIN cached \cup {key} |-> IF q = key THEN o.answer ELSE cached[q]]
  BY DEF Fill, providerVars
<1>2. /\ req = [s \in Request |-> req[s]] /\ IsRequest(o)
      /\ o.path \in Path /\ OwnData(o.path, o.answer.data)
  BY <1>1 DEF BackendInv, ReadInv, OwnRead
<1>3. req' = [req EXCEPT ![r].pc = pc]
  BY DEF Fill
<1>4. req' = [s \in Request |-> IF s = r THEN [o EXCEPT !.pc = pc] ELSE req[s]]
  <2> HIDE DEF pc
  <2> QED BY <1>2, <1>3
<1>5. ASSUME NEW s \in Request PROVE ReadInv(req[s])'
  <2>1. PICK q : q = req'[s]
    OBVIOUS
  <2>2. CASE s = r
    <3>1. q = [o EXCEPT !.pc = pc]
      BY <1>4, <2>1, <2>2
    <3>2. /\ q.pc = pc /\ q.path = o.path /\ q.answer = o.answer
          /\ IsRequest(q)
      <4> HIDE DEF pc
      <4> QED BY <1>2, <3>1 DEF IsRequest, Field
    <3>3. q.pc \in {"answered", "filled"}
      BY <3>2
    <3>4. ReadInv(q)
      BY <1>2, <3>2, <3>3 DEF ReadInv, OwnRead, TrueRead, PlainRead
    <3>5. ReadInv(q)'
      BY <1>1, <3>4, SameReadInv
    <3> QED BY <2>1, <3>5
  <2>3. CASE s # r
    <3>1. q = req[s]
      BY <1>4, <2>1, <2>3
    <3>2. ReadInv(q)
      BY <3>1 DEF BackendInv
    <3>3. ReadInv(q)'
      BY <1>1, <3>2, SameReadInv
    <3> QED BY <2>1, <3>3
  <2> QED BY <2>2, <2>3
<1>6. CachedOwn'
  <2>1. Path' = Path /\ \A p, k : Home(p, k)' = Home(p, k) /\ cacheKey(p)' = cacheKey(p)
    BY <1>1, SameNames
  <2>2. \A p, data : OwnData(p, data) => OwnData(p, data)'
    BY <2>1 DEF OwnData
  <2>3. ASSUME NEW x \in DOMAIN cached', NEW p \in Path, cacheKey(p) = x
        PROVE  OwnData(p, cached[x].data)'
    <3>1. PICK data : data = cached'[x].data
      OBVIOUS
    <3>2. CASE x = key
      <4>1. data = o.answer.data
        BY <1>1, <3>1, <3>2
      <4>2. OwnData(p, data)
        BY <1>2, <2>3, <3>2, <4>1, SameKeySameHome DEF OwnData
      <4> QED BY <2>2, <3>1, <4>2
    <3>3. CASE x # key
      <4>1. x \in DOMAIN cached /\ data = cached[x].data
        BY <1>1, <3>1, <3>3
      <4>2. OwnData(p, data)
        BY <2>3, <4>1 DEF BackendInv, CachedOwn
      <4> QED BY <2>2, <3>1, <4>2
    <3> QED BY <3>2, <3>3
  <2> QED BY <2>1, <2>3 DEF CachedOwn
<1>7. /\ vault' = [n \in Name' |-> vault'[n]]
      /\ \A n \in Name' : vault'[n] = Gone \/ vault'[n].of = n
  BY <1>1, SameVault DEF BackendInv
<1>8. backend' \in Backends /\ req' = [s \in Request |-> req'[s]]
  BY <1>1, <1>4 DEF BackendInv
<1> QED BY <1>1, <1>5, <1>6, <1>7, <1>8 DEF BackendInv

LEMMA SetGaugeKeeps ==
  ASSUME BackendInv, NEW r \in Request, SetGauge(r)
  PROVE  BackendInv'
<1> DEFINE o == req[r]
<1>1. /\ o.pc = "counted"
      /\ backend' = backend /\ vault' = vault /\ cached' = cached
  BY DEF SetGauge, providerVars
<1>2. /\ req = [s \in Request |-> req[s]] /\ IsRequest(o)
      /\ o.path \in Path /\ OwnData(o.path, o.answer.data)
  BY <1>1 DEF BackendInv, ReadInv, OwnRead
<1>3. req' = [req EXCEPT ![r].pc = "answered"]
  BY DEF SetGauge
<1>4. ASSUME NEW s \in Request PROVE ReadInv(req[s])'
  <2>1. PICK q : q = req'[s]
    OBVIOUS
  <2>2. CASE s = r
    <3>1. q = [o EXCEPT !.pc = "answered"]
      BY <1>2, <1>3, <2>1, <2>2
    <3>2. q.pc = "answered" /\ q.path = o.path /\ q.answer = o.answer /\ IsRequest(q)
      BY <1>2, <3>1 DEF IsRequest, Field
    <3>3. ReadInv(q)
      BY <1>2, <3>2, AnsweredInv
    <3> QED BY <1>1, <2>1, <3>3, SameReadInv
  <2>3. CASE s # r
    <3>1. q = req[s]
      BY <1>2, <1>3, <2>1, <2>3
    <3>2. ReadInv(q)
      BY <3>1 DEF BackendInv
    <3> QED BY <1>1, <2>1, <3>2, SameReadInv
  <2> QED BY <2>2, <2>3
<1>5. CachedOwn'
  BY <1>1, SameCachedOwn DEF BackendInv
<1>6. /\ vault' = [n \in Name' |-> vault'[n]]
      /\ \A n \in Name' : vault'[n] = Gone \/ vault'[n].of = n
  BY <1>1, SameVault DEF BackendInv
<1>7. backend' \in Backends /\ req' = [s \in Request |-> req'[s]]
  BY <1>1, <1>2, <1>3 DEF BackendInv
<1> QED BY <1>4, <1>5, <1>6, <1>7 DEF BackendInv

\* A request that has seen more has not lost what it saw.
LEMMA SeenGrows ==
  ASSUME NEW o, NEW q, TrueRead(o), o.seen \subseteq q.seen,
         q.pc = o.pc, q.path = o.path, q.cursor = o.cursor, q.names = o.names,
         q.result = o.result, q.answer = o.answer
  PROVE  TrueRead(q)
<1>1. \A n : (Listed(o, n) => Listed(q, n)) /\ (Ahead(o, n) => Ahead(q, n))
  BY DEF Listed, Ahead
<1>2. Watched(o) => Watched(q)
  BY DEF Watched
<1>3. ListsAll(o) => ListsAll(q)
  BY <1>1 DEF ListsAll
<1>4. GetsAll(o) => GetsAll(q)
  BY <1>1 DEF GetsAll
<1>5. WasSo(o) => WasSo(q)
  BY DEF WasSo
<1> QED BY <1>2, <1>3, <1>4, <1>5 DEF TrueRead

LEMMA ChangeKeeps ==
  ASSUME BackendInv, NEW name \in Name, NEW c, c = Gone \/ c.of = name, Change(name, c)
  PROVE  BackendInv'
<1>1. /\ backend' = backend /\ cached' = cached
      /\ vault' = [vault EXCEPT ![name] = c]
  BY DEF Change, cacheVars
<1>2. req' = [r \in Request |-> IF req[r].pc = "idle" THEN req[r]
                                ELSE [req[r] EXCEPT !.seen =
                                        IF <<name, vault[name]>> \in @ THEN @ \cup {<<name, c>>} ELSE @]]
  BY DEF Change
<1>3. Name' = Name /\ Listing' = Listing /\ \A p, k : Home(p, k)' = Home(p, k)
  BY <1>1, SameNames
<1>4. vault = [n \in Name |-> vault[n]] /\ \A n \in Name : vault[n] = Gone \/ vault[n].of = n
  BY DEF BackendInv
<1>5. /\ vault' = [n \in Name' |-> vault'[n]]
      /\ \A n \in Name' : vault'[n] = Gone \/ vault'[n].of = n
  BY <1>1, <1>3, <1>4
<1>6. vault'[name] = c /\ \A n \in Name : n # name => vault'[n] = vault[n]
  BY <1>1, <1>4
<1>7. ASSUME NEW r \in Request PROVE ReadInv(req[r])'
  <2>1. PICK q : q = req'[r]
    OBVIOUS
  <2>2. PICK o : o = req[r]
    OBVIOUS
  <2>3. ReadInv(o)
    BY <2>2 DEF BackendInv
  <2>4. CASE o.pc = "idle"
    <3>1. q = o
      BY <1>2, <2>1, <2>2, <2>4
    <3>2. IsRequest(q)'
      BY <2>3, <2>4, <3>1 DEF ReadInv, IsRequest
    <3>3. OwnRead(q)'
      BY <1>1, <2>3, <3>1, SameOwnRead DEF ReadInv
    <3>4. TrueRead(q)' /\ PlainRead(q)'
      BY <2>4, <3>1 DEF TrueRead, PlainRead
    <3> QED BY <2>1, <3>2, <3>3, <3>4 DEF ReadInv
  <2>5. CASE o.pc # "idle"
    <3> DEFINE seen == IF <<name, vault[name]>> \in o.seen THEN o.seen \cup {<<name, c>>} ELSE o.seen
    <3>1. q = [o EXCEPT !.seen = seen]
      BY <1>2, <2>1, <2>2, <2>5
    <3>2. /\ q.pc = o.pc /\ q.path = o.path /\ q.cursor = o.cursor /\ q.names = o.names
          /\ q.result = o.result /\ q.answer = o.answer
          /\ q.seen = seen
          /\ IsRequest(q)
      <4>1. IsRequest(o)
        BY <2>3 DEF ReadInv
      <4> HIDE DEF seen
      <4> QED BY <3>1, <4>1 DEF IsRequest, Field
    <3>3. /\ o.seen \subseteq q.seen
          /\ <<name, vault[name]>> \in o.seen => <<name, c>> \in q.seen
      BY <3>2
    <3>4. OwnRead(q)'
      <4>1. OwnRead(q)
        BY <2>3, <3>2 DEF ReadInv, OwnRead
      <4> QED BY <1>1, <4>1, SameOwnRead
    <3>5. IsRequest(q)'
      BY <3>2 DEF IsRequest
    <3>6. FlatKeys /\ FlatPaths => PlainRead(q)'
      <4>1. FlatKeys /\ FlatPaths => PlainRead(q)
        BY <2>3, <3>2 DEF ReadInv, PlainRead
      <4> QED BY <1>1, <4>1, SamePlainRead
    <3>7. ASSUME FlatKeys PROVE TrueRead(q)'
      <4>1. TrueRead(o)
        BY <2>3, <3>7 DEF ReadInv
      <4>2. TrueRead(q)
        BY <3>2, <3>3, <4>1, SeenGrows
      <4>3. ASSUME q.pc \in {"listing", "getting", "getting one"}
            PROVE  Watched(q)'
        <5>1. Watched(o) /\ Watched(q)
          BY <3>2, <4>1, <4>2, <4>3 DEF TrueRead
        <5>2. q.path \in Path
          BY <2>3, <2>5, <3>2 DEF ReadInv, OwnRead
        <5>3. ASSUME NEW k \in Keys[q.path]
              PROVE  <<Home(q.path, k), vault'[Home(q.path, k)]>> \in q.seen
          <6>1. Home(q.path, k) \in Name
            BY <5>2, HomeInName
          <6>2. CASE Home(q.path, k) = name
            <7>1. <<name, vault[name]>> \in o.seen
              BY <3>2, <5>1, <6>2 DEF Watched
            <7> QED BY <1>6, <3>3, <6>2, <7>1
          <6>3. CASE Home(q.path, k) # name
            <7>1. vault'[Home(q.path, k)] = vault[Home(q.path, k)]
              BY <1>6, <6>1, <6>3
            <7> QED BY <5>1, <7>1 DEF Watched
          <6> QED BY <6>2, <6>3
        <5> QED BY <1>3, <5>3 DEF Watched
      <4>4. \A n : (Listed(q, n) => Listed(q, n)') /\ (Ahead(q, n) => Ahead(q, n)')
        BY <1>3 DEF Listed, Ahead
      <4>5. ListsAll(q) => ListsAll(q)'
        BY <1>3, <4>4 DEF ListsAll
      <4>6. GetsAll(q) => GetsAll(q)'
        BY <1>3, <4>4 DEF GetsAll
      <4>7. WasSo(q) => WasSo(q)'
        BY <1>1, <1>3 DEF WasSo
      <4> QED BY <4>2, <4>3, <4>5, <4>6, <4>7 DEF TrueRead
    <3> QED BY <2>1, <3>4, <3>5, <3>6, <3>7 DEF ReadInv
  <2> QED BY <2>4, <2>5
<1>8. CachedOwn'
  BY <1>1, SameCachedOwn DEF BackendInv
<1>9. backend' \in Backends /\ req' = [r \in Request |-> req'[r]]
  BY <1>1, <1>2 DEF BackendInv
<1> QED BY <1>5, <1>7, <1>8, <1>9 DEF BackendInv

LEMMA StepKeeps ==
  ASSUME BackendInv, NEW r \in Request, Step(r)
  PROVE  BackendInv'
<1>1. CASE ListPage(r) BY <1>1, ListPageKeeps
<1>2. CASE ListEnds(r) BY <1>2, ListEndsKeeps
<1>3. CASE ListFails(r)
  <2>1. PICK a \in {Missing, Failed} : Abort(r, a)
    BY <1>3 DEF ListFails
  <2>2. req[r].pc # "idle" /\ UNCHANGED <<providerVars, cacheVars>>
    BY <1>3 DEF ListFails
  <2> QED BY <2>1, <2>2, AbortKeeps
<1>4. CASE Get(r) BY <1>4, GetKeeps
<1>5. CASE GetFails(r)
  BY <1>5, AbortKeeps DEF GetFails
<1>6. CASE Assemble(r) BY <1>6, AssembleKeeps
<1>7. CASE GetOne(r) BY <1>7, GetOneKeeps
<1>8. CASE GetOneFails(r)
  BY <1>8, AbortKeeps DEF GetOneFails
<1>9. CASE Fill(r) BY <1>9, FillKeeps
<1>10. CASE Count(r) BY <1>10, CountKeeps
<1>11. CASE SetGauge(r) BY <1>11, SetGaugeKeeps
<1>12. CASE Return(r) BY <1>12, ReturnKeeps
<1> QED BY <1>1, <1>2, <1>3, <1>4, <1>5, <1>6, <1>7, <1>8, <1>9, <1>10, <1>11, <1>12 DEF Step

\* The invariant is inductive.
LEMMA NextInv == BackendInv /\ [Next]_vars => BackendInv'
<1> SUFFICES ASSUME BackendInv, [Next]_vars PROVE BackendInv'
  OBVIOUS
<1>1. CASE UNCHANGED vars
  <2>1. backend' = backend /\ vault' = vault /\ cached' = cached /\ req' = req
    BY <1>1 DEF vars
  <2>2. ASSUME NEW s \in Request PROVE ReadInv(req[s])'
    <3>1. PICK q : q = req[s]
      OBVIOUS
    <3>2. ReadInv(q)
      BY <3>1 DEF BackendInv
    <3>3. ReadInv(q)'
      BY <2>1, <3>2, SameReadInv
    <3> QED BY <2>1, <3>1, <3>3
  <2>3. CachedOwn'
    BY <2>1, SameCachedOwn DEF BackendInv
  <2>4. /\ vault' = [n \in Name' |-> vault'[n]]
        /\ \A n \in Name' : vault'[n] = Gone \/ vault'[n].of = n
    BY <2>1, SameVault DEF BackendInv
  <2> QED BY <2>1, <2>2, <2>3, <2>4 DEF BackendInv
<1>2. CASE \E n \in Name : \E c \in {Gone} \cup Contents(n, changes + 2) : Change(n, c)
  <2>1. PICK n \in Name : \E c \in {Gone} \cup Contents(n, changes + 2) : Change(n, c)
    BY <1>2
  <2>2. PICK c \in {Gone} \cup Contents(n, changes + 2) : Change(n, c)
    BY <2>1
  <2>3. c = Gone \/ c.of = n
    BY DEF Contents
  <2> QED BY <2>2, <2>3, ChangeKeeps
<1>3. CASE \E key \in DOMAIN cached : Forget(key)
  BY <1>3, ForgetKeeps
<1>4. CASE \E r \in Request, p \in Path : GetSecret(r, p)
  BY <1>4, GetSecretKeeps
<1>5. CASE \E r \in Request : Step(r)
  BY <1>5, StepKeeps
<1> QED BY <1>1, <1>2, <1>3, <1>4, <1>5 DEF Next

LEMMA Invariant == Spec => []BackendInv
BY InitInv, NextInv, PTL DEF Spec

--------------------------------------------------------------------------------
(* Theorems *)

\* Whatever the naming makes of the paths, and however reads, writes and the cache
\* interleave, GetSecret answers a path from the secrets the path names: the cache
\* never gives it the entry of a path kept elsewhere.
THEOREM AnswersAreOwn == Spec => []AnsweredFromOwnSecrets
<1>1. BackendInv => AnsweredFromOwnSecrets
  BY DEF BackendInv, ReadInv, OwnRead, OwnData, AnsweredFromOwnSecrets
<1> QED BY <1>1, Invariant, PTL

\* With keys that follow the documented convention, what a read is about to cache
\* was so, key by key, while it read: getFlat's listing misses no secret that was
\* there all along, and reports none that was never there.
THEOREM ReadsWereSo ==
  ASSUME FlatKeys
  PROVE  Spec => []EveryKeyWasSo
<1>1. BackendInv => EveryKeyWasSo
  BY DEF BackendInv, ReadInv, TrueRead, WasSo, EveryKeyWasSo
<1> QED BY <1>1, Invariant, PTL

\* And where separators neither meet in a path nor end it, the keys of an answer are
\* the path's own, or those of a path encoded alike.
THEOREM KeysAreOwn ==
  ASSUME FlatKeys, FlatPaths
  PROVE  Spec => []OwnKeysOnly
<1>1. BackendInv => OwnKeysOnly
  BY DEF BackendInv, ReadInv, PlainRead, OwnKeysOnly
<1> QED BY <1>1, Invariant, PTL
================================================================================
