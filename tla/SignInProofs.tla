---------------------------- MODULE SignInProofs ----------------------------
(***************************************************************************)
(* A sign-in stays in its tenant, for any services, tenants, hosts, users, *)
(* browsers and secrets.  The lemmas on texts say what the helpers of      *)
(* redirect-template.ts, config.ts and provider.ts compute; the invariant  *)
(* says what each handler may rely on of the one before it.                *)
(***************************************************************************)
EXTENDS SignIn, SequenceTheorems, TLAPS

-----------------------------------------------------------------------------
(* Texts.                                                                  *)

\* What texts are made of.  The union only shows the provers that these are strings.
Piece ==
    STRING \union {Scheme, Placeholder, CallbackPath, ".", ":", "%", "%3A", "%25", "a", "/", "/elsewhere"}

\* The texts written out in the code are made of pieces.
LEMMA LiteralPieces ==
    /\ Scheme \in Piece /\ Placeholder \in Piece /\ CallbackPath \in Piece
    /\ "." \in Piece /\ ":" \in Piece /\ "%" \in Piece /\ "%3A" \in Piece /\ "%25" \in Piece
    /\ "a" \in Piece /\ "/" \in Piece /\ "/elsewhere" \in Piece
  BY DEF Piece

\* indexOf finds the first place of a piece.
LEMMA FirstAt ==
    ASSUME NEW s \in Seq(Piece), NEW x, NEW n \in 1 .. Len(s), s[n] = x,
           \A k \in 1 .. n - 1 : s[k] # x
    PROVE  IndexOf(s, x) = n
<1> DEFINE I == {i \in 1 .. Len(s) : s[i] = x}
<1>1. n \in I /\ \A k \in I : n <= k
  OBVIOUS
<1>2. Min(I) = n
  <2>1. I \subseteq Nat
    OBVIOUS
  <2>2. PICK m : m = Min(I)
    OBVIOUS
  <2> HIDE DEF I
  <2>3. m \in I /\ \A k \in I : m <= k
    BY <1>1, <2>2 DEF Min
  <2>4. m <= n /\ n <= m /\ m \in Nat /\ n \in Nat
    BY <1>1, <2>1, <2>3
  <2> QED
    BY <2>2, <2>4
<1>3. IndexOf(s, x) = IF I # {} THEN Min(I) ELSE 0
  BY DEF IndexOf, SelectInSeq
<1>4. I # {}
  BY <1>1
<1> HIDE DEF I
<1> QED
  BY <1>2, <1>3, <1>4

\* startsWith, piece by piece.
LEMMA PrefixFacts ==
    ASSUME NEW s \in Seq(Piece), NEW t \in Seq(Piece)
    PROVE  IsPrefix(s, t) <=> Len(s) <= Len(t) /\ \A k \in 1 .. Len(s) : s[k] = t[k]
  BY DEF IsPrefix

\* endsWith, piece by piece.
LEMMA SuffixFacts ==
    ASSUME NEW s \in Seq(Piece), NEW t \in Seq(Piece)
    PROVE  IsSuffix(s, t) <=>
             Len(s) <= Len(t) /\ \A k \in 1 .. Len(s) : s[k] = t[Len(t) - Len(s) + k]
<1>1. Reverse(s) \in Seq(Piece) /\ Reverse(t) \in Seq(Piece)
  BY DEF Reverse
<1>2. Len(Reverse(s)) = Len(s) /\ Len(Reverse(t)) = Len(t)
  BY DEF Reverse
<1>3. /\ \A k \in 1 .. Len(s) : Reverse(s)[k] = s[Len(s) - k + 1]
      /\ \A k \in 1 .. Len(t) : Reverse(t)[k] = t[Len(t) - k + 1]
  BY DEF Reverse
<1>4. IsSuffix(s, t) <=> IsPrefix(Reverse(s), Reverse(t))
  BY DEF IsSuffix
<1>5. IsSuffix(s, t) <=>
        Len(s) <= Len(t) /\ \A k \in 1 .. Len(s) : s[Len(s) - k + 1] = t[Len(t) - k + 1]
  <2>1. IsPrefix(Reverse(s), Reverse(t)) <=>
          Len(s) <= Len(t) /\ \A k \in 1 .. Len(s) : Reverse(s)[k] = Reverse(t)[k]
    BY <1>1, <1>2, PrefixFacts
  <2>2. ASSUME Len(s) <= Len(t)
        PROVE  (\A k \in 1 .. Len(s) : Reverse(s)[k] = Reverse(t)[k])
               <=> \A k \in 1 .. Len(s) : s[Len(s) - k + 1] = t[Len(t) - k + 1]
    BY <1>3, <2>2
  <2> QED
    BY <2>1, <2>2, <1>4
<1>6. ASSUME Len(s) <= Len(t)
      PROVE  (\A k \in 1 .. Len(s) : s[Len(s) - k + 1] = t[Len(t) - k + 1])
             <=> \A k \in 1 .. Len(s) : s[k] = t[Len(t) - Len(s) + k]
  <2>1. ASSUME \A k \in 1 .. Len(s) : s[Len(s) - k + 1] = t[Len(t) - k + 1],
               NEW k \in 1 .. Len(s)
        PROVE  s[k] = t[Len(t) - Len(s) + k]
    <3>1. Len(s) - k + 1 \in 1 .. Len(s)
      OBVIOUS
    <3>2. Len(s) - (Len(s) - k + 1) + 1 = k
          /\ Len(t) - (Len(s) - k + 1) + 1 = Len(t) - Len(s) + k
      OBVIOUS
    <3> QED
      BY <2>1, <3>1, <3>2
  <2>2. ASSUME \A k \in 1 .. Len(s) : s[k] = t[Len(t) - Len(s) + k],
               NEW k \in 1 .. Len(s)
        PROVE  s[Len(s) - k + 1] = t[Len(t) - k + 1]
    <3>1. Len(s) - k + 1 \in 1 .. Len(s)
      OBVIOUS
    <3>2. Len(t) - Len(s) + (Len(s) - k + 1) = Len(t) - k + 1
      OBVIOUS
    <3> QED
      BY <2>2, <3>1, <3>2
  <2> QED
    BY <2>1, <2>2
<1> QED
  BY <1>5, <1>6

\* A text of one piece is that piece.
LEMMA OfOne ==
    ASSUME NEW s \in Seq(Piece), Len(s) = 1, NEW a \in Piece, s[1] = a
    PROVE  s = <<a>>
  BY SeqEqual

\* A text of three pieces is those pieces.
LEMMA OfThree ==
    ASSUME NEW s \in Seq(Piece), Len(s) = 3
    PROVE  s = <<s[1], s[2], s[3]>>
<1> DEFINE t == <<s[1], s[2], s[3]>>
<1>1. t \in Seq(Piece) /\ Len(t) = 3 /\ t[1] = s[1] /\ t[2] = s[2] /\ t[3] = s[3]
  <2>1. s[1] \in Piece /\ s[2] \in Piece /\ s[3] \in Piece
    <3>1. 1 \in 1 .. Len(s) /\ 2 \in 1 .. Len(s) /\ 3 \in 1 .. Len(s)
      OBVIOUS
    <3> QED
      BY <3>1, ElementOfSeq, Zenon
  <2> QED
    BY <2>1
<1> HIDE DEF t
<1>2. \A k \in 1 .. 3 : k = 1 \/ k = 2 \/ k = 3
  OBVIOUS
<1>3. \A k \in 1 .. Len(s) : s[k] = t[k]
  BY <1>1, <1>2
<1>4. s = t
  BY <1>1, <1>3, SeqEqual
<1> QED
  BY <1>4 DEF t

\* The pieces of two texts one after the other.
LEMMA Parts ==
    ASSUME NEW s \in Seq(Piece), NEW t \in Seq(Piece)
    PROVE  /\ s \o t \in Seq(Piece) /\ Len(s \o t) = Len(s) + Len(t)
           /\ \A k \in 1 .. Len(s) : (s \o t)[k] = s[k]
           /\ \A k \in 1 .. Len(t) : (s \o t)[Len(s) + k] = t[k]
<1>1. s \o t \in Seq(Piece) /\ Len(s \o t) = Len(s) + Len(t)
  BY ConcatProperties
<1>2. ASSUME NEW k \in 1 .. Len(s) PROVE (s \o t)[k] = s[k]
  BY ConcatProperties
<1>3. ASSUME NEW k \in 1 .. Len(t) PROVE (s \o t)[Len(s) + k] = t[k]
  OBVIOUS
<1> QED
  BY <1>1, <1>2, <1>3

\* The pieces of a part of a text (slice).
LEMMA Slices ==
    ASSUME NEW s \in Seq(Piece), NEW m \in 1 .. Len(s) + 1, NEW n \in m - 1 .. Len(s)
    PROVE  /\ SubSeq(s, m, n) \in Seq(Piece) /\ Len(SubSeq(s, m, n)) = n - m + 1
           /\ \A k \in 1 .. n - m + 1 : SubSeq(s, m, n)[k] = s[m + k - 1]
<1>1. \A k \in m .. n : s[k] \in Piece
  OBVIOUS
<1>2. SubSeq(s, m, n) \in Seq(Piece)
  BY <1>1
<1>3. Len(SubSeq(s, m, n)) = n - m + 1
  OBVIOUS
<1>4. ASSUME NEW k \in 1 .. n - m + 1 PROVE SubSeq(s, m, n)[k] = s[m + k - 1]
  OBVIOUS
<1> QED
  BY <1>2, <1>3, <1>4

-----------------------------------------------------------------------------
(* Redirect URIs and hosts.                                                *)

\* The callback of tenant slug at service c.
Uri(slug, c) == <<Scheme>> \o slug \o <<".", c, CallbackPath>>

\* The pieces of a tenant's redirect URI.
LEMMA UriFacts ==
    ASSUME NEW s \in Seq(Piece), NEW c \in Piece
    PROVE  /\ Uri(s, c) \in Seq(Piece)
           /\ Len(Uri(s, c)) = Len(s) + 4
           /\ Uri(s, c)[1] = Scheme
           /\ \A k \in 1 .. Len(s) : Uri(s, c)[k + 1] = s[k]
           /\ Uri(s, c)[Len(s) + 2] = "."
           /\ Uri(s, c)[Len(s) + 3] = c
           /\ Uri(s, c)[Len(s) + 4] = CallbackPath
<1>1. Scheme \in Piece /\ CallbackPath \in Piece /\ "." \in Piece
  BY LiteralPieces
<1> DEFINE last == <<".", c, CallbackPath>>
           front == <<Scheme>> \o s
<1>2. last \in Seq(Piece) /\ Len(last) = 3 /\ last[1] = "." /\ last[2] = c /\ last[3] = CallbackPath
  BY <1>1
<1>3. front \in Seq(Piece) /\ Len(front) = Len(s) + 1 /\ front[1] = Scheme
      /\ \A k \in 1 .. Len(s) : front[k + 1] = s[k]
  BY <1>1
<1>4. Uri(s, c) = front \o last
  BY DEF Uri
<1> HIDE DEF last, front
<1>5. /\ front \o last \in Seq(Piece) /\ Len(front \o last) = Len(s) + 4
      /\ \A k \in 1 .. Len(s) + 1 : (front \o last)[k] = front[k]
      /\ \A k \in 1 .. 3 : (front \o last)[Len(s) + 1 + k] = last[k]
  <2>1. Len(front) + Len(last) = Len(s) + 4
    BY <1>2, <1>3
  <2>2. /\ front \o last \in Seq(Piece) /\ Len(front \o last) = Len(front) + Len(last)
        /\ \A k \in 1 .. Len(front) : (front \o last)[k] = front[k]
        /\ \A k \in 1 .. Len(last) : (front \o last)[Len(front) + k] = last[k]
    BY <1>2, <1>3, Parts, Zenon
  <2> QED
    BY <1>2, <1>3, <2>1, <2>2, Zenon
<1>6. /\ (front \o last)[Len(s) + 2] = last[1]
      /\ (front \o last)[Len(s) + 3] = last[2]
      /\ (front \o last)[Len(s) + 4] = last[3]
  <2>1. 1 \in 1 .. 3 /\ 2 \in 1 .. 3 /\ 3 \in 1 .. 3 /\ Len(s) \in Nat
    OBVIOUS
  <2>2. Len(s) + 1 + 1 = Len(s) + 2 /\ Len(s) + 1 + 2 = Len(s) + 3 /\ Len(s) + 1 + 3 = Len(s) + 4
    BY <2>1
  <2> HIDE DEF last, front
  <2> QED
    BY <1>5, <2>1, <2>2
<1> QED
  BY <1>2, <1>3, <1>4, <1>5, <1>6

\* A text with those pieces is that redirect URI.
LEMMA UriIsUnique ==
    ASSUME NEW s \in Seq(Piece), NEW c \in Piece, NEW uri \in Seq(Piece),
           Len(uri) = Len(s) + 4, uri[1] = Scheme,
           \A k \in 1 .. Len(s) : s[k] = uri[k + 1],
           uri[Len(s) + 2] = ".", uri[Len(s) + 3] = c, uri[Len(s) + 4] = CallbackPath
    PROVE  uri = Uri(s, c)
<1> DEFINE whole == Uri(s, c)
<1>1. /\ whole \in Seq(Piece)
      /\ Len(whole) = Len(s) + 4
      /\ whole[1] = Scheme
      /\ \A k \in 1 .. Len(s) : whole[k + 1] = s[k]
      /\ whole[Len(s) + 2] = "."
      /\ whole[Len(s) + 3] = c
      /\ whole[Len(s) + 4] = CallbackPath
  BY UriFacts, Zenon
<1> HIDE DEF whole
<1>2. ASSUME NEW k \in 1 .. Len(uri) PROVE uri[k] = whole[k]
  <2>1. CASE k = 1
    BY <2>1, <1>1
  <2>2. CASE k \in 2 .. Len(s) + 1
    <3>1. k - 1 \in 1 .. Len(s) /\ (k - 1) + 1 = k
      BY <2>2
    <3>2. s[k - 1] = uri[(k - 1) + 1] /\ whole[(k - 1) + 1] = s[k - 1]
      BY <3>1, <1>1, Zenon
    <3> QED
      BY <3>1, <3>2, Zenon
  <2>3. CASE k = Len(s) + 2
    BY <2>3, <1>1, Zenon
  <2>4. CASE k = Len(s) + 3
    BY <2>4, <1>1, Zenon
  <2>5. CASE k = Len(s) + 4
    BY <2>5, <1>1, Zenon
  <2> QED
    BY <2>1, <2>2, <2>3, <2>4, <2>5
<1>3. uri = whole
  BY <1>1, <1>2, SeqEqual, Zenon
<1> QED
  BY <1>3 DEF whole

\* Where a client's template is split (redirect-template.ts, PLACEHOLDER).
LEMMA TemplateFacts ==
    ASSUME NEW c \in Piece
    PROVE  /\ TemplateOf(c) \in Seq(Piece) /\ Len(TemplateOf(c)) = 5
           /\ IndexOf(TemplateOf(c), Placeholder) = 2
           /\ SubSeq(TemplateOf(c), 1, 1) = <<Scheme>>
           /\ SubSeq(TemplateOf(c), 3, 5) = <<".", c, CallbackPath>>
<1> DEFINE t == TemplateOf(c)
<1>1. t = <<Scheme, Placeholder, ".", c, CallbackPath>>
  BY DEF TemplateOf
<1>2. t \in Seq(Piece) /\ Len(t) = 5
      /\ t[1] = Scheme /\ t[2] = Placeholder /\ t[3] = "." /\ t[4] = c /\ t[5] = CallbackPath
  BY <1>1, LiteralPieces
<1>3. Scheme # Placeholder
  BY DEF Scheme, Placeholder
<1> HIDE DEF t
<1>4. IndexOf(t, Placeholder) = 2
  <2>1. 2 \in 1 .. Len(t) /\ \A k \in 1 .. 2 - 1 : t[k] # Placeholder
    BY <1>2, <1>3
  <2> QED
    BY <1>2, <2>1, FirstAt
<1>5. SubSeq(t, 1, 1) = <<Scheme>>
  <2>1. SubSeq(t, 1, 1) \in Seq(Piece) /\ Len(SubSeq(t, 1, 1)) = 1
        /\ SubSeq(t, 1, 1)[1] = t[1]
    BY <1>2, Slices
  <2> QED
    BY <1>2, <2>1, OfOne, LiteralPieces
<1>6. SubSeq(t, 3, 5) = <<".", c, CallbackPath>>
  <2> DEFINE m == SubSeq(t, 3, 5)
  <2>1. 3 \in 1 .. Len(t) + 1 /\ 5 \in 3 - 1 .. Len(t) /\ 5 - 3 + 1 = 3
    BY <1>2
  <2>2. m \in Seq(Piece) /\ Len(m) = 3 /\ \A k \in 1 .. 3 : m[k] = t[3 + k - 1]
    BY <1>2, <2>1, Slices, Zenon
  <2> HIDE DEF m
  <2>3. m[1] = "." /\ m[2] = c /\ m[3] = CallbackPath
    BY <1>2, <2>2
  <2> QED
    <3>1. m = <<".", c, CallbackPath>>
      BY <2>2, <2>3, OfThree, Zenon
    <3> QED
      BY <3>1 DEF m
<1> QED
  BY <1>2, <1>4, <1>5, <1>6 DEF t

\* The neighbours of the placeholder's place.
LEMMA TwoAround == 2 - 1 = 1 /\ 2 + 1 = 3
  OBVIOUS

\* expandRedirectUriTemplate writes the slug in the placeholder's place.
LEMMA ExpandFacts ==
    ASSUME NEW s \in Seq(Piece), NEW c \in Piece
    PROVE  ExpandRedirectUriTemplate(TemplateOf(c), s) = Uri(s, c)
<1> DEFINE t == TemplateOf(c)
<1>1. /\ IndexOf(t, Placeholder) = 2 /\ Len(t) = 5
      /\ SubSeq(t, 1, 2 - 1) = <<Scheme>> /\ SubSeq(t, 2 + 1, Len(t)) = <<".", c, CallbackPath>>
  BY TemplateFacts, TwoAround, Zenon
<1> HIDE DEF t
<1>2. ExpandRedirectUriTemplate(t, s) = <<Scheme>> \o s \o <<".", c, CallbackPath>>
  <2>1. IndexOf(t, Placeholder) # 0
    BY <1>1
  <2> QED
    BY <1>1, <2>1, Zenon DEF ExpandRedirectUriTemplate
<1> QED
  BY <1>2 DEF t, Uri

\* matchRedirectUriTemplate on a client's template: what is compared, and what is cut out.
LEMMA MatchUnfolds ==
    ASSUME NEW uri \in Seq(Piece), NEW c \in Piece
    PROVE  LET suffix == <<".", c, CallbackPath>>
               mid    == SubSeq(uri, 2, Len(uri) - 3)
           IN  MatchRedirectUriTemplate(TemplateOf(c), uri) =
                 IF /\ Len(uri) > 4
                    /\ IsPrefix(<<Scheme>>, uri) /\ IsSuffix(suffix, uri)
                    /\ IsTenantSlug(mid)
                 THEN mid ELSE <<>>
<1> DEFINE t      == TemplateOf(c)
           at     == IndexOf(t, Placeholder)
           prefix == <<Scheme>>
           suffix == <<".", c, CallbackPath>>
<1>1. /\ at = 2 /\ Len(t) = 5
      /\ SubSeq(t, 1, at - 1) = prefix /\ SubSeq(t, at + 1, Len(t)) = suffix
  BY TemplateFacts, TwoAround, Zenon
<1>2. Len(prefix) = 1 /\ Len(suffix) = 3
  OBVIOUS
<1>3. at > 0 /\ Len(prefix) + 1 = 2 /\ Len(prefix) + Len(suffix) = 4
      /\ Len(uri) - Len(suffix) = Len(uri) - 3
  <2> HIDE DEF prefix, suffix, at
  <2> QED
    BY <1>1, <1>2
<1>4. MatchRedirectUriTemplate(t, uri) =
        IF /\ at > 0
           /\ Len(uri) > Len(prefix) + Len(suffix)
           /\ IsPrefix(prefix, uri) /\ IsSuffix(suffix, uri)
           /\ IsTenantSlug(SubSeq(uri, Len(prefix) + 1, Len(uri) - Len(suffix)))
        THEN SubSeq(uri, Len(prefix) + 1, Len(uri) - Len(suffix)) ELSE <<>>
  <2> HIDE DEF prefix, suffix, t
  <2> QED
    BY <1>1, Zenon DEF MatchRedirectUriTemplate
<1>5. MatchRedirectUriTemplate(t, uri) =
        IF /\ Len(uri) > 4
           /\ IsPrefix(prefix, uri) /\ IsSuffix(suffix, uri)
           /\ IsTenantSlug(SubSeq(uri, 2, Len(uri) - 3))
        THEN SubSeq(uri, 2, Len(uri) - 3) ELSE <<>>
  <2> HIDE DEF prefix, suffix, t, at
  <2> QED
    BY <1>3, <1>4, Zenon
<1> QED
  BY <1>5

\* A redirect URI matchRedirectUriTemplate accepts is the template with the slug it returns.
LEMMA MatchIsFaithful ==
    ASSUME NEW uri \in Seq(Piece), NEW c \in Piece, NEW slug,
           slug = MatchRedirectUriTemplate(TemplateOf(c), uri), slug # <<>>
    PROVE  slug \in Seq(Piece) /\ IsTenantSlug(slug) /\ uri = Uri(slug, c)
<1> DEFINE suffix == <<".", c, CallbackPath>>
           mid    == SubSeq(uri, 2, Len(uri) - 3)
<1>1. suffix \in Seq(Piece) /\ Len(suffix) = 3 /\ <<Scheme>> \in Seq(Piece) /\ Len(<<Scheme>>) = 1
  BY LiteralPieces
<1>2. /\ Len(uri) > 4 /\ IsPrefix(<<Scheme>>, uri) /\ IsSuffix(suffix, uri)
      /\ IsTenantSlug(mid) /\ slug = mid
  <2> HIDE DEF suffix, mid
  <2>1. MatchRedirectUriTemplate(TemplateOf(c), uri) =
          IF /\ Len(uri) > 4
             /\ IsPrefix(<<Scheme>>, uri) /\ IsSuffix(suffix, uri)
             /\ IsTenantSlug(mid)
          THEN mid ELSE <<>>
    BY MatchUnfolds DEF suffix, mid
  <2> QED
    BY <2>1, Zenon
<1>3. mid \in Seq(Piece) /\ Len(mid) = Len(uri) - 4
      /\ \A k \in 1 .. Len(mid) : mid[k] = uri[k + 1]
  <2>1. 2 \in 1 .. Len(uri) + 1 /\ Len(uri) - 3 \in 2 - 1 .. Len(uri)
        /\ (Len(uri) - 3) - 2 + 1 = Len(uri) - 4
    BY <1>2
  <2>2. mid \in Seq(Piece) /\ Len(mid) = Len(uri) - 4
        /\ \A k \in 1 .. Len(uri) - 4 : mid[k] = uri[2 + k - 1]
    BY <2>1, Slices, Zenon
  <2>3. \A k \in 1 .. Len(uri) - 4 : 2 + k - 1 = k + 1
    OBVIOUS
  <2> QED
    BY <2>2, <2>3
<1>4. uri[1] = Scheme
  <2> DEFINE p == <<Scheme>>
  <2>1. p[1] = Scheme /\ p \in Seq(Piece) /\ Len(p) = 1 /\ IsPrefix(p, uri)
    BY <1>1, <1>2
  <2> HIDE DEF p
  <2>2. \A k \in 1 .. Len(p) : p[k] = uri[k]
    BY <2>1, PrefixFacts, Zenon
  <2> QED
    BY <2>1, <2>2
<1>5. /\ uri[Len(uri) - 2] = "." /\ uri[Len(uri) - 1] = c /\ uri[Len(uri)] = CallbackPath
  <2>1. \A k \in 1 .. 3 : suffix[k] = uri[Len(uri) - 3 + k]
    <3> HIDE DEF suffix
    <3>1. \A k \in 1 .. Len(suffix) : suffix[k] = uri[Len(uri) - Len(suffix) + k]
      BY <1>1, <1>2, SuffixFacts, Zenon
    <3> QED
      BY <1>1, <3>1, Zenon
  <2>2. suffix[1] = "." /\ suffix[2] = c /\ suffix[3] = CallbackPath
    OBVIOUS
  <2>3. Len(uri) - 3 + 1 = Len(uri) - 2 /\ Len(uri) - 3 + 2 = Len(uri) - 1 /\ Len(uri) - 3 + 3 = Len(uri)
    OBVIOUS
  <2>4. 1 \in 1 .. 3 /\ 2 \in 1 .. 3 /\ 3 \in 1 .. 3
    OBVIOUS
  <2> HIDE DEF suffix
  <2> QED
    BY <2>1, <2>2, <2>3, <2>4
<1>6. uri = Uri(mid, c)
  <2>1. mid \in Seq(Piece) /\ Len(uri) = Len(mid) + 4
    BY <1>2, <1>3
  <2>2. Len(uri) - 2 = Len(mid) + 2 /\ Len(uri) - 1 = Len(mid) + 3
    BY <1>2, <1>3
  <2> HIDE DEF mid
  <2> QED
    BY <1>3, <1>4, <1>5, <2>1, <2>2, UriIsUnique, Zenon
<1> QED
  BY <1>2, <1>3, <1>6

\* matchRedirectUriTemplate reads back the slug that was written.
LEMMA MatchOfUri ==
    ASSUME NEW s \in Seq(Piece), NEW c \in Piece, IsTenantSlug(s)
    PROVE  MatchRedirectUriTemplate(TemplateOf(c), Uri(s, c)) = s
<1> DEFINE suffix == <<".", c, CallbackPath>>
           uri    == Uri(s, c)
<1>1. suffix \in Seq(Piece) /\ Len(suffix) = 3 /\ <<Scheme>> \in Seq(Piece) /\ Len(<<Scheme>>) = 1
      /\ suffix[1] = "." /\ suffix[2] = c /\ suffix[3] = CallbackPath
  BY LiteralPieces
<1>2. Len(s) \in Nat \ {0}
  BY DEF IsTenantSlug
<1> HIDE DEF uri, suffix
<1>3. uri \in Seq(Piece) /\ Len(uri) = Len(s) + 4 /\ uri[1] = Scheme
      /\ \A k \in 1 .. Len(s) : uri[k + 1] = s[k]
  BY UriFacts DEF uri
<1>4. IsPrefix(<<Scheme>>, uri)
  <2> DEFINE p == <<Scheme>>
  <2>1. p \in Seq(Piece) /\ Len(p) = 1 /\ p[1] = Scheme
    BY <1>1
  <2> HIDE DEF p
  <2>2. Len(p) <= Len(uri) /\ \A k \in 1 .. Len(p) : p[k] = uri[k]
    BY <1>2, <1>3, <2>1
  <2>3. IsPrefix(p, uri)
    BY <1>3, <2>1, <2>2, PrefixFacts, Zenon
  <2> QED
    BY <2>3 DEF p
<1>5. IsSuffix(suffix, uri)
  <2>1. uri[Len(s) + 2] = "." /\ uri[Len(s) + 3] = c /\ uri[Len(s) + 4] = CallbackPath
    BY UriFacts DEF uri
  <2>2. ASSUME NEW k \in 1 .. 3 PROVE suffix[k] = uri[Len(uri) - 3 + k]
    <3>1. Len(uri) - 3 + 1 = Len(s) + 2 /\ Len(uri) - 3 + 2 = Len(s) + 3 /\ Len(uri) - 3 + 3 = Len(s) + 4
      BY <1>2, <1>3
    <3>2. k = 1 \/ k = 2 \/ k = 3
      OBVIOUS
    <3> QED
      BY <1>1, <2>1, <3>1, <3>2
  <2>3. 3 <= Len(uri)
    BY <1>2, <1>3
  <2> QED
    BY <1>1, <1>3, <2>2, <2>3, SuffixFacts
<1>6. SubSeq(uri, 2, Len(uri) - 3) = s
  <2>1. Len(uri) - 3 = Len(s) + 1 /\ 2 \in 1 .. Len(s) + 2
    BY <1>2, <1>3
  <2> DEFINE m == SubSeq(uri, 2, Len(s) + 1)
  <2>2. m \in Seq(Piece) /\ Len(m) = Len(s) /\ \A k \in 1 .. Len(s) : m[k] = uri[k + 1]
    <3>1. 2 \in 1 .. Len(uri) + 1 /\ Len(s) + 1 \in 2 - 1 .. Len(uri)
          /\ (Len(s) + 1) - 2 + 1 = Len(s)
      BY <1>2, <1>3
    <3>2. m \in Seq(Piece) /\ Len(m) = Len(s) /\ \A k \in 1 .. Len(s) : m[k] = uri[2 + k - 1]
      BY <1>3, <3>1, Slices
    <3>3. \A k \in 1 .. Len(s) : 2 + k - 1 = k + 1
      OBVIOUS
    <3> QED
      BY <3>2, <3>3
  <2> HIDE DEF m
  <2>3. m = s
    BY <1>2, <1>3, <2>2, SeqEqual
  <2> QED
    BY <2>1, <2>3 DEF m
<1>7. Len(uri) > 4
  BY <1>2, <1>3
<1>8. MatchRedirectUriTemplate(TemplateOf(c), uri) =
        IF /\ Len(uri) > 4
           /\ IsPrefix(<<Scheme>>, uri) /\ IsSuffix(suffix, uri)
           /\ IsTenantSlug(SubSeq(uri, 2, Len(uri) - 3))
        THEN SubSeq(uri, 2, Len(uri) - 3) ELSE <<>>
  BY <1>3, MatchUnfolds DEF suffix
<1>9. MatchRedirectUriTemplate(TemplateOf(c), uri) = s
  BY <1>4, <1>5, <1>6, <1>7, <1>8, Zenon
<1> QED
  BY <1>9 DEF uri

\* toLowerCase keeps the length and all but the capitals.
LEMMA LowerFacts ==
    ASSUME NEW host \in Seq(Piece)
    PROVE  /\ LowerCase(host) \in Seq(Piece) /\ Len(LowerCase(host)) = Len(host)
           /\ \A k \in 1 .. Len(host) : host[k] # "A" => LowerCase(host)[k] = host[k]
<1>1. DOMAIN host = 1 .. Len(host) /\ Len(host) \in Nat /\ \A k \in 1 .. Len(host) : host[k] \in Piece
  OBVIOUS
<1> DEFINE f == [k \in 1 .. Len(host) |-> IF host[k] = "A" THEN "a" ELSE host[k]]
<1>2. f = LowerCase(host)
  BY <1>1, Zenon DEF LowerCase
<1>3. f \in Seq(Piece)
  BY <1>1, LiteralPieces
<1>4. Len(f) = Len(host)
  BY <1>1
<1>5. \A k \in 1 .. Len(host) : host[k] # "A" => f[k] = host[k]
  OBVIOUS
<1> HIDE DEF f
<1> QED
  BY <1>2, <1>3, <1>4, <1>5, Zenon

\* The host a BFF resolves is its slug before its base host.
LEMMA ResolveFacts ==
    ASSUME NEW c \in Piece, NEW host \in Seq(Piece), NEW r,
           r = ResolveClient(c, host), r # Unresolved
    PROVE  /\ r.slug \in Seq(Piece) /\ IsTenantSlug(r.slug) /\ r.client = c
           /\ r.redirectUri = Uri(r.slug, c)
           /\ r = [slug |-> r.slug, client |-> c, redirectUri |-> Uri(r.slug, c)]
           /\ Len(host) > 1 /\ (host[Len(host)] # "A" => host[Len(host)] = c)
<1> DEFINE lower  == LowerCase(host)
           suffix == <<".", c>>
           slug   == SubSeq(lower, 1, Len(lower) - 2)
           uri    == <<Scheme>> \o lower \o <<CallbackPath>>
<1>1. suffix \in Seq(Piece) /\ Len(suffix) = 2 /\ suffix[1] = "." /\ suffix[2] = c
  BY LiteralPieces
<1>2. /\ IsSuffix(suffix, lower) /\ IsTenantSlug(slug)
      /\ r = [slug |-> slug, client |-> c, redirectUri |-> uri]
  <2> HIDE DEF suffix, lower
  <2>1. r = LET d == SubSeq(lower, 1, Len(lower) - Len(suffix)) IN
            IF IsSuffix(suffix, lower) /\ IsTenantSlug(d)
            THEN [slug |-> d, client |-> c, redirectUri |-> uri]
            ELSE Unresolved
    BY Zenon DEF ResolveClient, suffix, lower
  <2> QED
    BY <1>1, <2>1, Zenon
<1>3. lower \in Seq(Piece) /\ Len(lower) = Len(host) /\ Len(lower) \in Nat
      /\ \A k \in 1 .. Len(host) : host[k] # "A" => lower[k] = host[k]
  BY LowerFacts
<1> HIDE DEF lower, suffix
<1>4. 2 <= Len(lower) /\ \A k \in 1 .. 2 : suffix[k] = lower[Len(lower) - 2 + k]
  <2>1. Len(suffix) <= Len(lower)
        /\ \A k \in 1 .. Len(suffix) : suffix[k] = lower[Len(lower) - Len(suffix) + k]
    BY <1>1, <1>2, <1>3, SuffixFacts, Zenon
  <2> QED
    BY <1>1, <2>1, Zenon
<1>5. lower[Len(lower) - 1] = "." /\ lower[Len(lower)] = c
  <2>1. 1 \in 1 .. 2 /\ 2 \in 1 .. 2
        /\ Len(lower) - 2 + 1 = Len(lower) - 1 /\ Len(lower) - 2 + 2 = Len(lower)
    BY <1>3
  <2>2. suffix[1] = lower[Len(lower) - 2 + 1] /\ suffix[2] = lower[Len(lower) - 2 + 2]
    BY <1>4, <2>1, Zenon
  <2> QED
    BY <1>1, <2>1, <2>2, Zenon
<1>6. /\ slug \in Seq(Piece) /\ Len(slug) = Len(lower) - 2
      /\ \A k \in 1 .. Len(lower) - 2 : slug[k] = lower[k]
  <2>1. 1 \in 1 .. Len(lower) + 1 /\ Len(lower) - 2 \in 1 - 1 .. Len(lower)
        /\ (Len(lower) - 2) - 1 + 1 = Len(lower) - 2
    BY <1>3, <1>4
  <2>2. slug \in Seq(Piece) /\ Len(slug) = Len(lower) - 2
        /\ \A k \in 1 .. Len(lower) - 2 : slug[k] = lower[1 + k - 1]
    BY <1>3, <2>1, Slices, Zenon
  <2>3. \A k \in 1 .. Len(lower) - 2 : 1 + k - 1 = k
    BY <1>3
  <2> QED
    BY <2>2, <2>3, Zenon
<1>7. /\ uri \in Seq(Piece) /\ Len(uri) = Len(lower) + 2
      /\ uri[1] = Scheme /\ uri[Len(lower) + 2] = CallbackPath
      /\ \A k \in 1 .. Len(lower) : uri[k + 1] = lower[k]
  <2> DEFINE one == <<Scheme>>
             two == <<CallbackPath>>
  <2>1. one \in Seq(Piece) /\ two \in Seq(Piece) /\ Len(one) = 1 /\ Len(two) = 1
        /\ one[1] = Scheme /\ two[1] = CallbackPath
    BY LiteralPieces
  <2> HIDE DEF one, two
  <2>2. /\ one \o lower \in Seq(Piece) /\ Len(one \o lower) = Len(one) + Len(lower)
        /\ \A k \in 1 .. Len(one) : (one \o lower)[k] = one[k]
        /\ \A k \in 1 .. Len(lower) : (one \o lower)[Len(one) + k] = lower[k]
    BY <1>3, <2>1, Parts, Zenon
  <2> DEFINE both == one \o lower
  <2> HIDE DEF both
  <2>3. /\ both \o two \in Seq(Piece) /\ Len(both \o two) = Len(both) + Len(two)
        /\ \A k \in 1 .. Len(both) : (both \o two)[k] = both[k]
        /\ \A k \in 1 .. Len(two) : (both \o two)[Len(both) + k] = two[k]
    BY <2>1, <2>2, Parts, Zenon DEF both
  <2>4. /\ both \in Seq(Piece) /\ Len(both) = 1 + Len(lower) /\ both[1] = one[1]
        /\ \A k \in 1 .. Len(lower) : both[1 + k] = lower[k]
    <3>1. 1 \in 1 .. Len(one)
      BY <2>1
    <3> QED
      BY <2>1, <2>2, <3>1, Zenon DEF both
  <2>5. uri = both \o two
    BY DEF both, one, two
  <2> HIDE DEF uri
  <2>6. Len(uri) = Len(lower) + 2 /\ uri \in Seq(Piece)
    BY <1>3, <2>1, <2>3, <2>4, <2>5
  <2>7. uri[1] = Scheme
    <3>1. 1 \in 1 .. Len(both)
      BY <1>3, <2>4
    <3> QED
      BY <2>1, <2>3, <2>4, <2>5, <3>1, Zenon
  <2>8. uri[Len(lower) + 2] = CallbackPath
    <3>1. Len(both) + 1 = Len(lower) + 2 /\ 1 \in 1 .. Len(two)
      BY <1>3, <2>1, <2>4
    <3>2. uri[Len(both) + 1] = two[1]
      BY <2>3, <2>5, <3>1, Zenon
    <3> QED
      BY <2>1, <3>1, <3>2, Zenon
  <2>9. ASSUME NEW k \in 1 .. Len(lower) PROVE uri[k + 1] = lower[k]
    <3>1. k + 1 \in 1 .. Len(both) /\ 1 + k = k + 1
      BY <1>3, <2>4
    <3> QED
      BY <2>3, <2>4, <2>5, <3>1, Zenon
  <2> QED
    BY <2>6, <2>7, <2>8, <2>9, Zenon
<1> HIDE DEF uri, slug
<1>8. uri = Uri(slug, c)
  <2>1. Len(lower) + 2 = Len(slug) + 4 /\ Len(slug) + 2 = (Len(lower) - 1) + 1
        /\ Len(slug) + 3 = Len(lower) + 1
        /\ Len(lower) - 1 \in 1 .. Len(lower) /\ Len(lower) \in 1 .. Len(lower)
    BY <1>3, <1>4, <1>6
  <2>2. uri[Len(slug) + 2] = "." /\ uri[Len(slug) + 3] = c /\ uri[Len(slug) + 4] = CallbackPath
    BY <1>5, <1>7, <2>1, Zenon
  <2>3. ASSUME NEW k \in 1 .. Len(slug) PROVE slug[k] = uri[k + 1]
    <3>1. k \in 1 .. Len(lower) /\ k \in 1 .. Len(lower) - 2
      BY <1>3, <1>4, <1>6
    <3> QED
      BY <1>6, <1>7, <3>1, Zenon
  <2>4. Len(uri) = Len(slug) + 4
    BY <1>7, <2>1, Zenon
  <2> QED
    BY <1>6, <1>7, <2>2, <2>3, <2>4, UriIsUnique, Zenon
<1>9. Len(host) > 1 /\ Len(host) \in 1 .. Len(host)
  BY <1>3, <1>4
<1>10. host[Len(host)] # "A" => host[Len(host)] = c
  BY <1>3, <1>5, <1>9, Zenon
<1>11. r.slug = slug /\ r.client = c /\ r.redirectUri = uri
  BY <1>2
<1> QED
  BY <1>2, <1>6, <1>8, <1>9, <1>10, <1>11, Zenon

\* The host of a tenant's redirect URI, piece by piece.
LEMMA HostOfUri ==
    ASSUME NEW s \in Seq(Piece), NEW d \in Piece
    PROVE  /\ HostOf(Uri(s, d)) \in Seq(Piece)
           /\ Len(HostOf(Uri(s, d))) = Len(s) + 2
           /\ \A k \in 1 .. Len(s) : HostOf(Uri(s, d))[k] = s[k]
           /\ HostOf(Uri(s, d))[Len(s) + 1] = "."
           /\ HostOf(Uri(s, d))[Len(s) + 2] = d
<1> DEFINE uri  == Uri(s, d)
           host == HostOf(uri)
<1>1. /\ uri \in Seq(Piece) /\ Len(uri) = Len(s) + 4 /\ Len(s) \in Nat
      /\ \A k \in 1 .. Len(s) : uri[k + 1] = s[k]
      /\ uri[Len(s) + 2] = "." /\ uri[Len(s) + 3] = d
  <2>1. Len(s) \in Nat
    OBVIOUS
  <2> QED
    BY <2>1, UriFacts, Zenon
<1>2. host = SubSeq(uri, 2, Len(uri) - 1)
  BY DEF HostOf
<1> HIDE DEF uri, host
<1>3. /\ 2 \in 1 .. Len(uri) + 1 /\ Len(uri) - 1 \in 2 - 1 .. Len(uri)
      /\ (Len(uri) - 1) - 2 + 1 = Len(s) + 2
  BY <1>1
<1>4. /\ host \in Seq(Piece) /\ Len(host) = (Len(uri) - 1) - 2 + 1
      /\ \A k \in 1 .. (Len(uri) - 1) - 2 + 1 : host[k] = uri[2 + k - 1]
  BY <1>1, <1>2, <1>3, Slices, Zenon
<1>5. host \in Seq(Piece) /\ Len(host) = Len(s) + 2
      /\ \A k \in 1 .. Len(s) + 2 : host[k] = uri[2 + k - 1]
  BY <1>3, <1>4, Zenon
<1>6. ASSUME NEW k \in 1 .. Len(s) PROVE host[k] = s[k]
  <2>1. k \in 1 .. Len(s) + 2 /\ 2 + k - 1 = k + 1
    BY <1>1
  <2> QED
    BY <1>1, <1>5, <2>1, Zenon
<1>7. /\ Len(s) + 1 \in 1 .. Len(s) + 2 /\ 2 + (Len(s) + 1) - 1 = Len(s) + 2
      /\ Len(s) + 2 \in 1 .. Len(s) + 2 /\ 2 + (Len(s) + 2) - 1 = Len(s) + 3
  BY <1>1
<1>8. host[Len(s) + 1] = "." /\ host[Len(s) + 2] = d
  BY <1>1, <1>5, <1>7, Zenon
<1> QED
  BY <1>5, <1>6, <1>8, Zenon DEF host, uri

\* It is served by the BFF of its client only.
LEMMA HostNamesClient ==
    ASSUME NEW s \in Seq(Piece), NEW c \in Piece, NEW d \in Piece, d # "A",
           ResolveClient(c, HostOf(Uri(s, d))) # Unresolved
    PROVE  HostOf(Uri(s, d)) \in Seq(Piece) /\ c = d
<1> DEFINE uri  == Uri(s, d)
           host == HostOf(uri)
<1>1. host \in Seq(Piece) /\ Len(host) = Len(s) + 2 /\ host[Len(s) + 2] = d
  BY HostOfUri, Zenon
<1> HIDE DEF host
<1>2. ResolveClient(c, host) # Unresolved
  BY DEF host, uri
<1>3. host[Len(host)] # "A" => host[Len(host)] = c
  BY <1>1, <1>2, ResolveFacts, Zenon
<1>4. c = d
  BY <1>1, <1>3, Zenon
<1> QED
  BY <1>1, <1>4 DEF host, uri

\* A tenant's redirect URI has no capitals, so resolveClient rebuilds it from its host.
LEMMA RedirectUriComesBack ==
    ASSUME NEW s \in Seq(Piece), IsTenantSlug(s), NEW d \in Piece, d # "A", NEW r,
           r = ResolveClient(d, HostOf(Uri(s, d))), r # Unresolved
    PROVE  r.redirectUri = Uri(s, d)
<1> DEFINE host == HostOf(Uri(s, d))
<1>1. r = ResolveClient(d, host)
  OBVIOUS
<1>2. /\ host \in Seq(Piece) /\ Len(host) = Len(s) + 2 /\ Len(s) \in Nat
      /\ \A k \in 1 .. Len(s) : host[k] = s[k]
      /\ host[Len(s) + 1] = "." /\ host[Len(s) + 2] = d
  <2>1. Len(s) \in Nat
    OBVIOUS
  <2> QED
    BY <2>1, HostOfUri, Zenon
<1> HIDE DEF host
<1>3. ASSUME NEW k \in 1 .. Len(s) PROVE host[k] # "A"
  <2>1. s[k] \in Alphanumeric \union {"-"}
    BY DEF IsTenantSlug
  <2> QED
    BY <1>2, <2>1 DEF Alphanumeric
<1>4. ASSUME NEW k \in 1 .. Len(host) PROVE host[k] # "A"
  <2>1. k \in 1 .. Len(s) \/ k = Len(s) + 1 \/ k = Len(s) + 2
    BY <1>2
  <2> QED
    BY <1>2, <1>3, <2>1
<1> DEFINE lower == LowerCase(host)
<1>5. lower \in Seq(Piece) /\ Len(lower) = Len(s) + 2
      /\ \A k \in 1 .. Len(s) : lower[k] = s[k]
  <2>1. /\ lower \in Seq(Piece) /\ Len(lower) = Len(host)
        /\ \A k \in 1 .. Len(host) : lower[k] = host[k]
    BY <1>2, <1>4, LowerFacts, Zenon
  <2> HIDE DEF lower
  <2>2. \A k \in 1 .. Len(s) : k \in 1 .. Len(host)
    BY <1>2
  <2> QED
    BY <1>2, <2>1, <2>2, Zenon
<1> DEFINE slug == SubSeq(lower, 1, Len(lower) - 2)
<1>6. r.slug = slug
  <2> DEFINE suffix == <<".", d>>
  <2>1. Len(suffix) = 2
    OBVIOUS
  <2> HIDE DEF suffix, lower
  <2>2. r = LET t == SubSeq(lower, 1, Len(lower) - Len(suffix)) IN
            IF IsSuffix(suffix, lower) /\ IsTenantSlug(t)
            THEN [slug |-> t, client |-> d, redirectUri |-> <<Scheme>> \o lower \o <<CallbackPath>>]
            ELSE Unresolved
    BY <1>1, Zenon DEF ResolveClient, suffix, lower
  <2>3. r = [slug |-> slug, client |-> d, redirectUri |-> <<Scheme>> \o lower \o <<CallbackPath>>]
    BY <2>1, <2>2, Zenon
  <2> QED
    BY <2>3
<1> HIDE DEF lower
<1>7. slug = s
  <2>1. 1 \in 1 .. Len(lower) + 1 /\ Len(lower) - 2 \in 1 - 1 .. Len(lower)
        /\ (Len(lower) - 2) - 1 + 1 = Len(s)
    BY <1>2, <1>5
  <2>2. slug \in Seq(Piece) /\ Len(slug) = (Len(lower) - 2) - 1 + 1
        /\ \A k \in 1 .. (Len(lower) - 2) - 1 + 1 : slug[k] = lower[1 + k - 1]
    BY <1>5, <2>1, Slices, Zenon
  <2> HIDE DEF slug
  <2>3. \A k \in 1 .. Len(s) : 1 + k - 1 = k
    BY <1>2
  <2>4. Len(slug) = Len(s)
    BY <2>1, <2>2, Zenon
  <2>5. ASSUME NEW k \in 1 .. Len(s) PROVE slug[k] = s[k]
    <3>1. slug[k] = lower[1 + k - 1]
      BY <2>1, <2>2, Zenon
    <3> QED
      BY <1>5, <2>3, <3>1, Zenon
  <2>6. \A k \in 1 .. Len(slug) : slug[k] = s[k]
    BY <2>4, <2>5, Zenon
  <2> QED
    BY <2>2, <2>4, <2>6, SeqEqual, Zenon
<1>8. r.redirectUri = Uri(r.slug, d)
  <2>1. host \in Seq(Piece)
    BY <1>2
  <2> QED
    BY <1>1, <2>1, ResolveFacts
<1> QED
  BY <1>6, <1>7, <1>8

-----------------------------------------------------------------------------
(* The Basic header of a token request.                                    *)

\* Strings are pieces, so texts of strings are texts.
LEMMA Wider == \A s \in Seq(STRING) : s \in Seq(Piece)
<1>1. STRING \subseteq Piece
  BY DEF Piece
<1> QED
  BY <1>1, SeqMonotonic, Zenon

\* A component in a header has no separator, and decodes to what it was.
LEMMA EncodedFacts ==
    ASSUME NEW text \in Seq(Piece), \A k \in DOMAIN text : text[k] \notin {"%3A", "%25"}
    PROVE  /\ EncodeComponent(text) \in Seq(Piece) /\ Len(EncodeComponent(text)) = Len(text)
           /\ \A k \in 1 .. Len(text) : EncodeComponent(text)[k] \notin {":", "%"}
           /\ DecodeComponent(EncodeComponent(text)) = text
<1> DEFINE f == EncodeComponent(text)
           g == DecodeComponent(f)
<1>1. DOMAIN text = 1 .. Len(text) /\ Len(text) \in Nat /\ \A k \in 1 .. Len(text) : text[k] \in Piece
  OBVIOUS
<1>2. f = [k \in 1 .. Len(text) |-> CASE text[k] = ":" -> "%3A" [] text[k] = "%" -> "%25"
                                      [] OTHER -> text[k]]
  BY <1>1 DEF EncodeComponent
<1> HIDE DEF f
<1>3. \A k \in 1 .. Len(text) :
        /\ (text[k] = ":" => f[k] = "%3A") /\ (text[k] = "%" => f[k] = "%25")
        /\ (text[k] \notin {":", "%"} => f[k] = text[k])
  BY <1>2
<1>4. \A k \in 1 .. Len(text) : f[k] \in Piece
  BY <1>1, <1>3, LiteralPieces
<1>5. f \in Seq(Piece) /\ Len(f) = Len(text)
  <2>1. f \in [1 .. Len(text) -> Piece]
    BY <1>2, <1>4
  <2> QED
    BY <1>1, <2>1
<1>6. \A k \in 1 .. Len(text) : f[k] \notin {":", "%"}
  BY <1>3
<1>7. g = [k \in 1 .. Len(text) |-> CASE f[k] = "%3A" -> ":" [] f[k] = "%25" -> "%"
                                      [] OTHER -> f[k]]
  <2>1. DOMAIN f = 1 .. Len(text)
    BY <1>2
  <2> QED
    BY <2>1 DEF DecodeComponent
<1> HIDE DEF g
<1>8. \A k \in 1 .. Len(text) : g[k] = text[k]
  <2>1. ASSUME NEW k \in 1 .. Len(text) PROVE g[k] = text[k]
    <3>1. /\ (f[k] = "%3A" => g[k] = ":") /\ (f[k] = "%25" => g[k] = "%")
          /\ (f[k] \notin {"%3A", "%25"} => g[k] = f[k])
      BY <1>7
    <3>2. text[k] \notin {"%3A", "%25"}
      BY <1>1
    <3> QED
      BY <1>3, <3>1, <3>2
  <2> QED
    BY <2>1
<1>9. g = text
  <2>1. g = [k \in 1 .. Len(text) |-> g[k]]
    BY <1>7
  <2>2. text = [k \in 1 .. Len(text) |-> text[k]]
    BY <1>1
  <2>3. [k \in 1 .. Len(text) |-> g[k]] = [k \in 1 .. Len(text) |-> text[k]]
    BY <1>8
  <2> QED
    BY <2>1, <2>2, <2>3, Zenon
<1> QED
  BY <1>5, <1>6, <1>9 DEF f, g

\* A BFF authenticates as its client, while that is active and its secret registered.
LEMMA HeaderAuthenticates ==
    ASSUME NEW c \in Bffs
    PROVE  AuthenticateClient(FormHeaders(c)) = IF c \in active /\ Secret \in hashes THEN c ELSE Missing
<1> USE SignInAssumption DEF SignInAssumption
<1>1. c \in Piece /\ c \notin {"%3A", "%25"}
  BY DEF Piece
<1>2. Secret \in Seq(Piece) /\ \A k \in DOMAIN Secret : Secret[k] \notin {"%3A", "%25"}
  BY Wider
<1> DEFINE name   == <<c>>
           colon  == <<":">>
           id     == EncodeComponent(name)
           secret == EncodeComponent(Secret)
           front  == id \o colon
           header == front \o secret
<1>3. name \in Seq(Piece) /\ Len(name) = 1 /\ name[1] = c
      /\ \A k \in DOMAIN name : name[k] \notin {"%3A", "%25"}
  BY <1>1
<1>4. colon \in Seq(Piece) /\ Len(colon) = 1 /\ colon[1] = ":"
  BY LiteralPieces
<1> HIDE SignInAssumption
<1> HIDE DEF SignInAssumption, name, colon
<1>5. id \in Seq(Piece) /\ Len(id) = Len(name) /\ DecodeComponent(id) = name
      /\ \A k \in 1 .. Len(name) : id[k] \notin {":", "%"}
  BY <1>3, EncodedFacts, Zenon
<1>6. secret \in Seq(Piece) /\ Len(secret) = Len(Secret) /\ DecodeComponent(secret) = Secret
      /\ \A k \in 1 .. Len(Secret) : secret[k] \notin {":", "%"}
  BY <1>2, EncodedFacts, Zenon
<1> HIDE DEF id, secret
<1>7. /\ front \in Seq(Piece) /\ Len(front) = Len(id) + Len(colon)
      /\ \A k \in 1 .. Len(id) : front[k] = id[k]
      /\ \A k \in 1 .. Len(colon) : front[Len(id) + k] = colon[k]
  BY <1>4, <1>5, Parts, Zenon
<1> HIDE DEF front
<1>8. /\ header \in Seq(Piece) /\ Len(header) = Len(front) + Len(secret)
      /\ \A k \in 1 .. Len(front) : header[k] = front[k]
      /\ \A k \in 1 .. Len(secret) : header[Len(front) + k] = secret[k]
  BY <1>6, <1>7, Parts, Zenon
<1>9. FormHeaders(c) = header
  BY Zenon DEF FormHeaders, header, front, id, secret, name, colon
<1> HIDE DEF header
<1>10. Len(Secret) \in Nat /\ Len(id) = 1 /\ Len(front) = 2 /\ Len(header) = Len(Secret) + 2
  BY <1>2, <1>3, <1>4, <1>5, <1>6, <1>7, <1>8
<1>11. header[1] = id[1] /\ header[2] = ":" /\ id[1] \notin {":", "%"}
  <2>1. 1 \in 1 .. 1 /\ 1 \in 1 .. 2 /\ 2 \in 1 .. 2 /\ 1 + 1 = 2
    OBVIOUS
  <2>2. front[1] = id[1]
    BY <1>7, <1>10, <2>1, Zenon
  <2>3. front[1 + 1] = colon[1]
    BY <1>4, <1>7, <1>10, <2>1, Zenon
  <2>4. id[1] \notin {":", "%"}
    BY <1>3, <1>5, <2>1, Zenon
  <2>5. header[1] = front[1] /\ header[2] = front[2]
    BY <1>8, <1>10, <2>1, Zenon
  <2> QED
    BY <1>4, <2>1, <2>2, <2>3, <2>4, <2>5, Zenon
<1>12. \A k \in 1 .. Len(Secret) : header[2 + k] = secret[k] /\ secret[k] \notin {":", "%"}
  BY <1>6, <1>8, <1>10, Zenon
<1>13. IndexOf(header, ":") = 2
  <2>1. 2 \in 1 .. Len(header) /\ \A k \in 1 .. 2 - 1 : header[k] # ":"
    BY <1>10, <1>11
  <2> QED
    BY <1>8, <1>11, <2>1, FirstAt, Zenon
<1>14. ~\E k \in DOMAIN header : header[k] = "%"
  <2>1. DOMAIN header = 1 .. Len(Secret) + 2
    BY <1>8, <1>10
  <2>2. ASSUME NEW k \in 1 .. Len(Secret) + 2 PROVE header[k] # "%"
    <3>1. CASE k = 1
      BY <3>1, <1>11
    <3>2. CASE k = 2
      BY <3>2, <1>11
    <3>3. CASE k \in 3 .. Len(Secret) + 2
      <4>1. k - 2 \in 1 .. Len(Secret) /\ 2 + (k - 2) = k
        BY <3>3, <1>10
      <4>2. header[2 + (k - 2)] # "%"
        BY <4>1, <1>12, Zenon
      <4> QED
        BY <4>1, <4>2, Zenon
    <3> QED
      BY <1>10, <3>1, <3>2, <3>3
  <2> QED
    BY <2>1, <2>2, Zenon
<1>15. SubSeq(header, 1, 1) = id
  <2> DEFINE m == SubSeq(header, 1, 1)
  <2>1. 1 \in 1 .. Len(header) + 1 /\ 1 \in 1 - 1 .. Len(header) /\ 1 - 1 + 1 = 1 /\ 1 + 1 - 1 = 1
    BY <1>10
  <2>2. m \in Seq(Piece) /\ Len(m) = 1 - 1 + 1 /\ \A k \in 1 .. 1 - 1 + 1 : m[k] = header[1 + k - 1]
    BY <1>8, <2>1, Slices, Zenon
  <2> HIDE DEF m
  <2>3. m \in Seq(Piece) /\ Len(m) = 1 /\ m[1] = header[1]
    BY <2>1, <2>2
  <2>4. \A k \in 1 .. Len(m) : m[k] = id[k]
    BY <1>11, <2>3
  <2>5. m = id
    BY <1>5, <1>10, <2>3, <2>4, SeqEqual, Zenon
  <2> QED
    BY <2>5 DEF m
<1>16. SubSeq(header, 3, Len(header)) = secret
  <2> DEFINE m == SubSeq(header, 3, Len(header))
  <2>1. /\ 3 \in 1 .. Len(header) + 1 /\ Len(header) \in 3 - 1 .. Len(header)
        /\ Len(header) - 3 + 1 = Len(Secret)
        /\ \A k \in 1 .. Len(Secret) : 3 + k - 1 = 2 + k
    BY <1>10
  <2>2. m \in Seq(Piece) /\ Len(m) = Len(header) - 3 + 1
        /\ \A k \in 1 .. Len(header) - 3 + 1 : m[k] = header[3 + k - 1]
    BY <1>8, <2>1, Slices, Zenon
  <2> HIDE DEF m
  <2>3. Len(m) = Len(Secret) /\ \A k \in 1 .. Len(m) : m[k] = secret[k]
    BY <1>12, <2>1, <2>2, Zenon
  <2>4. m = secret
    BY <1>6, <2>2, <2>3, SeqEqual, Zenon
  <2> QED
    BY <2>4 DEF m
<1>17. 2 > 1 /\ 2 - 1 = 1 /\ 2 + 1 = 3
  OBVIOUS
<1>18. AuthenticateClient(header) = IF name[1] \in active /\ Secret \in hashes THEN name[1] ELSE Missing
  BY <1>5, <1>6, <1>13, <1>14, <1>15, <1>16, <1>17, Zenon DEF AuthenticateClient
<1> QED
  BY <1>3, <1>9, <1>18, Zenon

-----------------------------------------------------------------------------
(* The invariant.                                                          *)

\* A query as /authorize may read it, and one that passes its checks.
ReadQueries(i) ==
    [client: Bffs \union {Missing}, uri: Seq(Piece), response: {"code", "token"}, state: {i, Unset},
     nonce: {i, Unset}, method: {"S256", "plain"}, challenge: {i, Unset},
     scope: {SupportedScopes, {"email"}, {"openid", "phone"}}]

ValidQueries(i) ==
    {q \in [client: Bffs, uri: Seq(Piece), response: {"code"}, state: {i}, nonce: {i},
            method: {"S256"}, challenge: {i}, scope: {SupportedScopes, {"email"}, {"openid", "phone"}}] :
        MatchRedirectUriTemplate(TemplateOf(q.client), q.uri) \in Known}

\* The answers buildRedirect writes, and the records saved under codes.
Errors == {"unsupported_response_type", "invalid_request", "invalid_scope", "access_denied"}

ErrorAnswers(i) ==
    [what: {"error"}, to: Seq(Piece), state: {i, Unset}, error: Errors, why: Reasons \union {Missing}]
CodeAnswers(i) == [what: {"code"}, to: Seq(Piece), state: {i}]

Fates == {"stored", "expired", "refused", "used"}

Codes(i) ==
    [client: Bffs, uri: Seq(Piece), nonce: {i}, challenge: {i}, user: Logins,
     scope: {SupportedScopes, {"email"}, {"openid", "phone"}}, session: SignIns, fate: Fates,
     tenant: Known]

\* A resolved host.
Home(at) ==
    /\ at.slug \in Seq(Piece) /\ IsTenantSlug(at.slug) /\ at.client \in Bffs
    /\ at = [slug |-> at.slug, client |-> at.client, redirectUri |-> Uri(at.slug, at.client)]

\* A sign-in /auth/login started.
Begun(w) ==
    /\ w = [browser |-> w.browser, at |-> w.at, returnTo |-> w.returnTo]
    /\ w.browser \in Browsers /\ Home(w.at) /\ StaysOnHost(w.returnTo)

\* Some tenant's callback at some service.
Registered(uri) == \E c \in Bffs, slug \in Known : IsTenantSlug(slug) /\ uri = Uri(slug, c)

Sessions == [login: SignIns, user: Logins]

\* What each variable holds; an SSO session is made by a sign-in that is answered with it.
Domains ==
    /\ active \subseteq Bffs
    /\ DOMAIN sso = Browsers /\ \A b \in Browsers : sso[b] \in Sessions \union {NoSession}
    /\ \A b \in Browsers : sso[b] # NoSession => answer[sso[b].login] # Blank
    /\ preAuth \subseteq SignIns
    /\ DOMAIN begun = SignIns /\ DOMAIN asked = SignIns /\ DOMAIN answer = SignIns
    /\ DOMAIN codes = SignIns /\ DOMAIN result = SignIns

\* The request of a sign-in, from /auth/login to its answer.
RequestOK(i) ==
    /\ begun[i] # Blank => Begun(begun[i])
    /\ begun[i] = Blank => asked[i] = Blank /\ answer[i] = Blank /\ i \notin preAuth
    /\ asked[i] # Blank => asked[i] \in ValidQueries(i) /\ answer[i] = Blank
    /\ answer[i] \in {Blank, Page} \union ErrorAnswers(i) \union CodeAnswers(i)
    /\ answer[i].what \in {"error", "code"} => Registered(answer[i].to)

\* The code an answer carries, not sent while the pre-auth record is there.
CodeOK(i) ==
    /\ answer[i].what = "code" <=> codes[i] # Blank
    /\ codes[i] # Blank =>
         /\ codes[i] \in Codes(i) /\ answer[i].to = codes[i].uri
         /\ codes[i].tenant = MatchRedirectUriTemplate(TemplateOf(codes[i].client), codes[i].uri)
         /\ answer[codes[i].session] # Blank
         /\ i \in preAuth => codes[i].fate \in {"stored", "expired"}

\* The refusals of a code whose state matched.
Unknown == RetryLogin("code_unknown_or_expired")
SessionGone == RetryLogin("sso_session_expired")

\* What the callback made of it.
ResultOK(i) ==
    /\ answer[i] = Blank => result[i] = Blank
    /\ result[i].what = "session" =>
         /\ result[i].browser = begun[i].browser /\ result[i].at = begun[i].at
         /\ result[i].tenant = begun[i].at.slug /\ result[i].tenant \in Known
         /\ codes[i].client = begun[i].at.client /\ result[i].user = codes[i].user
         /\ StaysOnHost(result[i].to)
    /\ result[i].what = "retry" => codes[i] # Blank /\ result[i] \in {Unknown, SessionGone}
    /\ result[i] = Unknown => codes[i].fate = "expired"
    /\ result[i] = SessionGone => ~Lives(codes[i].session)
    /\ result[i] = TemporaryError => (Secret \notin hashes \/ codes[i].client \notin active)

\* The inductive invariant.
SignInInv == Domains /\ \A i \in SignIns : RequestOK(i) /\ CodeOK(i) /\ ResultOK(i)

-----------------------------------------------------------------------------
(* What the handlers compute.                                              *)

\* What the assumptions on the constants say of texts, services and users.
LEMMA ConstantFacts ==
    /\ Bffs \subseteq Piece /\ "A" \notin Bffs /\ Missing \notin Bffs /\ Missing \notin Logins
    /\ <<>> \notin Known /\ \A slug \in Known : slug \in Seq(Piece)
    /\ \A label \in Labels : label \in Seq(Piece)
    /\ \A text \in ReturnTexts \union {<<>>} : text \in Seq(Piece)
    /\ \A i \in SignIns : i # Unset
<1> USE SignInAssumption DEF SignInAssumption
<1>1. Bffs \subseteq Piece
  BY DEF Piece
<1>2. "A" \notin Bffs /\ Missing \notin Bffs /\ Missing \notin Logins /\ <<>> \notin Known
  BY DEF Missing
<1>3. \A slug \in Known : slug \in Seq(Piece)
  BY Wider
<1>4. \A label \in Labels : label \in Seq(Piece)
  BY Wider
<1>5. \A text \in ReturnTexts \union {<<>>} : text \in Seq(Piece)
  <2>1. <<>> \in Seq(Piece)
    OBVIOUS
  <2>2. \A text \in ReturnTexts : text \in Seq(Piece)
    BY Wider
  <2> QED
    BY <2>1, <2>2
<1>6. \A i \in SignIns : i # Unset
  BY DEF Unset
<1> HIDE DEF SignInAssumption
<1> QED
  BY <1>1, <1>2, <1>3, <1>4, <1>5, <1>6, Zenon

\* sanitizeReturnTo leaves a path that browsers read as one of this host.
LEMMA SanitizedStays ==
    ASSUME NEW text \in Seq(Piece)
    PROVE  StaysOnHost(SanitizeReturnTo(text))
<1>1. CASE SanitizeReturnTo(text) = <<"/">>
  <2> DEFINE p == <<"/">>
  <2>1. DOMAIN p = {1} /\ p[1] = "/"
    OBVIOUS
  <2> HIDE DEF p
  <2>2. StaysOnHost(p)
    BY <2>1 DEF StaysOnHost
  <2> QED
    BY <1>1, <2>2 DEF p
<1>2. CASE SanitizeReturnTo(text) # <<"/">>
  <2>1. /\ SanitizeReturnTo(text) = text /\ text # <<>> /\ text[1] = "/"
        /\ (Len(text) > 1 => text[2] # "/")
        /\ \A k \in DOMAIN text : text[k] \notin {"\\", "control"}
    BY <1>2 DEF SanitizeReturnTo
  <2>2. DOMAIN text = 1 .. Len(text) /\ Len(text) \in Nat /\ Len(text) # 0
    BY <2>1
  <2>3. ASSUME NEW next \in DOMAIN text, next > 1,
               \A k \in 2 .. next - 1 : text[k] = "control"
        PROVE  text[next] \notin {"/", "\\"}
    <3>1. CASE next = 2
      BY <2>1, <2>2, <2>3, <3>1
    <3>2. CASE next # 2
      BY <2>1, <2>2, <2>3, <3>2
    <3> QED
      BY <3>1, <3>2
  <2>4. 1 \in DOMAIN text /\ 1 + 1 = 2 /\ \A k \in 1 .. 1 - 1 : text[k] = "control"
    BY <2>2
  <2>5. StaysOnHost(text)
    BY <2>1, <2>3, <2>4, Zenon DEF StaysOnHost
  <2> QED
    BY <2>1, <2>5
<1> QED
  BY <1>1, <1>2

\* A Host header is a text.
LEMMA HostFacts ==
    ASSUME NEW host \in Hosts
    PROVE  host \in Seq(Piece)
<1>1. PICK label \in Labels, c \in Bffs : host = Subdomain(label, c)
  BY DEF Hosts
<1>2. label \in Seq(Piece) /\ <<".", c>> \in Seq(Piece)
  BY ConstantFacts, LiteralPieces
<1> QED
  BY <1>1, <1>2, Parts, Zenon DEF Subdomain

\* resolveClient returns a tenant's host of its own service, or nothing.
LEMMA ResolvedIsHome ==
    ASSUME NEW c \in Bffs, NEW host \in Seq(Piece), ResolveClient(c, host) # Unresolved
    PROVE  Home(ResolveClient(c, host)) /\ ResolveClient(c, host).client = c
<1> DEFINE r == ResolveClient(c, host)
<1>1. c \in Piece
  BY ConstantFacts
<1> HIDE DEF r
<1>2. r = ResolveClient(c, host) /\ r # Unresolved
  BY DEF r
<1>3. /\ r.slug \in Seq(Piece) /\ IsTenantSlug(r.slug) /\ r.client = c
      /\ r = [slug |-> r.slug, client |-> c, redirectUri |-> Uri(r.slug, c)]
  BY <1>1, <1>2, ResolveFacts, Zenon
<1> QED
  BY <1>2, <1>3, Zenon DEF Home

\* Every query /authorize may read.
LEMMA QueriesAreRead ==
    ASSUME NEW i \in SignIns, Begun(begun[i]), NEW q \in Queries(i)
    PROVE  q \in ReadQueries(i)
<1> DEFINE proper == ProperQuery(i)
<1>1. /\ begun[i].at.client \in Bffs /\ begun[i].at.slug \in Seq(Piece)
      /\ begun[i].at.redirectUri = Uri(begun[i].at.slug, begun[i].at.client)
  BY DEF Begun, Home
<1>2. begun[i].at.redirectUri \in Seq(Piece)
  BY <1>1, ConstantFacts, UriFacts
<1>3. proper \in ReadQueries(i)
  BY <1>1, <1>2 DEF ProperQuery, ReadQueries
<1> HIDE DEF proper
<1>4. CASE q = proper
  BY <1>3, <1>4
<1>5. ASSUME NEW c \in Bffs \union {Missing}, q = [proper EXCEPT !.client = c]
      PROVE  q \in ReadQueries(i)
  BY <1>3, <1>5 DEF ReadQueries
<1>6. ASSUME NEW uri \in Seq(Piece), q = [proper EXCEPT !.uri = uri]
      PROVE  q \in ReadQueries(i)
  BY <1>3, <1>6 DEF ReadQueries
<1>7. ASSUME NEW h \in Hosts, NEW path \in {CallbackPath, "/elsewhere"},
             q = [proper EXCEPT !.uri = <<Scheme>> \o h \o <<path>>]
      PROVE  q \in ReadQueries(i)
  <2> DEFINE one == <<Scheme>>
             two == <<path>>
  <2>1. one \in Seq(Piece) /\ two \in Seq(Piece)
    BY LiteralPieces
  <2> HIDE DEF one, two
  <2>2. one \o h \in Seq(Piece)
    BY <2>1, HostFacts, Parts, Zenon
  <2>3. (one \o h) \o two \in Seq(Piece)
    BY <2>1, <2>2, Parts, Zenon
  <2> QED
    BY <1>6, <1>7, <2>3, Zenon DEF one, two
<1>8. CASE q = [proper EXCEPT !.uri = <<>>]
  <2>1. <<>> \in Seq(Piece)
    OBVIOUS
  <2> QED
    BY <1>6, <1>8, <2>1, Zenon
<1>9. CASE q \in {[proper EXCEPT !.response = "token"], [proper EXCEPT !.state = Unset],
                [proper EXCEPT !.nonce = Unset], [proper EXCEPT !.method = "plain"],
                [proper EXCEPT !.challenge = Unset], [proper EXCEPT !.scope = {"email"}],
                [proper EXCEPT !.scope = {"openid", "phone"}]}
  <2>1. CASE q = [proper EXCEPT !.response = "token"]
    BY <1>3, <2>1 DEF ReadQueries
  <2>2. CASE q = [proper EXCEPT !.state = Unset]
    BY <1>3, <2>2 DEF ReadQueries
  <2>3. CASE q = [proper EXCEPT !.nonce = Unset]
    BY <1>3, <2>3 DEF ReadQueries
  <2>4. CASE q = [proper EXCEPT !.method = "plain"]
    BY <1>3, <2>4 DEF ReadQueries
  <2>5. CASE q = [proper EXCEPT !.challenge = Unset]
    BY <1>3, <2>5 DEF ReadQueries
  <2>6. CASE q = [proper EXCEPT !.scope = {"email"}]
    BY <1>3, <2>6 DEF ReadQueries
  <2>7. CASE q = [proper EXCEPT !.scope = {"openid", "phone"}]
    BY <1>3, <2>7 DEF ReadQueries
  <2> QED
    BY <1>9, <2>1, <2>2, <2>3, <2>4, <2>5, <2>6, <2>7
<1>10. \/ q = proper
       \/ \E c \in Bffs \union {Missing} : q = [proper EXCEPT !.client = c]
       \/ \E h \in Hosts, path \in {CallbackPath, "/elsewhere"} :
             q = [proper EXCEPT !.uri = <<Scheme>> \o h \o <<path>>]
       \/ q = [proper EXCEPT !.uri = <<>>]
       \/ q \in {[proper EXCEPT !.response = "token"], [proper EXCEPT !.state = Unset],
                [proper EXCEPT !.nonce = Unset], [proper EXCEPT !.method = "plain"],
                [proper EXCEPT !.challenge = Unset], [proper EXCEPT !.scope = {"email"}],
                [proper EXCEPT !.scope = {"openid", "phone"}]}
  BY DEF Queries, proper
<1> QED
  BY <1>4, <1>5, <1>7, <1>8, <1>9, <1>10

\* What passes validateAuthorizationRequest, and what its failures are sent to.
LEMMA ValidationFacts ==
    ASSUME NEW i \in SignIns, NEW q \in ReadQueries(i), active \subseteq Bffs
    PROVE  /\ ValidationError(q) = "valid" => q \in ValidQueries(i)
           /\ ValidationError(q) \notin {"invalid_client", "invalid_redirect_uri"} => Registered(q.uri)
<1> DEFINE m == MatchRedirectUriTemplate(TemplateOf(q.client), q.uri)
<1>1. /\ q.uri \in Seq(Piece) /\ q.response \in {"code", "token"} /\ q.state \in {i, Unset}
      /\ q.nonce \in {i, Unset} /\ q.method \in {"S256", "plain"} /\ q.challenge \in {i, Unset}
      /\ q.scope \in {SupportedScopes, {"email"}, {"openid", "phone"}}
      /\ q = [client |-> q.client, uri |-> q.uri, response |-> q.response, state |-> q.state,
              nonce |-> q.nonce, method |-> q.method, challenge |-> q.challenge, scope |-> q.scope]
  BY DEF ReadQueries
<1> HIDE DEF m
<1>2. ASSUME ValidationError(q) \notin {"invalid_client", "invalid_redirect_uri"}
      PROVE  q.client \in Bffs /\ m \in Known
  BY <1>2 DEF ValidationError, m
<1>3. ASSUME ValidationError(q) = "valid" PROVE q \in ValidQueries(i)
  <2>1. q.client \in Bffs /\ m \in Known
    BY <1>2, <1>3
  <2>2. /\ q.response = "code" /\ q.state # Unset /\ q.nonce # Unset /\ q.method = "S256"
        /\ q.challenge # Unset
    BY <1>3 DEF ValidationError
  <2>3. /\ q.response \in {"code"} /\ q.state \in {i} /\ q.nonce \in {i} /\ q.method \in {"S256"}
        /\ q.challenge \in {i}
    BY <1>1, <2>2
  <2>4. q \in [client: Bffs, uri: Seq(Piece), response: {"code"}, state: {i}, nonce: {i},
               method: {"S256"}, challenge: {i},
               scope: {SupportedScopes, {"email"}, {"openid", "phone"}}]
    BY <1>1, <2>1, <2>3
  <2> QED
    BY <2>1, <2>4 DEF ValidQueries, m
<1>4. ASSUME ValidationError(q) \notin {"invalid_client", "invalid_redirect_uri"}
      PROVE  Registered(q.uri)
  <2>1. q.client \in Bffs /\ m \in Known
    BY <1>2, <1>4
  <2>2. q.client \in Piece /\ m # <<>>
    BY <2>1, ConstantFacts
  <2>3. IsTenantSlug(m) /\ q.uri = Uri(m, q.client)
    BY <1>1, <2>2, MatchIsFaithful, Zenon DEF m
  <2> QED
    BY <2>1, <2>3 DEF Registered
<1> QED
  BY <1>3, <1>4

\* A tenant's own callback is a registered one.
LEMMA HomeMatches ==
    ASSUME NEW at, Home(at)
    PROVE  MatchRedirectUriTemplate(TemplateOf(at.client), at.redirectUri) = at.slug
<1>1. at.slug \in Seq(Piece) /\ IsTenantSlug(at.slug) /\ at.client \in Piece
      /\ at.redirectUri = Uri(at.slug, at.client)
  BY ConstantFacts DEF Home
<1> QED
  BY <1>1, MatchOfUri, Zenon

-----------------------------------------------------------------------------
(* The steps.                                                              *)

\* Requests, codes and answers of different kinds are told apart.
LEMMA BlankFacts ==
    /\ Blank.what = "nothing" /\ Page.what = "page" /\ Page # Blank
    /\ \A i \in SignIns : \A q \in ValidQueries(i) : q # Blank
    /\ \A i \in SignIns : \A k \in Codes(i) : k # Blank
    /\ \A i \in SignIns : \A a \in ErrorAnswers(i) : a # Blank /\ a # Page /\ a.what = "error"
    /\ \A i \in SignIns : \A a \in CodeAnswers(i) : a # Blank /\ a # Page /\ a.what = "code"
    /\ \A b, at, to : [browser |-> b, at |-> at, returnTo |-> to] # Blank
<1>1. Blank.what = "nothing" /\ Page.what = "page" /\ Page # Blank
  BY DEF Blank, Page
<1>2. DOMAIN Blank = {"what"}
  BY DEF Blank
<1>3. ASSUME NEW i \in SignIns, NEW q \in ValidQueries(i) PROVE q # Blank
  <2>1. "client" \in DOMAIN q
    BY <1>3 DEF ValidQueries
  <2> QED
    BY <1>2, <2>1
<1>4. ASSUME NEW i \in SignIns, NEW k \in Codes(i) PROVE k # Blank
  <2>1. "client" \in DOMAIN k
    BY <1>4 DEF Codes
  <2> QED
    BY <1>2, <2>1
<1>5. ASSUME NEW i \in SignIns, NEW a \in ErrorAnswers(i) PROVE a.what = "error"
  BY <1>5 DEF ErrorAnswers
<1>6. ASSUME NEW i \in SignIns, NEW a \in CodeAnswers(i) PROVE a.what = "code"
  BY <1>6 DEF CodeAnswers
<1>7. ASSUME NEW b, NEW at, NEW to PROVE [browser |-> b, at |-> at, returnTo |-> to] # Blank
  <2> DEFINE w == [browser |-> b, at |-> at, returnTo |-> to]
  <2>1. "browser" \in DOMAIN w
    OBVIOUS
  <2> HIDE DEF w
  <2>2. w # Blank
    BY <1>2, <2>1
  <2> QED
    BY <2>2 DEF w
<1>8. \A a : a.what \in {"error", "code"} => a # Blank /\ a # Page
  BY <1>1
<1> QED
  BY <1>1, <1>3, <1>4, <1>5, <1>6, <1>7, <1>8

\* What the invariant says of one sign-in.
SignInOK(i) == RequestOK(i) /\ CodeOK(i) /\ ResultOK(i)

\* The callback's answers are told apart.
LEMMA ResultKinds ==
    /\ TemporaryError.what = "temporary"
    /\ \A why : RetryLogin(why).what = "retry" /\ RetryLogin(why).why = why
    /\ \A a : RenderAuthorizationError(a).what \in
                 {"failed", "not_contracted", "tenant_suspended", "no access"}
  BY DEF TemporaryError, RetryLogin, RenderAuthorizationError

\* SSO sessions stay or end; a new one is of a sign-in that had no answer yet.
SessionsFollow ==
    \A b \in Browsers : sso'[b] \in {sso[b], NoSession} \/ answer[sso'[b].login] = Blank

\* So what has ended stays so.
LEMMA StaysEnded ==
    ASSUME SessionsFollow, NEW s, answer[s] # Blank, ~Lives(s)
    PROVE  ~\E b \in Browsers : sso'[b] # NoSession /\ sso'[b].login = s
<1> SUFFICES ASSUME NEW b \in Browsers, sso'[b] # NoSession, sso'[b].login = s
             PROVE  FALSE
  OBVIOUS
<1>1. sso'[b] = sso[b]
  BY DEF SessionsFollow
<1> QED
  BY <1>1 DEF Lives

\* A step that leaves them alone.
LEMMA Unmoved == sso' = sso => SessionsFollow
  BY DEF SessionsFollow

\* A sign-in a step leaves alone.
LEMMA OthersKeep ==
    ASSUME NEW j \in SignIns, SignInOK(j), active' \subseteq active, hashes' = hashes,
           begun'[j] = begun[j], asked'[j] = asked[j], answer'[j] = answer[j],
           codes'[j] = codes[j], result'[j] = result[j], j \in preAuth' => j \in preAuth,
           SessionsFollow, \A n \in SignIns : answer[n] # Blank => answer'[n] # Blank
    PROVE  SignInOK(j)'
<1>1. RequestOK(j)'
  BY DEF SignInOK, RequestOK
<1>2. CodeOK(j)'
  <2>1. codes[j] # Blank => codes[j].session \in SignIns
    BY DEF SignInOK, CodeOK, Codes
  <2> QED
    BY <2>1 DEF SignInOK, CodeOK
<1>3. ResultOK(j)'
  <2>1. codes[j].client \notin active => codes[j].client \notin active'
    OBVIOUS
  <2>2. ASSUME result[j] = SessionGone PROVE ~Lives(codes[j].session)'
    <3>1. codes[j] # Blank /\ ~Lives(codes[j].session)
      BY <2>2, ResultKinds DEF SignInOK, ResultOK, SessionGone
    <3>2. answer[codes[j].session] # Blank
      BY <3>1 DEF SignInOK, CodeOK
    <3>3. PICK s : s = codes[j].session
      OBVIOUS
    <3>4. ~\E b \in Browsers : sso'[b] # NoSession /\ sso'[b].login = s
      BY <3>1, <3>2, <3>3, StaysEnded
    <3> QED
      BY <3>3, <3>4 DEF Lives
  <2> QED
    BY <2>1, <2>2 DEF SignInOK, ResultOK
<1> QED
  BY <1>1, <1>2, <1>3 DEF SignInOK

\* A request without an answer has neither code nor result.
LEMMA UnansweredFacts ==
    ASSUME NEW i \in SignIns, SignInOK(i), answer[i] = Blank
    PROVE  codes[i] = Blank /\ result[i] = Blank
  BY BlankFacts DEF SignInOK, CodeOK, ResultOK

\* The sign-in that is answered: with the page, an error, or a code and its record.
LEMMA AnswerKeeps ==
    ASSUME NEW i \in SignIns, SignInOK(i), begun[i] # Blank, answer[i] = Blank,
           NEW a, NEW k, answer'[i] = a, codes'[i] = k, asked'[i] = Blank,
           k # Blank => k.fate = "stored" /\ answer'[k.session] # Blank,
           begun'[i] = begun[i], result'[i] = result[i],
           \/ a = Page /\ k = Blank
           \/ a \in ErrorAnswers(i) /\ Registered(a.to) /\ k = Blank
           \/ /\ a \in CodeAnswers(i) /\ Registered(a.to) /\ k \in Codes(i) /\ a.to = k.uri
              /\ k.tenant = MatchRedirectUriTemplate(TemplateOf(k.client), k.uri)
    PROVE  SignInOK(i)'
<1>1. codes[i] = Blank /\ result[i] = Blank
  BY UnansweredFacts
<1>2. RequestOK(i)'
  <2>1. begun'[i] # Blank /\ Begun(begun'[i])
    BY DEF SignInOK, RequestOK
  <2>2. asked'[i] = Blank
    OBVIOUS
  <2>3. answer'[i] \in {Blank, Page} \union ErrorAnswers(i) \union CodeAnswers(i)
    OBVIOUS
  <2>4. answer'[i].what \in {"error", "code"} => Registered(answer'[i].to)
    BY BlankFacts
  <2> QED
    BY <2>1, <2>2, <2>3, <2>4 DEF RequestOK
<1>3. CodeOK(i)'
  BY BlankFacts DEF CodeOK
<1>4. ResultOK(i)'
  <2>1. result'[i] = Blank
    BY <1>1
  <2>2. Blank \notin {Unknown, SessionGone, TemporaryError}
    BY DEF Blank, Unknown, SessionGone, RetryLogin, TemporaryError
  <2> QED
    BY <2>1, <2>2, BlankFacts DEF ResultOK
<1> QED
  BY <1>2, <1>3, <1>4 DEF SignInOK

\* The invariant, sign-in by sign-in.
LEMMA InvIsOK == SignInInv <=> Domains /\ \A i \in SignIns : SignInOK(i)
  BY DEF SignInInv, SignInOK

\* Nothing has begun at the start.
LEMMA InitHolds == SignInInit => SignInInv
<1> SUFFICES ASSUME SignInInit PROVE SignInInv
  OBVIOUS
<1>1. Domains
  BY DEF SignInInit, Domains
<1>2. ASSUME NEW i \in SignIns PROVE SignInOK(i)
  <2>1. begun[i] = Blank /\ asked[i] = Blank /\ answer[i] = Blank /\ codes[i] = Blank /\ result[i] = Blank
        /\ i \notin preAuth
    BY DEF SignInInit
  <2>2. Blank \notin {Unknown, SessionGone, TemporaryError}
    BY DEF Blank, Unknown, SessionGone, RetryLogin, TemporaryError
  <2> QED
    BY <2>1, <2>2, BlankFacts DEF SignInOK, RequestOK, CodeOK, ResultOK
<1> QED
  BY <1>1, <1>2, InvIsOK

\* /auth/login redirects only from a host it resolved, and keeps a path of that host.
LEMMA BeginKeeps ==
    ASSUME SignInInv, NEW i \in SignIns, NEW b \in Browsers, NEW c \in Bffs, NEW host \in Hosts,
           NEW text \in ReturnTexts \union {<<>>}, BeginSignIn(i, b, c, host, text)
    PROVE  SignInInv'
<1> DEFINE w == [browser |-> b, at |-> ResolveClient(c, host), returnTo |-> SanitizeReturnTo(text)]
<1>1. Domains /\ \A j \in SignIns : SignInOK(j)
  BY InvIsOK
<1>2. /\ begun[i] = Blank /\ ResolveClient(c, host) # Unresolved
      /\ begun' = [begun EXCEPT ![i] = w]
      /\ preAuth' \subseteq preAuth \union {i}
      /\ UNCHANGED <<active, hashes, sso, asked, answer, codes, result>>
  BY DEF BeginSignIn
<1>3. Begun(w)
  <2>1. host \in Seq(Piece) /\ text \in Seq(Piece)
    BY HostFacts, ConstantFacts, Zenon
  <2>2. Home(ResolveClient(c, host))
    BY <1>2, <2>1, ResolvedIsHome, Zenon
  <2>3. StaysOnHost(SanitizeReturnTo(text))
    BY <2>1, SanitizedStays, Zenon
  <2>4. w.browser = b /\ w.at = ResolveClient(c, host) /\ w.returnTo = SanitizeReturnTo(text)
    OBVIOUS
  <2> QED
    BY <2>2, <2>3, <2>4 DEF Begun
<1>4. w # Blank
  BY BlankFacts
<1> HIDE DEF w
<1>5. Domains'
  BY <1>1, <1>2 DEF Domains
<1>6. DOMAIN begun = SignIns
  BY <1>1 DEF Domains
<1>7. ASSUME NEW j \in SignIns, j # i PROVE SignInOK(j)'
  <2>1. begun'[j] = begun[j] /\ (j \in preAuth' => j \in preAuth)
    BY <1>2, <1>6, <1>7
  <2> QED
    BY <1>1, <1>2, <2>1, OthersKeep, Unmoved
<1>8. SignInOK(i)'
  <2>1. begun'[i] = w
    BY <1>2, <1>6
  <2>2. asked[i] = Blank /\ answer[i] = Blank
    BY <1>1, <1>2 DEF SignInOK, RequestOK
  <2>3. codes[i] = Blank /\ result[i] = Blank
    BY <1>1, <2>2, UnansweredFacts
  <2>4. Blank \notin {Unknown, SessionGone, TemporaryError}
    BY DEF Blank, Unknown, SessionGone, RetryLogin, TemporaryError
  <2>5. RequestOK(i)'
    BY <1>2, <1>3, <1>4, <2>1, <2>2, BlankFacts DEF RequestOK
  <2>6. CodeOK(i)' /\ ResultOK(i)'
    BY <1>2, <2>2, <2>3, <2>4, BlankFacts DEF CodeOK, ResultOK
  <2> QED
    BY <2>5, <2>6 DEF SignInOK
<1>9. \A j \in SignIns : SignInOK(j)'
  BY <1>7, <1>8
<1> QED
  BY <1>5, <1>9 DEF SignInInv, SignInOK

\* A step that answers request i, and leaves every other sign-in alone.
LEMMA AnsweredOnly ==
    ASSUME SignInInv, NEW i \in SignIns, begun[i] # Blank, answer[i] = Blank,
           NEW a, NEW k,
           answer' = [answer EXCEPT ![i] = a],
           codes' = [codes EXCEPT ![i] = k] \/ (codes' = codes /\ k = Blank),
           asked' = [asked EXCEPT ![i] = Blank] \/ (asked' = asked /\ asked[i] = Blank),
           \/ sso' = sso
           \/ \E b \in Browsers, user \in Logins : sso' = [sso EXCEPT ![b] = [login |-> i, user |-> user]],
           k # Blank => /\ k.fate = "stored" /\ k.session \in SignIns
                        /\ answer[k.session] # Blank \/ k.session = i,
           UNCHANGED <<active, hashes, begun, preAuth, result>>,
           \/ a = Page /\ k = Blank
           \/ a \in ErrorAnswers(i) /\ Registered(a.to) /\ k = Blank
           \/ /\ a \in CodeAnswers(i) /\ Registered(a.to) /\ k \in Codes(i) /\ a.to = k.uri
              /\ k.tenant = MatchRedirectUriTemplate(TemplateOf(k.client), k.uri)
    PROVE  SignInInv'
<1>1. Domains /\ \A j \in SignIns : SignInOK(j)
  BY InvIsOK
<1>2. DOMAIN answer = SignIns /\ DOMAIN codes = SignIns /\ DOMAIN asked = SignIns
  BY <1>1 DEF Domains
<1>3. codes[i] = Blank
  BY <1>1, UnansweredFacts
<1>4. /\ DOMAIN answer' = SignIns /\ answer'[i] = a
      /\ \A j \in SignIns : j # i => answer'[j] = answer[j]
  BY <1>2
<1>5. /\ DOMAIN codes' = SignIns /\ codes'[i] = k
      /\ \A j \in SignIns : j # i => codes'[j] = codes[j]
  BY <1>2, <1>3
<1>6. /\ DOMAIN asked' = SignIns /\ asked'[i] = Blank
      /\ \A j \in SignIns : j # i => asked'[j] = asked[j]
  BY <1>2
<1>7. a # Blank
  BY BlankFacts
<1>8. \A n \in SignIns : answer[n] # Blank => answer'[n] # Blank
  BY <1>4, <1>7
<1>9. /\ DOMAIN sso' = Browsers
      /\ \A b \in Browsers : sso'[b] = sso[b] \/ (sso'[b] \in Sessions /\ sso'[b].login = i)
  <2>1. DOMAIN sso = Browsers
    BY <1>1 DEF Domains
  <2>2. ASSUME NEW b \in Browsers, NEW user \in Logins,
               sso' = [sso EXCEPT ![b] = [login |-> i, user |-> user]]
        PROVE  /\ DOMAIN sso' = Browsers
               /\ \A d \in Browsers : sso'[d] = sso[d] \/ (sso'[d] \in Sessions /\ sso'[d].login = i)
    BY <2>1, <2>2 DEF Sessions
  <2> QED
    BY <2>1, <2>2
<1>10. SessionsFollow
  BY <1>9 DEF SessionsFollow
<1>11. Domains'
  <2>1. \A b \in Browsers : sso'[b] \in Sessions \union {NoSession}
    BY <1>1, <1>9 DEF Domains
  <2>2. ASSUME NEW b \in Browsers, sso'[b] # NoSession PROVE answer'[sso'[b].login] # Blank
    <3>1. CASE sso'[b] = sso[b]
      <4>1. sso[b].login \in SignIns /\ answer[sso[b].login] # Blank
        BY <1>1, <2>2, <3>1 DEF Domains, Sessions
      <4> QED
        BY <1>8, <3>1, <4>1
    <3>2. CASE sso'[b].login = i
      BY <1>4, <1>7, <3>2
    <3> QED
      BY <1>9, <3>1, <3>2
  <2> QED
    BY <1>1, <1>4, <1>5, <1>6, <1>9, <2>1, <2>2 DEF Domains
<1>12. SignInOK(i)'
  <2>1. k # Blank => k.fate = "stored" /\ answer'[k.session] # Blank
    BY <1>4, <1>7, <1>8
  <2> QED
    BY <1>1, <1>4, <1>5, <1>6, <2>1, AnswerKeeps
<1>13. ASSUME NEW j \in SignIns, j # i PROVE SignInOK(j)'
  BY <1>1, <1>4, <1>5, <1>6, <1>13, <1>8, <1>10, OthersKeep
<1>14. \A j \in SignIns : SignInOK(j)'
  BY <1>12, <1>13
<1> QED
  BY <1>11, <1>14 DEF SignInInv, SignInOK

\* The answer to a request that passed the checks, for the user that is signed in.
LEMMA GrantFacts ==
    ASSUME NEW i \in SignIns, NEW q \in ValidQueries(i), NEW session \in Sessions,
           GrantOrDeny(i, q, session)
    PROVE  \E a, k :
             /\ answer' = [answer EXCEPT ![i] = a]
             /\ codes' = [codes EXCEPT ![i] = k] \/ (codes' = codes /\ k = Blank)
             /\ \/ a \in ErrorAnswers(i) /\ Registered(a.to) /\ k = Blank
                \/ /\ a \in CodeAnswers(i) /\ Registered(a.to) /\ k \in Codes(i) /\ a.to = k.uri
                   /\ k.tenant = MatchRedirectUriTemplate(TemplateOf(k.client), k.uri)
                   /\ k.fate = "stored" /\ k.session = session.login
<1> DEFINE m == MatchRedirectUriTemplate(TemplateOf(q.client), q.uri)
<1>1. /\ q.client \in Bffs /\ q.uri \in Seq(Piece) /\ q.state = i /\ q.nonce = i /\ q.challenge = i
      /\ q.scope \in {SupportedScopes, {"email"}, {"openid", "phone"}} /\ m \in Known
  BY DEF ValidQueries
<1>2. Registered(q.uri)
  <2>1. q.client \in Piece /\ m # <<>>
    BY <1>1, ConstantFacts
  <2>2. IsTenantSlug(m) /\ q.uri = Uri(m, q.client)
    BY <1>1, <2>1, MatchIsFaithful, Zenon
  <2> QED
    BY <1>1, <2>2 DEF Registered
<1> HIDE DEF m
<1>3. ASSUME NEW why \in Reasons,
             answer' = [answer EXCEPT ![i] = RedirectError(q, "access_denied", why)], codes' = codes
      PROVE  \E a, k :
               /\ answer' = [answer EXCEPT ![i] = a]
               /\ codes' = [codes EXCEPT ![i] = k] \/ (codes' = codes /\ k = Blank)
               /\ a \in ErrorAnswers(i) /\ Registered(a.to) /\ k = Blank
  <2> DEFINE a == RedirectError(q, "access_denied", why)
  <2>1. a \in ErrorAnswers(i) /\ a.to = q.uri
    BY <1>1, <1>3 DEF RedirectError, ErrorAnswers, Errors
  <2> HIDE DEF a
  <2>2. answer' = [answer EXCEPT ![i] = a]
    BY <1>3 DEF a
  <2> QED
    BY <1>2, <1>3, <2>1, <2>2, Zenon
<1>4. ASSUME codes' = [codes EXCEPT ![i] =
                [client |-> q.client, uri |-> q.uri, nonce |-> q.nonce, challenge |-> q.challenge,
                 user |-> session.user, session |-> session.login, scope |-> q.scope,
                 fate |-> "stored", tenant |-> m]],
             answer' = [answer EXCEPT ![i] = [what |-> "code", to |-> q.uri, state |-> q.state]]
      PROVE  \E a, k :
               /\ answer' = [answer EXCEPT ![i] = a]
               /\ codes' = [codes EXCEPT ![i] = k]
               /\ a \in CodeAnswers(i) /\ Registered(a.to) /\ k \in Codes(i) /\ a.to = k.uri
               /\ k.tenant = MatchRedirectUriTemplate(TemplateOf(k.client), k.uri)
               /\ k.fate = "stored" /\ k.session = session.login
  <2> DEFINE k == [client |-> q.client, uri |-> q.uri, nonce |-> q.nonce, challenge |-> q.challenge,
                   user |-> session.user, session |-> session.login, scope |-> q.scope,
                 fate |-> "stored", tenant |-> m]
             a == [what |-> "code", to |-> q.uri, state |-> q.state]
  <2>1. a \in CodeAnswers(i) /\ a.to = q.uri
    BY <1>1 DEF CodeAnswers
  <2>2. k \in Codes(i)
    BY <1>1 DEF Codes, Fates, Sessions
  <2>3. /\ k.uri = q.uri /\ k.client = q.client /\ k.tenant = m
        /\ k.fate = "stored" /\ k.session = session.login
    OBVIOUS
  <2>4. answer' = [answer EXCEPT ![i] = a] /\ codes' = [codes EXCEPT ![i] = k]
    BY <1>4
  <2> HIDE DEF a, k
  <2>5. k.tenant = MatchRedirectUriTemplate(TemplateOf(k.client), k.uri)
    BY <2>3 DEF m
  <2>6. a.to = k.uri /\ Registered(a.to)
    BY <1>2, <2>1, <2>3
  <2> QED
    BY <2>1, <2>2, <2>3, <2>4, <2>5, <2>6, Zenon
<1>5. \/ \E why \in Reasons :
           answer' = [answer EXCEPT ![i] = RedirectError(q, "access_denied", why)] /\ codes' = codes
      \/ /\ codes' = [codes EXCEPT ![i] =
                [client |-> q.client, uri |-> q.uri, nonce |-> q.nonce, challenge |-> q.challenge,
                 user |-> session.user, session |-> session.login, scope |-> q.scope,
                 fate |-> "stored", tenant |-> m]]
         /\ answer' = [answer EXCEPT ![i] = [what |-> "code", to |-> q.uri, state |-> q.state]]
  BY Zenon DEF GrantOrDeny, m
<1> QED
  BY <1>3, <1>4, <1>5, Zenon

\* /authorize answers with the page, an error, or a code, or waits for a login.
LEMMA AuthorizeKeeps ==
    ASSUME SignInInv, NEW i \in SignIns, begun[i] # Blank, NEW q \in Queries(i), AuthorizeQuery(i, q)
    PROVE  SignInInv'
<1> DEFINE verdict == ValidationError(q)
           session == sso[begun[i].browser]
<1>1. Domains /\ \A j \in SignIns : SignInOK(j)
  BY InvIsOK
<1>2. /\ answer[i] = Blank /\ asked[i] = Blank
      /\ \/ /\ verdict \in {"invalid_client", "invalid_redirect_uri"}
            /\ answer' = [answer EXCEPT ![i] = Page]
            /\ UNCHANGED <<asked, codes, sso>>
         \/ /\ verdict \in {"unsupported_response_type", "invalid_request", "invalid_scope"}
            /\ answer' = [answer EXCEPT ![i] = RedirectError(q, verdict, Missing)]
            /\ UNCHANGED <<asked, codes, sso>>
         \/ /\ verdict = "valid" /\ session = NoSession
            /\ asked' = [asked EXCEPT ![i] = q]
            /\ UNCHANGED <<answer, codes, sso>>
         \/ /\ verdict = "valid" /\ session # NoSession
            /\ GrantOrDeny(i, q, session)
            /\ UNCHANGED <<asked, sso>>
      /\ UNCHANGED <<active, hashes, begun, preAuth, result>>
  BY DEF AuthorizeQuery
<1>3. Begun(begun[i])
  BY <1>1 DEF SignInOK, RequestOK
<1>4. q \in ReadQueries(i)
  BY <1>3, QueriesAreRead
<1>5. active \subseteq Bffs
  BY <1>1 DEF Domains
<1>6. /\ verdict = "valid" => q \in ValidQueries(i)
      /\ verdict \notin {"invalid_client", "invalid_redirect_uri"} => Registered(q.uri)
  BY <1>4, <1>5, ValidationFacts
<1>7. /\ session \in Sessions \union {NoSession}
      /\ session # NoSession => answer[session.login] # Blank
  BY <1>1, <1>3 DEF Domains, Begun
<1> HIDE DEF verdict, session
<1>8. CASE /\ verdict \in {"invalid_client", "invalid_redirect_uri"}
           /\ answer' = [answer EXCEPT ![i] = Page]
           /\ UNCHANGED <<asked, codes, sso>>
  BY <1>2, <1>8, AnsweredOnly
<1>9. CASE /\ verdict \in {"unsupported_response_type", "invalid_request", "invalid_scope"}
           /\ answer' = [answer EXCEPT ![i] = RedirectError(q, verdict, Missing)]
           /\ UNCHANGED <<asked, codes, sso>>
  <2> DEFINE a == RedirectError(q, verdict, Missing)
  <2>1. a \in ErrorAnswers(i) /\ a.to = q.uri
    BY <1>4, <1>9 DEF RedirectError, ErrorAnswers, Errors, ReadQueries
  <2>2. Registered(q.uri)
    BY <1>6, <1>9
  <2>3. answer' = [answer EXCEPT ![i] = a]
    BY <1>9
  <2> HIDE DEF a
  <2>4. Registered(a.to)
    BY <2>1, <2>2
  <2> QED
    BY <1>2, <1>9, <2>1, <2>3, <2>4, AnsweredOnly
<1>10. CASE /\ verdict = "valid" /\ session = NoSession
            /\ asked' = [asked EXCEPT ![i] = q]
            /\ UNCHANGED <<answer, codes, sso>>
  <2>1. Domains'
    BY <1>1, <1>2, <1>10 DEF Domains
  <2>2. asked'[i] = q /\ \A j \in SignIns : j # i => asked'[j] = asked[j]
    BY <1>1, <1>10 DEF Domains
  <2>3. ASSUME NEW j \in SignIns, j # i PROVE SignInOK(j)'
    BY <1>1, <1>2, <1>10, <2>2, <2>3, OthersKeep, Unmoved
  <2>4. SignInOK(i)'
    <3>1. q \in ValidQueries(i)
      BY <1>6, <1>10
    <3>2. RequestOK(i)'
      <4>1. RequestOK(i)
        BY <1>1 DEF SignInOK
      <4> QED
        BY <1>2, <1>10, <2>2, <3>1, <4>1 DEF RequestOK
    <3>3. CodeOK(i)'
      BY <1>1, <1>2, <1>10 DEF SignInOK, CodeOK
    <3>4. ResultOK(i)'
      BY <1>1, <1>2, <1>10 DEF SignInOK, ResultOK, Lives
    <3> QED
      BY <3>2, <3>3, <3>4 DEF SignInOK
  <2>5. \A j \in SignIns : SignInOK(j)'
    BY <2>3, <2>4
  <2> QED
    BY <2>1, <2>5 DEF SignInInv, SignInOK
<1>11. CASE /\ verdict = "valid" /\ session # NoSession
            /\ GrantOrDeny(i, q, session)
            /\ UNCHANGED <<asked, sso>>
  <2>1. q \in ValidQueries(i) /\ session \in Sessions /\ answer[session.login] # Blank
    BY <1>6, <1>7, <1>11
  <2>2. PICK a, k :
             /\ answer' = [answer EXCEPT ![i] = a]
             /\ codes' = [codes EXCEPT ![i] = k] \/ (codes' = codes /\ k = Blank)
             /\ \/ a \in ErrorAnswers(i) /\ Registered(a.to) /\ k = Blank
                \/ /\ a \in CodeAnswers(i) /\ Registered(a.to) /\ k \in Codes(i) /\ a.to = k.uri
                   /\ k.tenant = MatchRedirectUriTemplate(TemplateOf(k.client), k.uri)
                   /\ k.fate = "stored" /\ k.session = session.login
    <3>1. PICK v \in Sessions : v = session
      BY <2>1
    <3>2. GrantOrDeny(i, q, v)
      BY <1>11, <3>1
    <3> QED
      BY <2>1, <3>1, <3>2, GrantFacts, Zenon
  <2>3. k # Blank => /\ k.fate = "stored" /\ k.session \in SignIns
                     /\ answer[k.session] # Blank \/ k.session = i
    BY <2>1, <2>2 DEF Sessions
  <2> QED
    BY <1>2, <1>11, <2>2, <2>3, AnsweredOnly
<1> QED
  BY <1>2, <1>8, <1>9, <1>10, <1>11

\* finish answers the request that waited, which passed the checks when it was asked.
LEMMA FinishKeeps ==
    ASSUME SignInInv, NEW i \in SignIns, NEW user \in Logins, FinishLogin(i, user)
    PROVE  SignInInv'
<1> DEFINE q == asked[i]
           session == [login |-> i, user |-> user]
<1>1. Domains /\ \A j \in SignIns : SignInOK(j)
  BY InvIsOK
<1>2. /\ q # Blank
      /\ sso' = [sso EXCEPT ![begun[i].browser] = session]
      /\ asked' = [asked EXCEPT ![i] = Blank]
      /\ \/ GrantOrDeny(i, q, session)
         \/ /\ answer' = [answer EXCEPT ![i] = RedirectError(q, "invalid_request", Missing)]
            /\ UNCHANGED codes
      /\ UNCHANGED <<active, hashes, begun, preAuth, result>>
  BY DEF FinishLogin
<1>3. q \in ValidQueries(i) /\ answer[i] = Blank /\ begun[i] # Blank /\ Begun(begun[i])
  BY <1>1, <1>2 DEF SignInOK, RequestOK
<1>4. \E b \in Browsers, u \in Logins : sso' = [sso EXCEPT ![b] = [login |-> i, user |-> u]]
  BY <1>2, <1>3 DEF Begun
<1>5. session \in Sessions /\ session.login = i
  BY DEF Sessions
<1> HIDE DEF session
<1>6. CASE GrantOrDeny(i, q, session)
  <2>1. PICK v \in ValidQueries(i) : v = q
    BY <1>3
  <2>2. GrantOrDeny(i, v, session)
    BY <1>6, <2>1
  <2>3. PICK a, k :
             /\ answer' = [answer EXCEPT ![i] = a]
             /\ codes' = [codes EXCEPT ![i] = k] \/ (codes' = codes /\ k = Blank)
             /\ \/ a \in ErrorAnswers(i) /\ Registered(a.to) /\ k = Blank
                \/ /\ a \in CodeAnswers(i) /\ Registered(a.to) /\ k \in Codes(i) /\ a.to = k.uri
                   /\ k.tenant = MatchRedirectUriTemplate(TemplateOf(k.client), k.uri)
                   /\ k.fate = "stored" /\ k.session = i
    <3>1. PICK a, k :
               /\ answer' = [answer EXCEPT ![i] = a]
               /\ codes' = [codes EXCEPT ![i] = k] \/ (codes' = codes /\ k = Blank)
               /\ \/ a \in ErrorAnswers(i) /\ Registered(a.to) /\ k = Blank
                  \/ /\ a \in CodeAnswers(i) /\ Registered(a.to) /\ k \in Codes(i) /\ a.to = k.uri
                     /\ k.tenant = MatchRedirectUriTemplate(TemplateOf(k.client), k.uri)
                     /\ k.fate = "stored" /\ k.session = session.login
      <4>1. session \in Sessions
        BY <1>5
      <4> QED
        BY <2>2, <4>1, GrantFacts, Zenon
    <3>2. k.session = session.login => k.session = i
      BY <1>5
    <3> QED
      BY <3>1, <3>2, Zenon
  <2>4. k # Blank => k.fate = "stored" /\ k.session \in SignIns /\ k.session = i
    BY <2>3
  <2> QED
    BY <1>2, <1>3, <1>4, <2>3, <2>4, AnsweredOnly
<1>7. CASE /\ answer' = [answer EXCEPT ![i] = RedirectError(q, "invalid_request", Missing)]
           /\ UNCHANGED codes
  <2>1. PICK a : a = RedirectError(q, "invalid_request", Missing)
    OBVIOUS
  <2>2. a \in ErrorAnswers(i) /\ a.to = q.uri
    BY <1>3, <2>1 DEF RedirectError, ErrorAnswers, Errors, ValidQueries
  <2>3. Registered(q.uri)
    <3> DEFINE m == MatchRedirectUriTemplate(TemplateOf(q.client), q.uri)
    <3>1. m \in Known /\ q.client \in Bffs /\ q.uri \in Seq(Piece)
      BY <1>3 DEF ValidQueries
    <3>2. q.client \in Piece /\ m # <<>>
      BY <3>1, ConstantFacts
    <3>3. PICK c, uri, slug : c = q.client /\ uri = q.uri /\ slug = m
      OBVIOUS
    <3>4. /\ c \in Piece /\ uri \in Seq(Piece)
          /\ slug = MatchRedirectUriTemplate(TemplateOf(c), uri) /\ slug # <<>>
      BY <3>1, <3>2, <3>3
    <3>5. IsTenantSlug(slug) /\ uri = Uri(slug, c)
      BY <3>3, <3>4, MatchIsFaithful, Zenon
    <3> HIDE DEF m
    <3> QED
      BY <3>1, <3>3, <3>5 DEF Registered
  <2>4. answer' = [answer EXCEPT ![i] = a] /\ Registered(a.to)
    BY <1>7, <2>1, <2>2, <2>3
  <2> QED
    BY <1>2, <1>3, <1>4, <1>7, <2>2, <2>4, AnsweredOnly
<1> QED
  BY <1>2, <1>6, <1>7

\* A client that retires.
LEMMA RetireKeeps ==
    ASSUME SignInInv, NEW c \in Leaving, Retire(c)
    PROVE  SignInInv'
<1>1. Domains /\ \A j \in SignIns : SignInOK(j)
  BY InvIsOK
<1>2. active' \subseteq active
      /\ UNCHANGED <<hashes, sso, begun, preAuth, asked, answer, codes, result>>
  BY DEF Retire
<1>3. Domains'
  BY <1>1, <1>2 DEF Domains
<1>4. \A j \in SignIns : SignInOK(j)'
  BY <1>1, <1>2, OthersKeep, Unmoved
<1> QED
  BY <1>3, <1>4 DEF SignInInv, SignInOK

\* A pre-auth record that runs out leaves fewer sign-ins to complete.
LEMMA PreAuthExpiresKeeps ==
    ASSUME SignInInv, NEW i \in SignIns, PreAuthExpires(i)
    PROVE  SignInInv'
<1>1. Domains /\ \A j \in SignIns : SignInOK(j)
  BY InvIsOK
<1>2. preAuth' \subseteq preAuth
      /\ UNCHANGED <<active, hashes, sso, begun, asked, answer, codes, result>>
  BY DEF PreAuthExpires
<1>3. Domains'
  BY <1>1, <1>2 DEF Domains
<1>4. \A j \in SignIns : SignInOK(j)'
  BY <1>1, <1>2, OthersKeep, Unmoved
<1> QED
  BY <1>3, <1>4 DEF SignInInv, SignInOK

\* A session that ends.
LEMMA SessionEndsKeeps ==
    ASSUME SignInInv, NEW b \in Browsers, SessionEnds(b)
    PROVE  SignInInv'
<1>1. Domains /\ \A j \in SignIns : SignInOK(j)
  BY InvIsOK
<1>2. sso' = [sso EXCEPT ![b] = NoSession]
      /\ UNCHANGED <<active, hashes, begun, preAuth, asked, answer, codes, result>>
  BY DEF SessionEnds
<1>3. /\ DOMAIN sso' = Browsers
      /\ \A d \in Browsers : sso'[d] = sso[d] \/ sso'[d] = NoSession
  BY <1>1, <1>2 DEF Domains
<1>4. Domains'
  BY <1>1, <1>2, <1>3 DEF Domains
<1>5. SessionsFollow
  BY <1>3 DEF SessionsFollow
<1>6. \A j \in SignIns : SignInOK(j)'
  BY <1>1, <1>2, <1>5, OthersKeep
<1> QED
  BY <1>4, <1>6 DEF SignInInv, SignInOK

\* A code that is used, refused or runs out is what it was otherwise.
LEMMA SpentFacts ==
    ASSUME SignInInv, NEW i \in SignIns, codes[i] # Blank, NEW f \in Fates,
           codes' = [codes EXCEPT ![i].fate = f]
    PROVE  /\ DOMAIN codes' = SignIns /\ \A j \in SignIns : j # i => codes'[j] = codes[j]
           /\ codes'[i] \in Codes(i) /\ codes'[i].fate = f
           /\ codes'[i].client = codes[i].client /\ codes'[i].uri = codes[i].uri
           /\ codes'[i].tenant = codes[i].tenant /\ codes'[i].user = codes[i].user
           /\ codes'[i].session = codes[i].session
<1>1. Domains /\ SignInOK(i)
  BY InvIsOK
<1>2. codes[i] \in Codes(i) /\ DOMAIN codes = SignIns
  BY <1>1 DEF Domains, SignInOK, CodeOK
<1>3. PICK k : k = [codes[i] EXCEPT !.fate = f]
  OBVIOUS
<1>4. codes' = [codes EXCEPT ![i] = k]
  BY <1>3
<1>5. /\ k \in Codes(i) /\ k.fate = f /\ k.client = codes[i].client /\ k.uri = codes[i].uri
      /\ k.tenant = codes[i].tenant /\ k.user = codes[i].user
      /\ k.session = codes[i].session
  BY <1>2, <1>3 DEF Codes
<1> QED
  BY <1>2, <1>4, <1>5

\* A code that runs out can only be refused.
LEMMA CodeExpiresKeeps ==
    ASSUME SignInInv, NEW i \in SignIns, CodeExpires(i)
    PROVE  SignInInv'
<1>1. Domains /\ \A j \in SignIns : SignInOK(j)
  BY InvIsOK
<1>2. /\ codes[i] # Blank /\ codes' = [codes EXCEPT ![i].fate = "expired"]
      /\ UNCHANGED <<active, hashes, sso, begun, preAuth, asked, answer, result>>
  BY DEF CodeExpires
<1>3. /\ DOMAIN codes' = SignIns /\ \A j \in SignIns : j # i => codes'[j] = codes[j]
      /\ codes'[i] \in Codes(i) /\ codes'[i].fate = "expired"
      /\ codes'[i].client = codes[i].client /\ codes'[i].uri = codes[i].uri
      /\ codes'[i].tenant = codes[i].tenant /\ codes'[i].user = codes[i].user
      /\ codes'[i].session = codes[i].session
  <2>1. "expired" \in Fates
    BY DEF Fates
  <2> QED
    BY <1>2, <2>1, SpentFacts
<1>4. Domains'
  BY <1>1, <1>2, <1>3 DEF Domains
<1>5. ASSUME NEW j \in SignIns, j # i PROVE SignInOK(j)'
  BY <1>1, <1>2, <1>3, <1>5, OthersKeep, Unmoved
<1>6. RequestOK(i)'
  BY <1>1, <1>2 DEF SignInOK, RequestOK
<1>7. CodeOK(i)'
  <2>1. codes'[i] # Blank
    BY <1>3, BlankFacts
  <2> QED
    BY <1>1, <1>2, <1>3, <2>1 DEF SignInOK, CodeOK
<1>8. ResultOK(i)'
  <2>1. ResultOK(i)
    BY <1>1 DEF SignInOK
  <2>2. (result[i] = TemporaryError => (Secret \notin hashes \/ codes'[i].client \notin active))
    BY <1>3, <2>1 DEF ResultOK
  <2>3. result[i].what = "session" =>
           codes'[i].client = begun[i].at.client /\ result[i].user = codes'[i].user
    BY <1>3, <2>1 DEF ResultOK
  <2>4. result[i] = SessionGone => ~Lives(codes'[i].session)
    BY <1>3, <2>1 DEF ResultOK
  <2>5. codes'[i] # Blank
    BY <1>3, BlankFacts
  <2> QED
    BY <1>2, <1>3, <2>1, <2>2, <2>3, <2>4, <2>5 DEF ResultOK, Lives
<1>9. \A j \in SignIns : SignInOK(j)'
  BY <1>5, <1>6, <1>7, <1>8 DEF SignInOK
<1> QED
  BY <1>4, <1>9 DEF SignInInv, SignInOK

\* The BFF that reads an answer with a code is that of the code's client.
LEMMA ReaderIsClient ==
    ASSUME SignInInv, NEW i \in SignIns, NEW c \in Bffs, codes[i] # Blank,
           ResolveClient(c, HostOf(answer[i].to)) # Unresolved
    PROVE  codes[i].client = c /\ codes[i] \in Codes(i) /\ HostOf(answer[i].to) \in Seq(Piece)
<1>1. CodeOK(i)
  BY DEF SignInInv
<1>2. /\ codes[i] \in Codes(i) /\ answer[i].to = codes[i].uri
      /\ codes[i].tenant = MatchRedirectUriTemplate(TemplateOf(codes[i].client), codes[i].uri)
  BY <1>1 DEF CodeOK
<1>3. codes[i].client \in Bffs /\ codes[i].uri \in Seq(Piece) /\ codes[i].tenant \in Known
  BY <1>2 DEF Codes
<1>4. PICK d, uri, slug : d = codes[i].client /\ uri = codes[i].uri /\ slug = codes[i].tenant
  OBVIOUS
<1>5. /\ d \in Piece /\ d # "A" /\ uri \in Seq(Piece) /\ slug # <<>> /\ c \in Piece
      /\ slug = MatchRedirectUriTemplate(TemplateOf(d), uri)
  BY <1>2, <1>3, <1>4, ConstantFacts
<1>6. slug \in Seq(Piece) /\ uri = Uri(slug, d)
  BY <1>5, MatchIsFaithful, Zenon
<1>7. ResolveClient(c, HostOf(Uri(slug, d))) # Unresolved
  BY <1>2, <1>4, <1>6
<1>8. HostOf(Uri(slug, d)) \in Seq(Piece) /\ c = d
  BY <1>5, <1>6, <1>7, HostNamesClient, Zenon
<1> QED
  BY <1>2, <1>4, <1>6, <1>8

\* What a callback makes of a code whose sign-in it is, when it sends it for the first time.
LEMMA ReceivedFacts ==
    ASSUME NEW i \in SignIns, NEW c \in Bffs, NEW b, NEW at, NEW a, NEW k \in Codes(i), NEW x,
           a.what = "code", Home(at), at.client = c, k.client = c, k.uri = at.redirectUri,
           k.tenant = MatchRedirectUriTemplate(TemplateOf(k.client), k.uri),
           k.fate \in {"stored", "expired"},
           AuthenticateClient(FormHeaders(c)) # Missing =>
               x = ExchangeAuthorizationCode(k, AuthenticateClient(FormHeaders(c)), at.redirectUri, i)
    PROVE  \/ Received(a, k, x, at, b, i) = TemporaryError
              /\ AuthenticateClient(FormHeaders(c)) = Missing /\ (Secret \notin hashes \/ c \notin active)
           \/ Received(a, k, x, at, b, i) = Unknown
              /\ AuthenticateClient(FormHeaders(c)) # Missing /\ k.fate = "expired"
           \/ Received(a, k, x, at, b, i) = SessionGone
              /\ AuthenticateClient(FormHeaders(c)) # Missing /\ ~Lives(k.session)
           \/ /\ Received(a, k, x, at, b, i) =
                   [what |-> "session", at |-> at, browser |-> b, user |-> k.user,
                    tenant |-> k.tenant, to |-> begun[i].returnTo]
              /\ k.tenant = at.slug /\ AuthenticateClient(FormHeaders(c)) # Missing
<1> DEFINE client == AuthenticateClient(FormHeaders(at.client))
           r      == Received(a, k, x, at, b, i)
           token  == IdToken(client, k.user, k.nonce, k.tenant, k.scope)
<1>1. client = IF c \in active /\ Secret \in hashes THEN c ELSE Missing
  BY HeaderAuthenticates
<1>2. c # Missing
  BY ConstantFacts
<1>3. r = IF client = Missing THEN TemporaryError
          ELSE IF x # "ok" THEN RetryLogin(x)
          ELSE IF ~VerifyIdToken(token, at.client, i) THEN RetryLogin("id token")
          ELSE IF k.tenant # at.slug THEN RetryLogin("tenant")
          ELSE [what |-> "session", at |-> at, browser |-> b, user |-> k.user,
                tenant |-> k.tenant, to |-> begun[i].returnTo]
  <2>1. a.what # "error"
    OBVIOUS
  <2> QED
    BY <2>1, Zenon DEF Received
<1>4. ASSUME client # Missing
      PROVE  VerifyIdToken(token, at.client, i) /\ k.tenant = at.slug
  <2>1. client = c
    BY <1>1, <1>2, <1>4
  <2>2. k.tenant = at.slug
    BY <2>1, HomeMatches
  <2>3. token.aud = <<ClientIdOf(c)>> /\ token.nonce = i
    BY <2>1 DEF IdToken, Codes
  <2>4. VerifyIdToken(token, at.client, i)
    <3> HIDE DEF token
    <3> DEFINE own == ClientIdOf(c)
    <3>1. token.aud = <<own>>
      BY <2>3
    <3> HIDE DEF own
    <3>2. 1 \in DOMAIN token.aud /\ token.aud[1] = own
      BY <3>1
    <3> QED
      BY <2>3, <3>2 DEF VerifyIdToken, VerifyJwt, own
  <2> QED
    BY <2>2, <2>4
<1>5. client = AuthenticateClient(FormHeaders(c))
  OBVIOUS
<1>6. ASSUME client # Missing
      PROVE  x = IF k.fate = "expired" THEN "code_unknown_or_expired"
                 ELSE IF ~Lives(k.session) THEN "sso_session_expired" ELSE "ok"
  <2>1. client = c /\ k.challenge = i
    BY <1>1, <1>2, <1>6 DEF Codes
  <2>2. ValidateCodeBinding(k, client, at.redirectUri, i) = "ok"
    BY <2>1 DEF ValidateCodeBinding
  <2>3. x = ExchangeAuthorizationCode(k, client, at.redirectUri, i)
    BY <1>5, <1>6
  <2> HIDE DEF client
  <2> QED
    BY <2>2, <2>3 DEF ExchangeAuthorizationCode
<1> HIDE DEF token, r, client
<1>7. CASE client = Missing
  <2>1. Secret \notin hashes \/ c \notin active
    BY <1>1, <1>2, <1>7
  <2>2. r = TemporaryError
    BY <1>3, <1>7
  <2> QED
    BY <1>5, <1>7, <2>1, <2>2 DEF r
<1>8. CASE client # Missing /\ k.fate = "expired"
  <2>1. r = RetryLogin("code_unknown_or_expired")
    BY <1>3, <1>8, <1>6
  <2> QED
    BY <1>5, <1>8, <2>1 DEF r, Unknown
<1>9. CASE client # Missing /\ k.fate # "expired" /\ ~Lives(k.session)
  <2>1. r = RetryLogin("sso_session_expired")
    BY <1>3, <1>9, <1>6
  <2> QED
    BY <1>5, <1>9, <2>1 DEF r, SessionGone
<1>10. CASE client # Missing /\ k.fate # "expired" /\ Lives(k.session)
  <2>1. x = "ok" /\ VerifyIdToken(token, at.client, i) /\ k.tenant = at.slug
    BY <1>4, <1>6, <1>10
  <2>2. r = [what |-> "session", at |-> at, browser |-> b, user |-> k.user,
             tenant |-> k.tenant, to |-> begun[i].returnTo]
    BY <1>3, <1>10, <2>1, Zenon
  <2> QED
    BY <1>5, <1>10, <2>1, <2>2 DEF r
<1> QED
  BY <1>7, <1>8, <1>9, <1>10

\* A code a callback reads belongs to the host that reads it.
LEMMA ReaderIsHome ==
    ASSUME SignInInv, NEW i \in SignIns, NEW c \in Bffs, codes[i] # Blank, NEW at,
           at = ResolveClient(c, HostOf(answer[i].to)), at # Unresolved
    PROVE  codes[i].uri = at.redirectUri
<1>1. CodeOK(i)
  BY DEF SignInInv
<1>2. /\ codes[i] \in Codes(i) /\ answer[i].to = codes[i].uri /\ codes[i].client = c
      /\ codes[i].tenant = MatchRedirectUriTemplate(TemplateOf(codes[i].client), codes[i].uri)
  BY <1>1, ReaderIsClient DEF CodeOK
<1>3. codes[i].uri \in Seq(Piece) /\ codes[i].tenant \in Known
  BY <1>2 DEF Codes
<1>4. PICK uri, slug : uri = codes[i].uri /\ slug = codes[i].tenant
  OBVIOUS
<1>5. /\ c \in Piece /\ c # "A" /\ uri \in Seq(Piece) /\ slug # <<>>
      /\ slug = MatchRedirectUriTemplate(TemplateOf(c), uri)
  BY <1>2, <1>3, <1>4, ConstantFacts
<1>6. slug \in Seq(Piece) /\ IsTenantSlug(slug) /\ uri = Uri(slug, c)
  BY <1>5, MatchIsFaithful, Zenon
<1>7. at = ResolveClient(c, HostOf(Uri(slug, c)))
  BY <1>2, <1>4, <1>6
<1>8. at.redirectUri = Uri(slug, c)
  BY <1>5, <1>6, <1>7, RedirectUriComesBack, Zenon
<1> QED
  BY <1>4, <1>6, <1>8

\* /auth/callback: an answer of another sign-in changes nothing but the pre-auth record; its own
\* ends as ReceivedFacts says.
LEMMA CallbackKeeps ==
    ASSUME SignInInv, NEW i \in SignIns, NEW b \in Browsers, NEW c \in Bffs, answer[i] # Blank,
           Callback(i, b, c)
    PROVE  SignInInv'
<1> DEFINE at   == ResolveClient(c, HostOf(answer[i].to))
           mine == {j \in preAuth : begun[j].browser = b /\ begun[j].at = at}
           client == AuthenticateClient(FormHeaders(c))
           sent == answer[i].what = "code" /\ client # Missing
           exchanged(j) == IF sent THEN ExchangeAuthorizationCode(codes[i], client, at.redirectUri, j)
                           ELSE "not sent"
<1>1. Domains /\ \A j \in SignIns : SignInOK(j)
  BY InvIsOK
<1>2. /\ answer[i].what \in {"error", "code"} /\ at # Unresolved
      /\ preAuth' = preAuth \ mine
      /\ \E j \in mine :
           IF answer[i].state # j
           THEN UNCHANGED <<codes, result>>
           ELSE /\ result' = [result EXCEPT ![i] = Received(answer[i], codes[i], exchanged(j), at, b, j)]
                /\ codes' = IF sent THEN [codes EXCEPT ![i].fate = FateOf(codes[i], exchanged(j))]
                            ELSE codes
      /\ UNCHANGED <<active, hashes, sso, begun, asked, answer>>
  BY Zenon DEF Callback
<1> HIDE DEF at, exchanged, sent, client
<1>3. PICK j \in mine :
           IF answer[i].state # j
           THEN UNCHANGED <<codes, result>>
           ELSE /\ result' = [result EXCEPT ![i] = Received(answer[i], codes[i], exchanged(j), at, b, j)]
                /\ codes' = IF sent THEN [codes EXCEPT ![i].fate = FateOf(codes[i], exchanged(j))]
                            ELSE codes
  BY <1>2
<1>4. j \in preAuth /\ begun[j].browser = b /\ begun[j].at = at /\ preAuth' \subseteq preAuth
  BY <1>2
<1> HIDE DEF mine
<1>5. CASE answer[i].state # j
  <2>1. UNCHANGED <<codes, result>>
    BY <1>3, <1>5
  <2>2. Domains'
    BY <1>1, <1>2, <1>4, <2>1 DEF Domains
  <2>3. \A n \in SignIns : SignInOK(n)'
    BY <1>1, <1>2, <1>4, <2>1, OthersKeep, Unmoved
  <2> QED
    BY <2>2, <2>3 DEF SignInInv, SignInOK
<1>6. CASE answer[i].state = j
  <2>1. j = i
    <3>1. j \in SignIns
      BY <1>1, <1>4 DEF Domains
    <3>2. answer[i] \in ErrorAnswers(i) \union CodeAnswers(i)
      BY <1>1, <1>2, BlankFacts DEF SignInOK, RequestOK
    <3>3. answer[i].state \in {i, Unset}
      BY <3>2 DEF ErrorAnswers, CodeAnswers
    <3> QED
      BY <1>6, <3>1, <3>3, ConstantFacts
  <2>2. i \in preAuth /\ begun[i].browser = b /\ begun[i].at = at
    BY <1>4, <2>1
  <2>3. Begun(begun[i]) /\ begun[i] # Blank
    BY <1>1, <2>2 DEF SignInOK, RequestOK
  <2>4. Home(at) /\ StaysOnHost(begun[i].returnTo)
    BY <2>2, <2>3 DEF Begun
  <2>5. PICK x : x = exchanged(i)
    OBVIOUS
  <2>6. PICK r : r = Received(answer[i], codes[i], x, at, b, i)
    OBVIOUS
  <2>7. result' = [result EXCEPT ![i] = r]
    BY <1>3, <1>6, <2>1, <2>6, <2>5
  <2>8. /\ DOMAIN result' = SignIns /\ result'[i] = r
        /\ \A n \in SignIns : n # i => result'[n] = result[n]
    BY <1>1, <2>7 DEF Domains
  <2>9. codes' = IF sent THEN [codes EXCEPT ![i].fate = FateOf(codes[i], x)] ELSE codes
    BY <1>3, <1>6, <2>1, <2>5, Zenon
  <2>10. RequestOK(i)'
    BY <1>1, <1>2, <1>4 DEF SignInOK, RequestOK
  <2>11. CodeOK(i) /\ ResultOK(i)
    BY <1>1 DEF SignInOK
  <2>12. CASE answer[i].what = "error"
    <3>1. codes' = codes
      BY <2>9, <2>12 DEF sent
    <3>2. r = RenderAuthorizationError(answer[i])
      BY <2>6, <2>12, Zenon DEF Received
    <3>3. r.what \in {"failed", "not_contracted", "tenant_suspended", "no access"}
      BY <3>2, ResultKinds
    <3>4. /\ r.what # "session"
          /\ r.what # "retry" /\ r \notin {Unknown, SessionGone, TemporaryError}
      BY <3>3, ResultKinds DEF Unknown, SessionGone
    <3>5. ResultOK(i)'
      BY <1>2, <2>8, <3>4 DEF ResultOK
    <3>6. CodeOK(i)'
      BY <1>2, <2>11, <3>1 DEF CodeOK
    <3>7. Domains'
      BY <1>1, <1>2, <1>4, <2>8, <3>1 DEF Domains
    <3>8. ASSUME NEW n \in SignIns, n # i PROVE SignInOK(n)'
      BY <1>1, <1>2, <1>4, <2>8, <3>1, <3>8, OthersKeep, Unmoved
    <3>9. \A n \in SignIns : SignInOK(n)'
      BY <2>10, <3>5, <3>6, <3>8 DEF SignInOK
    <3> QED
      BY <3>7, <3>9 DEF SignInInv, SignInOK
  <2>13. CASE answer[i].what = "code"
    <3>1. codes[i] # Blank
      BY <2>11, <2>13 DEF CodeOK
    <3>2. codes[i].client = c /\ codes[i] \in Codes(i) /\ HostOf(answer[i].to) \in Seq(Piece)
      BY <1>2, <3>1, ReaderIsClient DEF at
    <3>3. at.client = c
      BY <1>2, <3>2, ResolvedIsHome DEF at
    <3>4. codes[i].tenant = MatchRedirectUriTemplate(TemplateOf(codes[i].client), codes[i].uri)
      BY <2>11, <3>1 DEF CodeOK
    <3>5. PICK k \in Codes(i) : k = codes[i]
      BY <3>2
    <3>6. PICK a, h : a = answer[i] /\ h = at
      OBVIOUS
    <3>7. /\ a.what = "code" /\ Home(h) /\ h.client = c /\ k.client = c
          /\ k.tenant = MatchRedirectUriTemplate(TemplateOf(k.client), k.uri)
      BY <2>4, <2>13, <3>2, <3>3, <3>4, <3>5, <3>6
    <3>8. r = Received(a, k, x, h, b, i)
      BY <2>6, <3>5, <3>6
    <3>9. k.uri = h.redirectUri
      BY <1>2, <3>1, <3>5, <3>6, ReaderIsHome DEF at
    <3>10. k.fate \in {"stored", "expired"}
      BY <2>2, <2>11, <3>1, <3>5 DEF CodeOK
    <3>11. client # Missing => x = ExchangeAuthorizationCode(k, client, h.redirectUri, i)
      BY <2>13, <2>5, <3>5, <3>6, Zenon DEF exchanged, sent
    <3>12. \/ r = TemporaryError /\ client = Missing /\ (Secret \notin hashes \/ c \notin active)
           \/ r = Unknown /\ client # Missing /\ k.fate = "expired"
           \/ r = SessionGone /\ client # Missing /\ ~Lives(k.session)
           \/ /\ r = [what |-> "session", at |-> h, browser |-> b, user |-> k.user,
                      tenant |-> k.tenant, to |-> begun[i].returnTo]
              /\ k.tenant = h.slug /\ client # Missing
      <4>1. \/ /\ Received(a, k, x, h, b, i) = TemporaryError
               /\ client = Missing /\ (Secret \notin hashes \/ c \notin active)
            \/ Received(a, k, x, h, b, i) = Unknown /\ client # Missing /\ k.fate = "expired"
            \/ Received(a, k, x, h, b, i) = SessionGone /\ client # Missing /\ ~Lives(k.session)
            \/ /\ Received(a, k, x, h, b, i) =
                    [what |-> "session", at |-> h, browser |-> b, user |-> k.user,
                     tenant |-> k.tenant, to |-> begun[i].returnTo]
               /\ k.tenant = h.slug /\ client # Missing
        BY <3>7, <3>9, <3>10, <3>11, ReceivedFacts DEF client
      <4> QED
        BY <3>8, <4>1, Zenon
    <3>13. CASE r = TemporaryError /\ client = Missing /\ (Secret \notin hashes \/ c \notin active)
      <4>1. codes' = codes
        BY <2>9, <3>13 DEF sent
      <4>2. /\ r.what # "session" /\ r.what # "retry" /\ r \notin {Unknown, SessionGone}
        BY <3>13, ResultKinds DEF Unknown, SessionGone
      <4>3. Secret \notin hashes \/ codes[i].client \notin active
        BY <3>2, <3>13
      <4>4. ResultOK(i)'
        BY <1>2, <2>8, <4>1, <4>2, <4>3 DEF ResultOK
      <4>5. CodeOK(i)'
        BY <1>2, <1>4, <2>11, <4>1 DEF CodeOK
      <4>6. Domains'
        BY <1>1, <1>2, <1>4, <2>8, <4>1 DEF Domains
      <4>7. ASSUME NEW n \in SignIns, n # i PROVE SignInOK(n)'
        BY <1>1, <1>2, <1>4, <2>8, <4>1, <4>7, OthersKeep, Unmoved
      <4>8. \A n \in SignIns : SignInOK(n)'
        BY <2>10, <4>4, <4>5, <4>7 DEF SignInOK
      <4> QED
        BY <4>6, <4>8 DEF SignInInv, SignInOK
    <3>14. CASE \/ r = Unknown /\ client # Missing /\ k.fate = "expired"
                \/ r = SessionGone /\ client # Missing /\ ~Lives(k.session)
                \/ /\ r = [what |-> "session", at |-> h, browser |-> b, user |-> k.user,
                           tenant |-> k.tenant, to |-> begun[i].returnTo]
                   /\ k.tenant = h.slug /\ client # Missing
      <4> DEFINE f == FateOf(codes[i], x)
      <4>1. codes' = [codes EXCEPT ![i].fate = f]
        BY <2>9, <2>13, <3>14 DEF sent
      <4>2. f \in Fates /\ (k.fate = "expired" => f = "expired")
        BY <3>5, <3>10 DEF FateOf, Fates
      <4> HIDE DEF f
      <4>3. /\ DOMAIN codes' = SignIns /\ \A n \in SignIns : n # i => codes'[n] = codes[n]
            /\ codes'[i] \in Codes(i) /\ codes'[i].fate = f
            /\ codes'[i].client = codes[i].client /\ codes'[i].uri = codes[i].uri
            /\ codes'[i].tenant = codes[i].tenant /\ codes'[i].user = codes[i].user
            /\ codes'[i].session = codes[i].session
        BY <3>1, <4>1, <4>2, SpentFacts
      <4>4. codes'[i] # Blank
        BY <4>3, BlankFacts
      <4>5. Unknown # SessionGone /\ Unknown.what = "retry" /\ SessionGone.what = "retry"
            /\ TemporaryError.what = "temporary"
        BY ResultKinds DEF Unknown, SessionGone
      <4>6. ASSUME r = [what |-> "session", at |-> h, browser |-> b, user |-> k.user,
                        tenant |-> k.tenant, to |-> begun[i].returnTo],
                   k.tenant = h.slug
            PROVE  /\ r.what = "session" /\ r.browser = begun[i].browser /\ r.at = begun[i].at
                   /\ r.tenant = begun[i].at.slug /\ r.tenant \in Known
                   /\ codes[i].client = begun[i].at.client /\ r.user = codes[i].user
                   /\ StaysOnHost(r.to)
        <5>1. /\ r.what = "session" /\ r.browser = b /\ r.at = h /\ r.tenant = k.tenant
              /\ r.user = k.user /\ r.to = begun[i].returnTo
          BY <4>6
        <5>2. k.tenant \in Known
          BY DEF Codes
        <5> QED
          BY <2>2, <2>4, <3>2, <3>3, <3>5, <3>6, <4>6, <5>1, <5>2
      <4>7. r = Unknown \/ r = SessionGone \/ r.what = "session"
        BY <3>14, <4>6, Zenon
      <4>8. r.what = "session" =>
              /\ r.browser = begun[i].browser /\ r.at = begun[i].at
              /\ r.tenant = begun[i].at.slug /\ r.tenant \in Known
              /\ codes[i].client = begun[i].at.client /\ r.user = codes[i].user
              /\ StaysOnHost(r.to)
        <5>1. CASE r \in {Unknown, SessionGone}
          BY <4>5, <5>1
        <5>2. CASE /\ r = [what |-> "session", at |-> h, browser |-> b, user |-> k.user,
                           tenant |-> k.tenant, to |-> begun[i].returnTo]
                   /\ k.tenant = h.slug
          BY <4>6, <5>2
        <5> QED
          BY <3>14, <5>1, <5>2
      <4>9. /\ r = Unknown => k.fate = "expired"
            /\ r = SessionGone => ~Lives(k.session)
        <5>1. CASE r.what = "session"
          BY <4>5, <5>1
        <5>2. CASE r = Unknown /\ k.fate = "expired"
          BY <4>5, <5>2
        <5>3. CASE r = SessionGone /\ ~Lives(k.session)
          BY <4>5, <5>3
        <5> QED
          BY <3>14, <4>6, <5>1, <5>2, <5>3, Zenon
      <4>10. r = SessionGone => ~Lives(codes[i].session)'
        BY <1>2, <3>5, <4>3, <4>9 DEF Lives
      <4>11. ResultOK(i)'
        <5>1. answer[i] # Blank
          OBVIOUS
        <5>2. r # TemporaryError /\ (r.what = "retry" => r \in {Unknown, SessionGone})
          BY <4>7, <4>5
        <5>3. r = Unknown => codes'[i].fate = "expired"
          BY <4>3, <4>2, <4>9
        <5> QED
          BY <1>2, <2>8, <4>3, <4>8, <4>4, <4>10, <5>1, <5>2, <5>3 DEF ResultOK
      <4>12. CodeOK(i)'
        <5>1. i \notin preAuth'
          BY <1>2, <2>2 DEF mine
        <5> QED
          BY <1>2, <2>11, <2>13, <3>1, <4>3, <4>4, <5>1 DEF CodeOK
      <4>13. Domains'
        BY <1>1, <1>2, <1>4, <2>8, <4>3 DEF Domains
      <4>14. ASSUME NEW n \in SignIns, n # i PROVE SignInOK(n)'
        BY <1>1, <1>2, <1>4, <2>8, <4>3, <4>14, OthersKeep, Unmoved
      <4>15. \A n \in SignIns : SignInOK(n)'
        BY <2>10, <4>11, <4>12, <4>14 DEF SignInOK
      <4> QED
        BY <4>13, <4>15 DEF SignInInv, SignInOK
    <3> QED
      BY <3>12, <3>13, <3>14
  <2> QED
    BY <1>2, <2>12, <2>13
<1> QED
  BY <1>5, <1>6

\* Every step keeps the invariant.
LEMMA StepHolds == SignInInv /\ [SignInNext]_signInVars => SignInInv'
<1> SUFFICES ASSUME SignInInv, [SignInNext]_signInVars PROVE SignInInv'
  OBVIOUS
<1>1. ASSUME NEW i \in SignIns, NEW b \in Browsers, NEW c \in Bffs, NEW host \in Hosts,
             NEW v \in IF i \in Altered THEN ReturnTexts ELSE {<<>>}, BeginSignIn(i, b, c, host, v)
      PROVE  SignInInv'
  <2>1. v \in ReturnTexts \union {<<>>}
    OBVIOUS
  <2>2. PICK text \in ReturnTexts \union {<<>>} : text = v
    BY <2>1
  <2>3. BeginSignIn(i, b, c, host, text)
    BY <1>1, <2>2
  <2> QED
    BY <2>3, BeginKeeps
<1>2. ASSUME NEW i \in SignIns, begun[i] # Blank, NEW q \in Queries(i), AuthorizeQuery(i, q)
      PROVE  SignInInv'
  BY <1>2, AuthorizeKeeps
<1>3. ASSUME NEW i \in SignIns, NEW user \in Logins, FinishLogin(i, user) PROVE SignInInv'
  BY <1>3, FinishKeeps
<1>4. ASSUME NEW i \in SignIns, NEW b \in Browsers, NEW c \in Bffs, answer[i] # Blank, Callback(i, b, c)
      PROVE  SignInInv'
  BY <1>4, CallbackKeeps
<1>5. ASSUME NEW c \in Leaving, Retire(c) PROVE SignInInv'
  BY <1>5, RetireKeeps
<1>6. ASSUME NEW b \in Browsers, SessionEnds(b) PROVE SignInInv'
  BY <1>6, SessionEndsKeeps
<1>7. ASSUME NEW i \in SignIns, PreAuthExpires(i) PROVE SignInInv'
  BY <1>7, PreAuthExpiresKeeps
<1>8. ASSUME NEW i \in SignIns, CodeExpires(i) PROVE SignInInv'
  BY <1>8, CodeExpiresKeeps
<1>9. ASSUME UNCHANGED signInVars PROVE SignInInv'
  <2>1. Domains /\ \A j \in SignIns : SignInOK(j)
    BY InvIsOK
  <2>2. UNCHANGED <<active, hashes, sso, begun, preAuth, asked, answer, codes, result>>
    BY <1>9 DEF signInVars
  <2>3. Domains'
    BY <2>1, <2>2 DEF Domains
  <2>4. \A j \in SignIns : SignInOK(j)'
    BY <2>1, <2>2, OthersKeep, Unmoved
  <2> QED
    BY <2>3, <2>4 DEF SignInInv, SignInOK
<1>10. ASSUME SignInNext PROVE SignInInv'
  BY <1>1, <1>2, <1>3, <1>4, <1>5, <1>7, <1>8, <1>10, <1>6 DEF SignInNext
<1> QED
  BY <1>9, <1>10

-----------------------------------------------------------------------------
(* What the invariant implies.                                             *)

\* Answers go to registered callbacks.
LEMMA RegisteredAnswers == SignInInv => AnswersAreRegistered
<1> SUFFICES ASSUME SignInInv, NEW i \in SignIns, answer[i].what \in {"error", "code"}
             PROVE  \E c \in Bffs, slug \in Known :
                       answer[i].to = ExpandRedirectUriTemplate(TemplateOf(c), slug)
  BY DEF AnswersAreRegistered
<1>1. Registered(answer[i].to)
  BY DEF SignInInv, RequestOK
<1>2. PICK c \in Bffs, slug \in Known : answer[i].to = Uri(slug, c)
  BY <1>1 DEF Registered
<1>3. c \in Piece /\ slug \in Seq(Piece)
  BY ConstantFacts
<1>4. ExpandRedirectUriTemplate(TemplateOf(c), slug) = Uri(slug, c)
  BY <1>3, ExpandFacts, Zenon
<1> QED
  BY <1>2, <1>4

\* What /auth/login asks for on a known tenant's host passes validateAuthorizationRequest.
LEMMA ServedHosts == SignInInv => ServedHostsSignIn
<1> SUFFICES ASSUME SignInInv, NEW i \in SignIns, begun[i] # Blank,
                    begun[i].at.slug \in Known, begun[i].at.client \in active
             PROVE  ValidationError(ProperQuery(i)) = "valid"
  BY DEF ServedHostsSignIn
<1> DEFINE q == ProperQuery(i)
<1>1. Home(begun[i].at)
  BY DEF SignInInv, RequestOK, Begun
<1>2. /\ q.client = begun[i].at.client /\ q.uri = begun[i].at.redirectUri
      /\ q.response = "code" /\ q.state = i /\ q.nonce = i /\ q.method = "S256" /\ q.challenge = i
      /\ q.scope = SupportedScopes
  BY DEF ProperQuery
<1>3. MatchRedirectUriTemplate(TemplateOf(q.client), q.uri) = begun[i].at.slug
  BY <1>1, <1>2, HomeMatches
<1>4. i # Unset
  BY ConstantFacts
<1>5. "openid" \in q.scope /\ q.scope \subseteq SupportedScopes \intersect AllowedScopes(q.client)
  BY <1>2 DEF SupportedScopes, AllowedScopes
<1> HIDE DEF q
<1>6. ValidationError(q) = "valid"
  BY <1>2, <1>3, <1>4, <1>5 DEF ValidationError
<1> QED
  BY <1>6 DEF q

\* Client ids, audiences and the issuer are told apart.
LEMMA AudiencesDiffer ==
    /\ \A c, d : ClientIdOf(c) = ClientIdOf(d) <=> c = d
    /\ \A c, d : AudienceOf(c) = AudienceOf(d) <=> c = d
    /\ \A c, d : ClientIdOf(c) # AudienceOf(d)
    /\ \A c : ClientIdOf(c) # Issuer /\ AudienceOf(c) # Issuer
    /\ \A c : ClientIdOf(c) # <<>> /\ AudienceOf(c) # <<>> /\ Issuer # <<>>
  BY DEF ClientIdOf, AudienceOf, Issuer

\* verifyJwt with an audience, for a token with one.
LEMMA OneAudience ==
    ASSUME NEW token, NEW a, NEW b, token.aud = <<a>>, b # <<>>
    PROVE  (VerifyJwt(token, b) <=> a = b) /\ token.aud[1] = a
<1>1. DOMAIN token.aud = {1} /\ token.aud[1] = a
  OBVIOUS
<1> QED
  BY <1>1 DEF VerifyJwt

\* verifyJwt with an audience, for a token with two.
LEMMA TwoAudiences ==
    ASSUME NEW token, NEW a, NEW b, NEW c, token.aud = <<a, b>>, c # <<>>
    PROVE  (VerifyJwt(token, c) <=> (a = c \/ b = c)) /\ token.aud[1] = a
<1>1. DOMAIN token.aud = {1, 2} /\ token.aud[1] = a /\ token.aud[2] = b
  OBVIOUS
<1> QED
  BY <1>1 DEF VerifyJwt

\* Each door takes the tokens meant for it (verifyIdToken, verifyLogoutToken, verifyAccessToken).
LEMMA Doors == SignInInv => DoorsKeepApart
<1> SUFFICES ASSUME SignInInv, NEW i \in SignIns, NEW c \in Bffs, codes[i] # Blank,
                    NEW token \in IssuedFor(codes[i])
             PROVE  /\ BackchannelAccepts(token, c) <=> (token.kind = "logout" /\ token.meant = c)
                    /\ ApiAccepts(token, c) <=> (token.kind = "access" /\ token.meant = c)
                    /\ UserinfoAccepts(token) <=> token.kind = "access"
                    /\ \A n \in SignIns :
                          VerifyIdToken(token, c, n) <=>
                             ((token.kind = "id" /\ token.meant = c) /\ token.nonce = n)
  BY DEF DoorsKeepApart
<1> DEFINE k == codes[i]
<1>1. k \in Codes(i)
  BY DEF SignInInv, CodeOK
<1>2. /\ k.client \in Bffs /\ k.user \in Logins /\ k.tenant \in Known
      /\ k.user # Missing /\ k.client # Missing /\ k.tenant # <<>>
  BY <1>1, ConstantFacts DEF Codes
<1>3. \A n \in SignIns : n # Unset
  BY ConstantFacts
<1> HIDE DEF k
<1>4. ASSUME NEW nonce, token = IdToken(k.client, k.user, nonce, k.tenant, k.scope)
      PROVE  /\ BackchannelAccepts(token, c) <=> (token.kind = "logout" /\ token.meant = c)
             /\ ApiAccepts(token, c) <=> (token.kind = "access" /\ token.meant = c)
             /\ UserinfoAccepts(token) <=> token.kind = "access"
             /\ \A n \in SignIns :
                   VerifyIdToken(token, c, n) <=>
                      ((token.kind = "id" /\ token.meant = c) /\ token.nonce = n)
  <2>1. /\ token.kind = "id" /\ token.meant = k.client /\ token.aud = <<ClientIdOf(k.client)>>
        /\ token.events = FALSE
    BY <1>4 DEF IdToken
  <2>2. ~BackchannelAccepts(token, c)
    BY <2>1 DEF BackchannelAccepts, VerifyLogoutToken
  <2>3. ~VerifyJwt(token, AudienceOf(c)) /\ ~VerifyJwt(token, Issuer)
        /\ (VerifyJwt(token, ClientIdOf(c)) <=> k.client = c)
    BY <2>1, AudiencesDiffer, OneAudience
  <2> QED
    BY <2>1, <2>2, <2>3 DEF ApiAccepts, UserinfoAccepts, VerifyIdToken
<1>5. ASSUME token = AccessToken(k.client, k.user, k.tenant)
      PROVE  /\ BackchannelAccepts(token, c) <=> (token.kind = "logout" /\ token.meant = c)
             /\ ApiAccepts(token, c) <=> (token.kind = "access" /\ token.meant = c)
             /\ UserinfoAccepts(token) <=> token.kind = "access"
             /\ \A n \in SignIns :
                   VerifyIdToken(token, c, n) <=>
                      ((token.kind = "id" /\ token.meant = c) /\ token.nonce = n)
  <2>1. /\ token.kind = "access" /\ token.meant = k.client
        /\ token.aud = <<AudienceOf(k.client), Issuer>> /\ token.events = FALSE
        /\ token.tenant = k.tenant /\ token.sid = k.user /\ token.client_id = k.client
    BY <1>5 DEF AccessToken
  <2>2. ~BackchannelAccepts(token, c)
    BY <2>1 DEF BackchannelAccepts, VerifyLogoutToken
  <2>3. ~VerifyJwt(token, ClientIdOf(c)) /\ VerifyJwt(token, Issuer)
        /\ (VerifyJwt(token, AudienceOf(c)) <=> k.client = c)
    BY <2>1, AudiencesDiffer, TwoAudiences
  <2> QED
    BY <1>2, <2>1, <2>2, <2>3 DEF ApiAccepts, UserinfoAccepts, VerifyIdToken
<1>6. ASSUME token = LogoutToken(k.client, k.user)
      PROVE  /\ BackchannelAccepts(token, c) <=> (token.kind = "logout" /\ token.meant = c)
             /\ ApiAccepts(token, c) <=> (token.kind = "access" /\ token.meant = c)
             /\ UserinfoAccepts(token) <=> token.kind = "access"
             /\ \A n \in SignIns :
                   VerifyIdToken(token, c, n) <=>
                      ((token.kind = "id" /\ token.meant = c) /\ token.nonce = n)
  <2>1. /\ token.kind = "logout" /\ token.meant = k.client
        /\ token.aud = <<ClientIdOf(k.client)>> /\ token.events = TRUE
        /\ token.nonce = Unset /\ token.sid = k.user
    BY <1>6 DEF LogoutToken
  <2>2. ~VerifyJwt(token, AudienceOf(c)) /\ ~VerifyJwt(token, Issuer)
        /\ token.aud[1] = ClientIdOf(k.client)
    BY <2>1, AudiencesDiffer, OneAudience
  <2>3. VerifyLogoutToken(token)
    BY <1>2, <2>1 DEF VerifyLogoutToken, VerifyJwt
  <2>4. BackchannelAccepts(token, c) <=> k.client = c
    BY <2>2, <2>3, AudiencesDiffer DEF BackchannelAccepts
  <2>5. \A n \in SignIns : token.nonce # n
    BY <1>3, <2>1
  <2> QED
    BY <2>1, <2>2, <2>4, <2>5 DEF ApiAccepts, UserinfoAccepts, VerifyIdToken
<1>7. \/ \E nonce : token = IdToken(k.client, k.user, nonce, k.tenant, k.scope)
      \/ token = AccessToken(k.client, k.user, k.tenant)
      \/ token = LogoutToken(k.client, k.user)
  BY DEF IssuedFor, k
<1> QED
  BY <1>4, <1>5, <1>6, <1>7

\* In every state: requests that wait passed validateAuthorizationRequest, answers go to
\* registered callbacks, codes carry what their request asked for and the tenant of its
\* redirect_uri, and the callback ends as the checks before it promise.
THEOREM SignInInvariance == SignInSpec => []SignInInv
  BY InitHolds, StepHolds, PTL DEF SignInSpec

\* For any services, tenants, hosts, users, browsers and secrets: a sign-in that begins on a
\* tenant's host ends there or nowhere.  matchRedirectUriTemplate, resolveClient,
\* validateCodeBinding, the claims of the tokens and sanitizeReturnTo agree on the tenant, the
\* service and the browser, whatever was altered, mixed up, expired or retired on the way.
THEOREM SignInStaysAlways == SignInSpec => []SignInStaysInItsTenant
<1>1. SignInInv => SignInStaysInItsTenant
  <2> SUFFICES ASSUME SignInInv PROVE SignInStaysInItsTenant
    OBVIOUS
  <2>1. SessionsStayHome /\ LaterChecksAgree
    BY DEF SignInInv, ResultOK, SessionsStayHome, LaterChecksAgree, Unknown, SessionGone
  <2> QED
    BY <2>1, RegisteredAnswers, ServedHosts, Doors DEF SignInStaysInItsTenant
<1> QED
  BY <1>1, SignInInvariance, PTL

=============================================================================
