------------------------- MODULE GatewayRoutesProofs -------------------------
(***************************************************************************)
(* Theorems about GatewayRoutes, for every set of calls and routes, every  *)
(* deadline, threshold and cooldown, and every bound.                      *)
(***************************************************************************)
EXTENDS GatewayRoutes, TLAPS

-----------------------------------------------------------------------------
(* The inductive invariant. *)

\* A route the loop is done with.
Before(x, r) == \E m \in 1..(x.k - 1) : x.routes[m] = r

OnItsWay(x) == x.routes \in Routings /\ x.k \in 1..Len(x.routes)

\* A request of an attempt that is over.
Past(x, b) == \/ Before(x, b.route)
              \/ b.route = RouteOf(x) /\ b.retry < x.retry

\* The request that an attempt begins with, and the one it falls back to.
First(x) == RequestOf(x, FALSE)

Second(x) == RequestOf(x, TRUE)

\* The requests to the route that the loop is at are the last ones.
RouteIsLast(x, bs) ==
    \A i, k \in 1..Len(bs) :
        i <= k /\ bs[i].route = RouteOf(x) => bs[k].route = RouteOf(x)

\* The attempt under way began with the request at m, and may have fallen back.
Underway(c, x, bs, sp, m) ==
    /\ m \in 1..Len(bs)
    /\ \A i \in 1..(m - 1) : Past(x, bs[i]) /\ i \notin sp
    /\ bs[m] = First(x)
    /\ \/ Len(bs) = m
       \/ /\ Len(bs) = m + 1 /\ bs[m + 1] = Second(x)
          /\ c \in Pictured /\ RouteOf(x) \in Blind

\* RequestsAreNotReplayed of one call.
NotReplayed(c, bs, sp) ==
    \A i, j \in 1..Len(bs) :
        i < j =>
            /\ bs[i] # bs[j]
            /\ bs[i].route = bs[j].route => \A k \in i..j : bs[k].route = bs[i].route
            /\ i \in sp => /\ c \in Pictured /\ bs[i].route \in Blind
                           /\ j = i + 1 /\ bs[j].plain
                           /\ OneAttempt(bs[i], bs[j])

\* The request b may be made after those of bs: it is none of them, and if one of them
\* had output passed on it is the last, and b its fallback.
IsNew(bs, b) == \A i \in 1..Len(bs) : bs[i] # b

MayFollow(c, bs, sp, b) ==
    \A i \in 1..Len(bs) :
        i \in sp => /\ c \in Pictured /\ bs[i].route \in Blind
                    /\ i = Len(bs) /\ b.plain
                    /\ OneAttempt(bs[i], b)

\* cs is bs with b at its end.
IsExtended(cs, bs, b) ==
    /\ cs \in Seq(Request) /\ Len(bs) \in Nat /\ Len(cs) = Len(bs) + 1
    /\ cs[Len(bs) + 1] = b /\ \A i \in 1..Len(bs) : cs[i] = bs[i]

\* bs: the requests of a call whose loop is at x, sp: those with output passed on.
CallInv(c, x, bs, sp) ==
    /\ x.at \in {"choosing", "invoking"} => OnItsWay(x) /\ RouteIsLast(x, bs)
    /\ x.at = "idle" => bs = <<>> /\ sp = {}
    /\ x.at = "choosing" => (\A i \in 1..Len(bs) : Past(x, bs[i])) /\ sp = {}
    /\ x.at = "invoking" => \E m \in 1..Len(bs) : Underway(c, x, bs, sp, m)
    /\ sp \subseteq 1..Len(bs)
    /\ NotReplayed(c, bs, sp)

\* What the store knows of a route is what was recorded of it.
RouteInv(h, s) ==
    /\ h.failures = IF s.count < MaxFailures THEN s.count ELSE MaxFailures
    /\ s.count >= Threshold => h.until = s.at + Cooldown

IInv ==
    /\ TypeOK
    /\ \A c \in Calls : CallInv(c, call[c], sent[c], spoke[c])
    /\ \A r \in Route : RouteInv(health[r], streak[r])

-----------------------------------------------------------------------------
(* Facts about the loop. *)

LEMMA QuotientIsNatural ==
    ASSUME NEW a \in Nat, NEW b \in Nat \ {0}
    PROVE  a \div b \in Nat
OBVIOUS

LEMMA RoutingFacts ==
    ASSUME NEW rs \in Routings
    PROVE  /\ rs \in Seq(Route) /\ Len(rs) >= 1
           /\ \A i \in 1..Len(rs) : rs[i] \in Route
           /\ \A i, j \in 1..Len(rs) : rs[i] = rs[j] => i = j
<1>1. PICK n \in 1..MaxRoutes : rs \in [1..n -> Route]
  BY DEF Routings
<1>2. n \in Nat /\ n >= 1
  BY ConstantsAssumption
<1>3. rs \in Seq(Route) /\ Len(rs) = n /\ DOMAIN rs = 1..n
  BY <1>1, <1>2
<1>4. \A i, j \in DOMAIN rs : rs[i] = rs[j] => i = j
  BY DEF Routings
<1>5. QED
  BY <1>1, <1>2, <1>3, <1>4

\* The route at k is none of those before it, and on a route.
LEMMA RouteIsNew ==
    ASSUME NEW x, OnItsWay(x)
    PROVE  RouteOf(x) \in Route /\ ~Before(x, RouteOf(x))
<1>1. x.routes \in Routings /\ x.k \in 1..Len(x.routes)
  BY DEF OnItsWay
<1>2. /\ x.routes \in Seq(Route) /\ Len(x.routes) \in Nat
      /\ \A i \in 1..Len(x.routes) : x.routes[i] \in Route
      /\ \A i, j \in 1..Len(x.routes) : x.routes[i] = x.routes[j] => i = j
  BY <1>1, RoutingFacts
<1>3. QED
  BY <1>1, <1>2 DEF RouteOf, Before

\* The updates the loop makes of its state.
LEMMA CallUpdates ==
    ASSUME NEW x \in Call, NEW at \in {"idle", "choosing", "invoking"} \cup Ended,
           NEW k \in Nat, NEW retry \in 1..2, NEW limit \in Nat, NEW erred \in BOOLEAN
    PROVE  /\ [x EXCEPT !.at = at, !.k = k, !.retry = retry] \in Call
           /\ [x EXCEPT !.at = at, !.retry = retry] \in Call
           /\ [x EXCEPT !.at = at, !.limit = limit] \in Call
           /\ [x EXCEPT !.erred = erred, !.limit = limit] \in Call
<1>1. [x EXCEPT !.at = at, !.k = k, !.retry = retry] \in Call
  BY DEF Call
<1>2. [x EXCEPT !.at = at, !.retry = retry] \in Call
  BY DEF Call
<1>3. [x EXCEPT !.at = at, !.limit = limit] \in Call
  BY DEF Call
<1>4. [x EXCEPT !.erred = erred, !.limit = limit] \in Call
  BY DEF Call
<1>5. QED
  BY <1>1, <1>2, <1>3, <1>4

LEMMA UpdateConstants ==
    /\ "choosing" \in {"idle", "choosing", "invoking"} \cup Ended
    /\ "invoking" \in {"idle", "choosing", "invoking"} \cup Ended
    /\ 0 \in Nat /\ 1 \in 1..2 /\ 2 \in 1..2 /\ TRUE \in BOOLEAN
OBVIOUS

LEMMA ToNextRoute ==
    ASSUME NEW x \in Call, NEW y, y = [x EXCEPT !.at = "choosing", !.k = @ + 1, !.retry = 1]
    PROVE  /\ y \in Call
           /\ y.at = "choosing" /\ y.k = x.k + 1 /\ y.retry = 1 /\ y.routes = x.routes
<1>1. x.k + 1 \in Nat
  BY DEF Call
<1>2. y \in Call
  BY <1>1, CallUpdates, UpdateConstants
<1>3. y.at = "choosing"
  BY DEF Call
<1>4. y.k = x.k + 1 /\ y.retry = 1 /\ y.routes = x.routes
  BY DEF Call
<1>5. QED
  BY <1>2, <1>3, <1>4

LEMMA ToSameRoute ==
    ASSUME NEW x \in Call, NEW y, y = [x EXCEPT !.at = "choosing", !.retry = 2]
    PROVE  /\ y \in Call
           /\ y.at = "choosing" /\ y.k = x.k /\ y.retry = 2 /\ y.routes = x.routes
<1>1. y \in Call
  BY CallUpdates, UpdateConstants
<1>2. y.at = "choosing"
  BY DEF Call
<1>3. y.k = x.k /\ y.retry = 2 /\ y.routes = x.routes
  BY DEF Call
<1>4. QED
  BY <1>1, <1>2, <1>3

LEMMA ToAttempt ==
    ASSUME NEW x \in Call, NEW limit \in Nat,
           NEW y, y = [x EXCEPT !.at = "invoking", !.limit = limit]
    PROVE  /\ y \in Call
           /\ y.at = "invoking" /\ y.k = x.k /\ y.retry = x.retry /\ y.routes = x.routes
<1>1. y \in Call
  BY CallUpdates, UpdateConstants
<1>2. y.at = "invoking"
  BY DEF Call
<1>3. y.k = x.k /\ y.retry = x.retry /\ y.routes = x.routes
  BY DEF Call
<1>4. QED
  BY <1>1, <1>2, <1>3

LEMMA ToFailure ==
    ASSUME NEW x \in Call, NEW y, y = [x EXCEPT !.erred = TRUE, !.limit = 0]
    PROVE  y \in Call /\ y.k = x.k /\ y.retry = x.retry /\ y.routes = x.routes
<1>1. y \in Call
  BY CallUpdates, UpdateConstants
<1>2. y.k = x.k /\ y.retry = x.retry /\ y.routes = x.routes
  BY DEF Call
<1>3. QED
  BY <1>1, <1>2

LEMMA NoCallIsCall == NoCall \in Call
<1>1. <<>> \in Seq(Route)
  OBVIOUS
<1>2. QED
  BY <1>1 DEF NoCall, Call

\* A call that is over keeps its requests.
LEMMA OverIsInert ==
    ASSUME NEW c, NEW outcome \in Ended, NEW bs, NEW sp,
           NotReplayed(c, bs, sp), sp \subseteq 1..Len(bs)
    PROVE  Over(outcome) \in Call /\ CallInv(c, Over(outcome), bs, sp)
<1>1. Over(outcome).at = outcome /\ outcome \notin {"idle", "choosing", "invoking"}
  BY DEF Over, NoCall, Ended
<1>2. Over(outcome) \in Call
  BY NoCallIsCall DEF Over, Call
<1>3. QED
  BY <1>1, <1>2 DEF CallInv

\* The loop goes on to the next route, or ends.
LEMMA RotationKeepsInv ==
    ASSUME NEW c, NEW x \in Call, NEW bs \in Seq(Request), OnItsWay(x),
           NotReplayed(c, bs, {}),
           \A i \in 1..Len(bs) : Before(x, bs[i].route) \/ bs[i].route = RouteOf(x)
    PROVE  Rotated(x) \in Call /\ CallInv(c, Rotated(x), bs, {})
<1> DEFINE y == [x EXCEPT !.at = "choosing", !.k = @ + 1, !.retry = 1]
<1>1. x.k \in Nat /\ Len(x.routes) \in Nat /\ x.k >= 1 /\ x.k <= Len(x.routes)
  BY RoutingFacts DEF OnItsWay, Call
<1>2. CASE x.k < Len(x.routes)
  <2>1. y \in Call
    BY ToNextRoute
  <2>2. y.at = "choosing" /\ y.retry = 1 /\ y.k = x.k + 1 /\ y.routes = x.routes
    BY ToNextRoute
  <2>3. Rotated(x) = y
    BY <1>2 DEF Rotated
  <2> HIDE DEF y
  <2>4. OnItsWay(y)
    BY <1>1, <1>2, <2>2 DEF OnItsWay
  <2>5. \A r : Before(x, r) \/ r = RouteOf(x) => Before(y, r)
    BY <1>1, <2>2 DEF Before, RouteOf
  <2>6. \A i \in 1..Len(bs) : Before(y, bs[i].route)
    BY <2>5
  <2>7. RouteIsLast(y, bs)
    BY <2>4, <2>6, RouteIsNew DEF RouteIsLast
  <2>8. QED
    BY <2>1, <2>2, <2>3, <2>4, <2>6, <2>7 DEF CallInv, Past
<1>3. CASE ~(x.k < Len(x.routes))
  <2>1. PICK outcome \in Ended : Rotated(x) = Over(outcome)
    BY <1>3 DEF Rotated, GivenUp, Ended
  <2>2. QED
    BY <2>1, OverIsInert
<1>4. QED
  BY <1>2, <1>3

\* Of a past attempt no request is one of the attempt that the loop is at.
LEMMA PastIsNotPresent ==
    ASSUME NEW x \in Call, OnItsWay(x), NEW b \in Request, Past(x, b)
    PROVE  ~(b.route = RouteOf(x) /\ b.retry = x.retry)
BY RouteIsNew DEF Past, Call, Request

\* A request to the route at which the loop is, that differs from those before it.
LEMMA RequestKeepsHistory ==
    ASSUME NEW c, NEW x, NEW bs \in Seq(Request), NEW sp \in SUBSET Nat,
           NotReplayed(c, bs, sp), RouteIsLast(x, bs),
           NEW b \in Request, b.route = RouteOf(x),
           IsNew(bs, b), MayFollow(c, bs, sp, b),
           NEW cs, cs = Append(bs, b)
    PROVE  IsExtended(cs, bs, b) /\ NotReplayed(c, cs, sp) /\ RouteIsLast(x, cs)
<1>1. /\ cs \in Seq(Request) /\ Len(cs) = Len(bs) + 1 /\ Len(bs) \in Nat
      /\ cs[Len(bs) + 1] = b /\ \A i \in 1..Len(bs) : cs[i] = bs[i]
  OBVIOUS
<1>2. ASSUME NEW i \in 1..Len(cs), NEW j \in 1..Len(cs), i < j
      PROVE  /\ cs[i] # cs[j]
             /\ cs[i].route = cs[j].route => \A k \in i..j : cs[k].route = cs[i].route
             /\ i \in sp => /\ c \in Pictured /\ cs[i].route \in Blind
                            /\ j = i + 1 /\ cs[j].plain
                            /\ OneAttempt(cs[i], cs[j])
  <2>1. i \in 1..Len(bs) /\ cs[i] = bs[i]
    BY <1>1, <1>2
  <2>2. CASE j = Len(bs) + 1
    <3>1. ASSUME cs[i].route = cs[j].route, NEW k \in i..j
          PROVE  cs[k].route = cs[i].route
      <4>1. CASE k = j
        BY <3>1, <4>1
      <4>2. CASE k # j
        <5>1. k \in 1..Len(bs) /\ cs[k] = bs[k] /\ i <= k
          BY <1>1, <2>1, <2>2, <4>2
        <5>2. bs[i].route = RouteOf(x)
          BY <1>1, <2>1, <2>2, <3>1
        <5>3. QED
          BY <2>1, <5>1, <5>2 DEF RouteIsLast
      <4>3. QED
        BY <4>1, <4>2
    <3>2. QED
      BY <1>1, <2>1, <2>2, <3>1 DEF IsNew, MayFollow
  <2>3. CASE j # Len(bs) + 1
    <3>1. j \in 1..Len(bs)
      BY <1>1, <2>3
    <3>2. \A k \in i..j : k \in 1..Len(bs)
      BY <2>1, <3>1
    <3>3. /\ bs[i] # bs[j]
          /\ bs[i].route = bs[j].route => \A k \in i..j : bs[k].route = bs[i].route
          /\ i \in sp => /\ c \in Pictured /\ bs[i].route \in Blind
                         /\ j = i + 1 /\ bs[j].plain
                         /\ OneAttempt(bs[i], bs[j])
      BY <1>2, <2>1, <3>1 DEF NotReplayed
    <3>4. QED
      BY <1>1, <2>1, <3>1, <3>2, <3>3
  <2>4. QED
    BY <2>2, <2>3
<1>3. RouteIsLast(x, cs)
  <2> SUFFICES ASSUME NEW i \in 1..Len(cs), NEW k \in 1..Len(cs),
                      i <= k, cs[i].route = RouteOf(x)
               PROVE  cs[k].route = RouteOf(x)
    BY DEF RouteIsLast
  <2>1. CASE k = Len(bs) + 1
    BY <1>1, <2>1
  <2>2. CASE k # Len(bs) + 1
    <3>1. k \in 1..Len(bs) /\ i \in 1..Len(bs)
      BY <1>1, <2>2
    <3>2. cs[k] = bs[k] /\ cs[i] = bs[i]
      BY <1>1, <3>1
    <3>3. QED
      BY <3>1, <3>2 DEF RouteIsLast
  <2>3. QED
    BY <2>1, <2>2
<1>4. NotReplayed(c, cs, sp)
  BY <1>2 DEF NotReplayed
<1>5. QED
  BY <1>1, <1>3, <1>4 DEF IsExtended

\* A request is sent to the route at k.
LEMMA InvocationKeepsInv ==
    ASSUME NEW c, NEW x \in Call, NEW bs \in Seq(Request), NEW sp, NEW limit \in Nat,
           x.at = "choosing", CallInv(c, x, bs, sp),
           NEW y, y = [x EXCEPT !.at = "invoking", !.limit = limit]
    PROVE  /\ y \in Call /\ Append(bs, First(x)) \in Seq(Request)
           /\ CallInv(c, y, Append(bs, First(x)), sp)
<1>1. /\ OnItsWay(x) /\ RouteIsLast(x, bs) /\ sp = {} /\ NotReplayed(c, bs, sp)
      /\ \A i \in 1..Len(bs) : Past(x, bs[i])
  BY DEF CallInv
<1>2. y \in Call /\ y.at = "invoking" /\ y.k = x.k /\ y.routes = x.routes /\ y.retry = x.retry
  BY ToAttempt
<1> DEFINE cs == Append(bs, First(x))
<1>3. RouteOf(y) = RouteOf(x) /\ First(y) = First(x)
  BY <1>2 DEF RouteOf, First, RequestOf
<1>4. OnItsWay(y) /\ \A b : Past(y, b) <=> Past(x, b)
  BY <1>1, <1>2, <1>3 DEF OnItsWay, Past, Before
<1>5. First(x) \in Request /\ First(x).route = RouteOf(x) /\ First(x).retry = x.retry
  BY <1>1, RouteIsNew DEF First, RequestOf, Request, Call
<1>6. IsNew(bs, First(x))
  <2> SUFFICES ASSUME NEW i \in 1..Len(bs)
               PROVE  bs[i] # First(x)
    BY DEF IsNew
  <2>1. bs[i] \in Request /\ Past(x, bs[i])
    BY <1>1
  <2>2. QED
    BY <1>1, <1>5, <2>1, PastIsNotPresent
<1>7. sp \in SUBSET Nat /\ MayFollow(c, bs, sp, First(x))
  BY <1>1 DEF MayFollow
<1> HIDE DEF cs
<1>8. /\ cs \in Seq(Request) /\ Len(cs) = Len(bs) + 1 /\ Len(bs) \in Nat
      /\ cs[Len(bs) + 1] = First(x) /\ \A i \in 1..Len(bs) : cs[i] = bs[i]
      /\ NotReplayed(c, cs, sp)
      /\ RouteIsLast(x, cs)
  <2>1. cs = Append(bs, First(x))
    BY DEF cs
  <2>2. IsExtended(cs, bs, First(x)) /\ NotReplayed(c, cs, sp) /\ RouteIsLast(x, cs)
    BY <1>1, <1>5, <1>6, <1>7, <2>1, RequestKeepsHistory
  <2>3. QED
    BY <2>2 DEF IsExtended
<1>9. Underway(c, y, cs, sp, Len(cs))
  <2>1. Len(cs) \in 1..Len(cs) /\ cs[Len(cs)] = First(y)
    BY <1>3, <1>8
  <2>2. \A i \in 1..(Len(cs) - 1) : Past(y, cs[i]) /\ i \notin sp
    BY <1>1, <1>4, <1>8
  <2>3. QED
    BY <2>1, <2>2 DEF Underway
<1>10. RouteIsLast(y, cs)
  BY <1>3, <1>8 DEF RouteIsLast
<1>11. Len(cs) \in 1..Len(cs) /\ sp \subseteq 1..Len(cs)
  BY <1>1, <1>8
<1>12. CallInv(c, y, cs, sp)
  BY <1>2, <1>4, <1>8, <1>9, <1>10, <1>11 DEF CallInv
<1>13. QED
  BY <1>2, <1>8, <1>12 DEF cs

\* The last request is sent again without the images.
LEMMA FallbackKeepsInv ==
    ASSUME NEW c \in Pictured, NEW x \in Call, NEW bs \in Seq(Request), NEW sp,
           x.at = "invoking", CallInv(c, x, bs, sp), RouteOf(x) \in Blind,
           ~bs[Len(bs)].plain
    PROVE  Append(bs, Second(x)) \in Seq(Request) /\ CallInv(c, x, Append(bs, Second(x)), sp)
<1> DEFINE cs == Append(bs, Second(x))
<1>1. /\ OnItsWay(x) /\ RouteIsLast(x, bs) /\ sp \subseteq 1..Len(bs)
      /\ NotReplayed(c, bs, sp)
  BY DEF CallInv
<1>2. PICK m \in 1..Len(bs) : Underway(c, x, bs, sp, m)
  BY DEF CallInv
<1>3. Second(x).plain /\ ~First(x).plain /\ OneAttempt(First(x), Second(x))
  BY DEF First, Second, RequestOf, OneAttempt
<1>4. m = Len(bs) /\ bs[Len(bs)] = First(x) /\ Len(bs) \in Nat
  BY <1>2, <1>3 DEF Underway
<1>6. Second(x) \in Request /\ Second(x).route = RouteOf(x) /\ Second(x).retry = x.retry
  BY <1>1, RouteIsNew DEF Second, RequestOf, Request, Call
<1>7. IsNew(bs, Second(x))
  <2> SUFFICES ASSUME NEW i \in 1..Len(bs)
               PROVE  bs[i] # Second(x)
    BY DEF IsNew
  <2>1. CASE i = m
    BY <1>3, <1>4, <2>1
  <2>2. CASE i # m
    <3>1. bs[i] \in Request /\ Past(x, bs[i])
      BY <1>2, <1>4, <2>2 DEF Underway
    <3>2. QED
      BY <1>1, <1>6, <3>1, PastIsNotPresent
  <2>3. QED
    BY <2>1, <2>2
<1>8. MayFollow(c, bs, sp, Second(x))
  <2> SUFFICES ASSUME NEW i \in 1..Len(bs), i \in sp
               PROVE  /\ c \in Pictured /\ bs[i].route \in Blind
                      /\ i = Len(bs) /\ Second(x).plain
                      /\ OneAttempt(bs[i], Second(x))
    BY DEF MayFollow
  <2>1. i = m
    BY <1>2, <1>4 DEF Underway
  <2>2. First(x).route = RouteOf(x)
    BY DEF First, RequestOf
  <2>3. QED
    BY <1>3, <1>4, <2>1, <2>2
<1>9. sp \in SUBSET Nat
  BY <1>1
<1> HIDE DEF cs
<1>10. /\ cs \in Seq(Request) /\ Len(cs) = Len(bs) + 1
       /\ cs[Len(bs) + 1] = Second(x) /\ \A i \in 1..Len(bs) : cs[i] = bs[i]
       /\ NotReplayed(c, cs, sp)
       /\ RouteIsLast(x, cs)
  <2>1. cs = Append(bs, Second(x))
    BY DEF cs
  <2>2. IsExtended(cs, bs, Second(x)) /\ NotReplayed(c, cs, sp) /\ RouteIsLast(x, cs)
    BY <1>1, <1>6, <1>7, <1>8, <1>9, <2>1, RequestKeepsHistory
  <2>3. QED
    BY <1>4, <2>2 DEF IsExtended
<1>11. Underway(c, x, cs, sp, m)
  BY <1>2, <1>4, <1>10 DEF Underway
<1>12. m \in 1..Len(cs) /\ sp \subseteq 1..Len(cs)
  BY <1>1, <1>4, <1>10
<1>13. CallInv(c, x, cs, sp)
  BY <1>1, <1>10, <1>11, <1>12 DEF CallInv
<1>14. QED
  BY <1>10, <1>13 DEF cs

\* An attempt that passed nothing on fails: once more, or on to the next route.
LEMMA FailureKeepsInv ==
    ASSUME NEW c, NEW x \in Call, NEW bs \in Seq(Request), x.at = "invoking",
           CallInv(c, x, bs, {}),
           NEW y, y = [x EXCEPT !.erred = TRUE, !.limit = 0],
           NEW z, z = [y EXCEPT !.at = "choosing", !.retry = 2]
    PROVE  /\ y.retry = 1 => z \in Call /\ CallInv(c, z, bs, {})
           /\ Rotated(y) \in Call /\ CallInv(c, Rotated(y), bs, {})
<1>1. OnItsWay(x) /\ RouteIsLast(x, bs) /\ NotReplayed(c, bs, {})
  BY DEF CallInv
<1>2. PICK m \in 1..Len(bs) : Underway(c, x, bs, {}, m)
  BY DEF CallInv
<1>3. \A i \in 1..Len(bs) : \/ Past(x, bs[i])
                            \/ bs[i].route = RouteOf(x) /\ bs[i].retry = x.retry
  <2>1. /\ First(x).route = RouteOf(x) /\ First(x).retry = x.retry
        /\ Second(x).route = RouteOf(x) /\ Second(x).retry = x.retry
    BY DEF First, Second, RequestOf
  <2>2. Len(bs) \in Nat
    OBVIOUS
  <2>3. QED
    BY <1>2, <2>1, <2>2 DEF Underway
<1>4. y \in Call /\ y.k = x.k /\ y.routes = x.routes /\ y.retry = x.retry
  BY ToFailure
<1>5. OnItsWay(y) /\ RouteOf(y) = RouteOf(x) /\ \A r : Before(y, r) <=> Before(x, r)
  BY <1>1, <1>4 DEF OnItsWay, RouteOf, Before
<1>6. ASSUME y.retry = 1
      PROVE  z \in Call /\ CallInv(c, z, bs, {})
  <2>1. /\ z \in Call /\ z.at = "choosing" /\ z.k = y.k /\ z.retry = 2
        /\ z.routes = y.routes
    BY <1>4, ToSameRoute
  <2>2. OnItsWay(z) /\ RouteOf(z) = RouteOf(x) /\ \A r : Before(z, r) <=> Before(x, r)
    BY <1>5, <2>1 DEF OnItsWay, RouteOf, Before
  <2>3. \A i \in 1..Len(bs) : bs[i] \in Request
    OBVIOUS
  <2>4. \A i \in 1..Len(bs) : Past(z, bs[i])
    BY <1>3, <1>4, <1>6, <2>1, <2>2, <2>3 DEF Past, Request
  <2>5. RouteIsLast(z, bs)
    BY <1>1, <2>2 DEF RouteIsLast
  <2>6. QED
    BY <1>1, <2>1, <2>2, <2>4, <2>5 DEF CallInv
<1>7. \A i \in 1..Len(bs) : Before(y, bs[i].route) \/ bs[i].route = RouteOf(y)
  BY <1>3, <1>5 DEF Past
<1>8. Rotated(y) \in Call /\ CallInv(c, Rotated(y), bs, {})
  BY <1>1, <1>4, <1>5, <1>7, RotationKeepsInv
<1>9. QED
  BY <1>6, <1>8

\* A call whose present attempt passed nothing on has passed nothing on.
LEMMA SilentSoFar ==
    ASSUME NEW c, NEW x \in Call, NEW bs \in Seq(Request), NEW sp,
           x.at = "invoking", CallInv(c, x, bs, sp),
           sp \cap {i \in DOMAIN bs : OneAttempt(bs[i], RequestOf(x, FALSE))} = {}
    PROVE  sp = {}
<1>1. PICK m \in 1..Len(bs) : Underway(c, x, bs, sp, m)
  BY DEF CallInv
<1>2. /\ First(x).route = RouteOf(x) /\ First(x).retry = x.retry
      /\ Second(x).route = RouteOf(x) /\ Second(x).retry = x.retry
  BY DEF First, Second, RequestOf
<1>3. sp \subseteq 1..Len(bs) /\ DOMAIN bs = 1..Len(bs) /\ Len(bs) \in Nat
  BY DEF CallInv
<1>4. ASSUME NEW i \in sp
      PROVE  FALSE
  <2>1. i \in 1..Len(bs) /\ ~(i \in 1..(m - 1))
    BY <1>1, <1>3 DEF Underway
  <2>2. CASE Len(bs) = m
    <3>1. i = m /\ bs[i] = First(x)
      BY <1>1, <1>3, <2>1, <2>2 DEF Underway
    <3>2. QED
      BY <1>2, <1>3, <2>1, <3>1 DEF OneAttempt, First, RequestOf
  <2>3. CASE Len(bs) # m
    <3>1. Len(bs) = m + 1 /\ bs[m + 1] = Second(x) /\ bs[m] = First(x)
      BY <1>1, <2>3 DEF Underway
    <3>2. m \in Nat /\ (i = m \/ i = m + 1)
      BY <1>3, <2>1, <3>1
    <3>3. bs[i].route = RouteOf(x) /\ bs[i].retry = x.retry
      BY <1>2, <3>1, <3>2
    <3>4. QED
      BY <1>3, <2>1, <3>3 DEF OneAttempt, RequestOf
  <2>4. QED
    BY <2>2, <2>3
<1>5. QED
  BY <1>4

-----------------------------------------------------------------------------
(* Every step keeps the invariant. *)

\* The state of one call and of what was sent for it changes.
LEMMA OneCallChanges ==
    ASSUME IInv, NEW c \in Calls, NEW x \in Call, NEW bs \in Seq(Request),
           NEW sp \in SUBSET Nat, CallInv(c, x, bs, sp),
           call' = [call EXCEPT ![c] = x],
           sent' = [sent EXCEPT ![c] = bs],
           spoke' = [spoke EXCEPT ![c] = sp]
    PROVE  /\ call' \in [Calls -> Call]
           /\ sent' \in [Calls -> Seq(Request)]
           /\ spoke' \in [Calls -> SUBSET Nat]
           /\ \A d \in Calls : CallInv(d, call'[d], sent'[d], spoke'[d])
<1>1. /\ call' \in [Calls -> Call]
      /\ sent' \in [Calls -> Seq(Request)]
      /\ spoke' \in [Calls -> SUBSET Nat]
  BY DEF IInv, TypeOK
<1>2. ASSUME NEW d \in Calls
      PROVE  CallInv(d, call'[d], sent'[d], spoke'[d])
  <2>1. CASE d = c
    <3>1. call'[d] = x /\ sent'[d] = bs /\ spoke'[d] = sp
      BY <2>1 DEF IInv, TypeOK
    <3>2. QED
      BY <2>1, <3>1
  <2>2. CASE d # c
    <3>1. call'[d] = call[d] /\ sent'[d] = sent[d] /\ spoke'[d] = spoke[d]
      BY <2>2 DEF IInv, TypeOK
    <3>2. CallInv(d, call[d], sent[d], spoke[d])
      BY DEF IInv
    <3>3. QED
      BY <3>1, <3>2
  <2>3. QED
    BY <2>1, <2>2
<1>3. QED
  BY <1>1, <1>2

\* Only the place of the loop does.
LEMMA OnlyTheLoopMoves ==
    ASSUME IInv, NEW c \in Calls, NEW x \in Call, CallInv(c, x, sent[c], spoke[c]),
           call' = [call EXCEPT ![c] = x], UNCHANGED <<sent, spoke>>
    PROVE  /\ call' \in [Calls -> Call]
           /\ sent' \in [Calls -> Seq(Request)]
           /\ spoke' \in [Calls -> SUBSET Nat]
           /\ \A d \in Calls : CallInv(d, call'[d], sent'[d], spoke'[d])
<1>1. sent[c] \in Seq(Request) /\ spoke[c] \in SUBSET Nat
  BY DEF IInv, TypeOK
<1>2. /\ sent' = [sent EXCEPT ![c] = sent[c]]
      /\ spoke' = [spoke EXCEPT ![c] = spoke[c]]
  BY DEF IInv, TypeOK
<1>3. QED
  BY <1>1, <1>2, OneCallChanges

\* The routes keep what the invariant says of them, whatever is recorded.
LEMMA RecordingKeepsInv ==
    ASSUME IInv, NEW r \in Route,
           RecordsSuccess(r) \/ RecordsFailure(r)
    PROVE  /\ health' \in [Route -> Health]
           /\ streak' \in [Route -> [count : Nat, at : Nat]]
           /\ \A q \in Route : RouteInv(health'[q], streak'[q])
<1>1. /\ health \in [Route -> Health] /\ streak \in [Route -> [count : Nat, at : Nat]]
      /\ clock \in Nat /\ \A q \in Route : RouteInv(health[q], streak[q])
  BY DEF IInv, TypeOK
<1>2. /\ Threshold \in 1..MaxFailures /\ MaxFailures \in Nat
      /\ Cooldown \in Nat
  BY ConstantsAssumption
<1>3. PICK h \in Health, s \in [count : Nat, at : Nat] :
         /\ RouteInv(h, s)
         /\ health' = [health EXCEPT ![r] = h]
         /\ streak' = [streak EXCEPT ![r] = s]
  <2>1. CASE RecordsSuccess(r)
    <3>1. NoHealth \in Health /\ NoStreak \in [count : Nat, at : Nat]
      BY <1>2 DEF NoHealth, Health, NoStreak
    <3>2. RouteInv(NoHealth, NoStreak)
      BY <1>2 DEF NoHealth, NoStreak, RouteInv
    <3>3. QED
      BY <2>1, <3>1, <3>2 DEF RecordsSuccess
  <2>2. CASE RecordsFailure(r)
    <3> DEFINE n == IF health[r].failures < MaxFailures
                    THEN health[r].failures + 1 ELSE MaxFailures
               u == IF n >= Threshold THEN clock + Cooldown ELSE health[r].until
               h == [failures |-> n, until |-> u]
               s == [count |-> streak[r].count + 1, at |-> clock]
    <3>1. /\ health[r].failures \in 0..MaxFailures /\ health[r].until \in Nat
          /\ streak[r].count \in Nat
      BY <1>1 DEF Health
    <3>2. n \in 0..MaxFailures
      BY <1>2, <3>1
    <3>3. u \in Nat
      BY <1>1, <1>2, <3>1
    <3>4. n = IF streak[r].count + 1 < MaxFailures THEN streak[r].count + 1 ELSE MaxFailures
      BY <1>1, <1>2, <3>1 DEF RouteInv
    <3>5. streak[r].count + 1 >= Threshold => u = clock + Cooldown
      BY <1>2, <3>1, <3>4
    <3>6. health' = [health EXCEPT ![r] = h] /\ streak' = [streak EXCEPT ![r] = s]
      BY <1>1, <2>2 DEF RecordsFailure
    <3> HIDE DEF n, u
    <3>7. h \in Health /\ s \in [count : Nat, at : Nat]
      BY <1>1, <3>1, <3>2, <3>3 DEF Health
    <3>8. RouteInv(h, s)
      BY <3>4, <3>5 DEF RouteInv
    <3> HIDE DEF h, s
    <3>9. QED
      BY <3>6, <3>7, <3>8
  <2>3. QED
    BY <2>1, <2>2
<1>4. /\ health' \in [Route -> Health]
      /\ streak' \in [Route -> [count : Nat, at : Nat]]
  BY <1>1, <1>3
<1>5. \A q \in Route : RouteInv(health'[q], streak'[q])
  BY <1>1, <1>3
<1>6. QED
  BY <1>4, <1>5

LEMMA InvInit == Init => IInv
<1> SUFFICES ASSUME Init
             PROVE  IInv
  OBVIOUS
<1>1. TypeOK
  <2>1. NoHealth \in Health /\ NoStreak \in [count : Nat, at : Nat]
    BY ConstantsAssumption DEF NoHealth, Health, NoStreak
  <2>2. <<>> \in Seq(Request) /\ {} \in SUBSET Nat
    OBVIOUS
  <2>3. 0 \in Nat /\ 0 \in 0..MaxFaults
    BY ConstantsAssumption
  <2>4. QED
    BY <2>1, <2>2, <2>3, NoCallIsCall DEF Init, TypeOK
<1>2. ASSUME NEW c \in Calls
      PROVE  CallInv(c, call[c], sent[c], spoke[c])
  <2>1. call[c] = NoCall /\ sent[c] = <<>> /\ spoke[c] = {}
    BY DEF Init
  <2>2. NotReplayed(c, <<>>, {})
    BY DEF NotReplayed
  <2>3. NoCall.at = "idle"
    BY DEF NoCall
  <2>4. QED
    BY <2>1, <2>2, <2>3 DEF CallInv
<1>3. ASSUME NEW r \in Route
      PROVE  RouteInv(health[r], streak[r])
  <2>1. health[r] = NoHealth /\ streak[r] = NoStreak
    BY DEF Init
  <2>2. QED
    BY <2>1, ConstantsAssumption DEF NoHealth, NoStreak, RouteInv
<1>4. QED
  BY <1>1, <1>2, <1>3 DEF IInv

\* What the invariant says of a call that is under way.
LEMMA UnderWay ==
    ASSUME IInv, NEW c \in Calls
    PROVE  /\ call[c] \in Call /\ sent[c] \in Seq(Request) /\ spoke[c] \in SUBSET Nat
           /\ CallInv(c, call[c], sent[c], spoke[c])
           /\ call[c].at \in {"choosing", "invoking"} =>
                  OnItsWay(call[c]) /\ RouteOf(call[c]) \in Route
           /\ NotReplayed(c, sent[c], spoke[c]) /\ spoke[c] \subseteq 1..Len(sent[c])
<1>1. /\ call[c] \in Call /\ sent[c] \in Seq(Request) /\ spoke[c] \in SUBSET Nat
      /\ CallInv(c, call[c], sent[c], spoke[c])
  BY DEF IInv, TypeOK
<1>2. QED
  BY <1>1, RouteIsNew DEF CallInv

LEMMA BeginningKeepsInv ==
    ASSUME IInv, NEW c \in Calls, NEW rs \in Routings, Begins(c, rs)
    PROVE  IInv'
<1> DEFINE deadline == clock + Budget
           x == [NoCall EXCEPT !.at = "choosing", !.routes = rs, !.deadline = deadline]
<1>1. rs \in Seq(Route) /\ 1 \in 1..Len(rs)
  BY RoutingFacts
<1>2. clock \in Nat /\ Budget \in Nat
  BY ConstantsAssumption DEF IInv, TypeOK
<1>3. NoCall.k = 1 /\ NoCall.retry = 1 /\ deadline \in Nat
  BY <1>2 DEF NoCall
<1>4. x \in Call /\ x.at = "choosing" /\ x.routes = rs /\ x.k = 1 /\ x.retry = 1
  <2> HIDE DEF deadline
  <2>1. NoCall \in Call /\ "choosing" \in {"idle", "choosing", "invoking"} \cup Ended
    BY NoCallIsCall
  <2>2. x \in Call
    BY <1>1, <1>3, <2>1 DEF Call
  <2>3. x.at = "choosing"
    BY <2>1 DEF Call
  <2>4. x.routes = rs /\ x.k = NoCall.k /\ x.retry = NoCall.retry
    BY <2>1 DEF Call
  <2>5. QED
    BY <1>3, <2>2, <2>3, <2>4
<1>5. call[c] = NoCall /\ sent[c] = <<>> /\ spoke[c] = {}
  BY UnderWay DEF Begins, NoCall, CallInv
<1>6. CallInv(c, x, <<>>, {})
  <2> HIDE DEF x
  <2>1. OnItsWay(x)
    BY <1>1, <1>4 DEF OnItsWay
  <2>2. RouteIsLast(x, <<>>)
    BY DEF RouteIsLast
  <2>3. NotReplayed(c, <<>>, {})
    BY DEF NotReplayed
  <2>4. \A i \in 1..Len(<<>>) : Past(x, <<>>[i])
    OBVIOUS
  <2>5. QED
    BY <1>4, <2>1, <2>2, <2>3, <2>4 DEF CallInv
<1>7. call' = [call EXCEPT ![c] = x] /\ UNCHANGED <<clock, health, sent, spoke, streak, faults>>
  BY DEF Begins
<1> HIDE DEF x, deadline
<1>8. /\ call' \in [Calls -> Call]
      /\ sent' \in [Calls -> Seq(Request)]
      /\ spoke' \in [Calls -> SUBSET Nat]
      /\ \A d \in Calls : CallInv(d, call'[d], sent'[d], spoke'[d])
  BY <1>4, <1>5, <1>6, <1>7, OnlyTheLoopMoves
<1>9. QED
  BY <1>7, <1>8 DEF IInv, TypeOK

\* The loop looks at a circuit and at the time.
LEMMA ChoosingKeepsInv ==
    ASSUME IInv, NEW c \in Calls, PassesOver(c) \/ RunsOut(c)
    PROVE  IInv'
<1>1. call[c].at = "choosing" /\ UNCHANGED <<clock, health, sent, spoke, streak, faults>>
  BY DEF PassesOver, RunsOut
<1>2. /\ OnItsWay(call[c]) /\ NotReplayed(c, sent[c], {}) /\ spoke[c] = {}
      /\ \A i \in 1..Len(sent[c]) : Past(call[c], sent[c][i])
  BY <1>1, UnderWay DEF CallInv
<1>3. PICK x \in Call : /\ call' = [call EXCEPT ![c] = x]
                        /\ CallInv(c, x, sent[c], spoke[c])
  <2>1. CASE PassesOver(c)
    <3>1. Rotated(call[c]) \in Call /\ CallInv(c, Rotated(call[c]), sent[c], spoke[c])
      BY <1>2, UnderWay, RotationKeepsInv DEF Past
    <3>2. QED
      BY <2>1, <3>1 DEF PassesOver
  <2>2. CASE RunsOut(c)
    <3>1. PICK outcome \in Ended : call' = [call EXCEPT ![c] = Over(outcome)]
      BY <2>2 DEF RunsOut, GivenUp, Ended
    <3>2. QED
      BY <3>1, UnderWay, OverIsInert
  <2>3. QED
    BY <2>1, <2>2
<1>4. /\ call' \in [Calls -> Call]
      /\ sent' \in [Calls -> Seq(Request)]
      /\ spoke' \in [Calls -> SUBSET Nat]
      /\ \A d \in Calls : CallInv(d, call'[d], sent'[d], spoke'[d])
  BY <1>1, <1>3, OnlyTheLoopMoves
<1>5. QED
  BY <1>1, <1>4 DEF IInv, TypeOK

LEMMA InvokingKeepsInv ==
    ASSUME IInv, NEW c \in Calls, Invokes(c)
    PROVE  IInv'
<1> DEFINE limit == clock + Share(c)
           x == [call[c] EXCEPT !.at = "invoking", !.limit = limit]
           bs == Append(sent[c], First(call[c]))
<1>1. call[c].at = "choosing" /\ clock < call[c].deadline
      /\ UNCHANGED <<clock, health, spoke, streak, faults>>
  BY DEF Invokes
<1>2. OnItsWay(call[c]) /\ call[c] \in Call /\ clock \in Nat
  BY <1>1, UnderWay DEF IInv, TypeOK
<1>3. Share(c) \in Nat
  <2> DEFINE remaining == call[c].deadline - clock
             routes == Len(call[c].routes) - call[c].k + 1
  <2>1. remaining \in Nat
    BY <1>1, <1>2 DEF Call
  <2>2. routes \in Nat \ {0}
    BY <1>2, RoutingFacts DEF OnItsWay
  <2>3. Share(c) = IF c \in Stream THEN (remaining + routes - 1) \div routes ELSE remaining
    BY DEF Share
  <2> HIDE DEF remaining, routes
  <2>4. remaining + routes - 1 \in Nat
    BY <2>1, <2>2
  <2>5. (remaining + routes - 1) \div routes \in Nat
    BY <2>2, <2>4, QuotientIsNatural
  <2>6. QED
    BY <2>1, <2>3, <2>5
<1>4. limit \in Nat
  BY <1>2, <1>3
<1>5. call' = [call EXCEPT ![c] = x] /\ sent' = [sent EXCEPT ![c] = bs]
  BY DEF Invokes, First
<1> HIDE DEF limit
<1>6. x \in Call /\ bs \in Seq(Request) /\ CallInv(c, x, bs, spoke[c])
  BY <1>1, <1>4, UnderWay, InvocationKeepsInv
<1> HIDE DEF x, bs
<1>7. spoke[c] \in SUBSET Nat /\ spoke' = [spoke EXCEPT ![c] = spoke[c]]
  BY <1>1, UnderWay DEF IInv, TypeOK
<1>8. /\ call' \in [Calls -> Call]
      /\ sent' \in [Calls -> Seq(Request)]
      /\ spoke' \in [Calls -> SUBSET Nat]
      /\ \A d \in Calls : CallInv(d, call'[d], sent'[d], spoke'[d])
  BY <1>5, <1>6, <1>7, OneCallChanges
<1>9. QED
  BY <1>1, <1>8 DEF IInv, TypeOK

LEMMA SpeakingKeepsInv ==
    ASSUME IInv, NEW c \in Calls, Speaks(c)
    PROVE  IInv'
<1> DEFINE sp == spoke[c] \cup {Len(sent[c])}
<1>1. call[c].at = "invoking" /\ UNCHANGED <<clock, health, call, sent, streak, faults>>
  BY DEF Speaks
<1>2. CallInv(c, call[c], sent[c], sp)
  <2>1. PICK m \in 1..Len(sent[c]) : Underway(c, call[c], sent[c], spoke[c], m)
    BY <1>1, UnderWay DEF CallInv
  <2>2. Len(sent[c]) \in 1..Len(sent[c]) /\ Len(sent[c]) \in Nat
    BY <2>1, UnderWay
  <2>3. Underway(c, call[c], sent[c], sp, m)
    BY <2>1, <2>2 DEF Underway
  <2>4. NotReplayed(c, sent[c], sp)
    BY <2>2, UnderWay DEF NotReplayed
  <2>5. sp \subseteq 1..Len(sent[c])
    BY <2>2, UnderWay
  <2>6. QED
    BY <1>1, <2>3, <2>4, <2>5, UnderWay DEF CallInv
<1>3. sp \in SUBSET Nat
  BY UnderWay
<1>4. /\ call' = [call EXCEPT ![c] = call[c]]
      /\ sent' = [sent EXCEPT ![c] = sent[c]]
      /\ spoke' = [spoke EXCEPT ![c] = sp]
  BY <1>1 DEF Speaks, IInv, TypeOK
<1> HIDE DEF sp
<1>5. /\ call' \in [Calls -> Call]
      /\ sent' \in [Calls -> Seq(Request)]
      /\ spoke' \in [Calls -> SUBSET Nat]
      /\ \A d \in Calls : CallInv(d, call'[d], sent'[d], spoke'[d])
  BY <1>2, <1>3, <1>4, UnderWay, OneCallChanges
<1>6. QED
  BY <1>1, <1>5 DEF IInv, TypeOK

\* The request of the attempt is made again without the images.
LEMMA FallingBackKeepsInv ==
    ASSUME IInv, NEW c \in Calls, FallsBack(c)
    PROVE  IInv'
<1> DEFINE bs == Append(sent[c], Second(call[c]))
<1>1. call[c].at = "invoking" /\ UNCHANGED <<clock, health, call, spoke, streak, faults>>
  BY DEF FallsBack
<1>2. sent' = [sent EXCEPT ![c] = bs]
  BY DEF FallsBack, Second
<1>3. bs \in Seq(Request) /\ CallInv(c, call[c], bs, spoke[c])
  BY UnderWay, FallbackKeepsInv DEF FallsBack
<1> HIDE DEF bs
<1>4. call' = [call EXCEPT ![c] = call[c]] /\ spoke' = [spoke EXCEPT ![c] = spoke[c]]
  BY <1>1 DEF IInv, TypeOK
<1>5. /\ call' \in [Calls -> Call]
      /\ sent' \in [Calls -> Seq(Request)]
      /\ spoke' \in [Calls -> SUBSET Nat]
      /\ \A d \in Calls : CallInv(d, call'[d], sent'[d], spoke'[d])
  BY <1>2, <1>3, <1>4, UnderWay, OneCallChanges
<1>6. QED
  BY <1>1, <1>5 DEF IInv, TypeOK

\* The exception of an attempt is handled.
LEMMA HandlingKeepsInv ==
    ASSUME IInv, NEW c \in Calls, call[c].at = "invoking", NEW transient \in BOOLEAN,
           Handles(c, transient), faults' \in 0..MaxFaults
    PROVE  IInv'
<1> DEFINE y == [call[c] EXCEPT !.erred = TRUE, !.limit = 0]
           again == [y EXCEPT !.at = "choosing", !.retry = 2]
           z == IF Spoke(c) THEN Over("failed")
                ELSE IF transient /\ y.retry = 1 THEN again
                ELSE Rotated(y)
<1>1. /\ RecordsFailure(RouteOf(y)) /\ UNCHANGED <<clock, sent, spoke>>
      /\ call' = [call EXCEPT ![c] = z]
  BY DEF Handles
<1>2. RouteOf(y) = RouteOf(call[c]) /\ RouteOf(y) \in Route
  BY UnderWay, ToFailure DEF RouteOf
<1>3. z \in Call /\ CallInv(c, z, sent[c], spoke[c])
  <2>1. CASE Spoke(c)
    BY <2>1, UnderWay, OverIsInert DEF Ended
  <2>2. CASE ~Spoke(c)
    <3>1. spoke[c] = {}
      BY <2>2, UnderWay, SilentSoFar DEF Spoke, Attempt
    <3>2. /\ y.retry = 1 => again \in Call /\ CallInv(c, again, sent[c], {})
          /\ Rotated(y) \in Call /\ CallInv(c, Rotated(y), sent[c], {})
      BY <3>1, UnderWay, FailureKeepsInv
    <3> HIDE DEF y, again
    <3>3. (z = again /\ y.retry = 1) \/ z = Rotated(y)
      BY <2>2
    <3> HIDE DEF z
    <3>4. QED
      BY <3>1, <3>2, <3>3
  <2>3. QED
    BY <2>1, <2>2
<1> HIDE DEF y, again, z
<1>4. /\ health' \in [Route -> Health]
      /\ streak' \in [Route -> [count : Nat, at : Nat]]
      /\ \A q \in Route : RouteInv(health'[q], streak'[q])
  BY <1>1, <1>2, RecordingKeepsInv
<1>5. /\ call' \in [Calls -> Call]
      /\ sent' \in [Calls -> Seq(Request)]
      /\ spoke' \in [Calls -> SUBSET Nat]
      /\ \A d \in Calls : CallInv(d, call'[d], sent'[d], spoke'[d])
  BY <1>1, <1>3, OnlyTheLoopMoves
<1>6. QED
  BY <1>1, <1>4, <1>5 DEF IInv, TypeOK

\* A call ends at once.
LEMMA EndingKeepsInv ==
    ASSUME IInv, NEW c \in Calls, NEW outcome \in Ended,
           call' = [call EXCEPT ![c] = Over(outcome)], UNCHANGED <<clock, sent, spoke>>,
           \/ UNCHANGED <<health, streak>>
           \/ \E r \in Route : RecordsSuccess(r),
           faults' \in 0..MaxFaults
    PROVE  IInv'
<1>1. Over(outcome) \in Call /\ CallInv(c, Over(outcome), sent[c], spoke[c])
  BY UnderWay, OverIsInert
<1>2. /\ call' \in [Calls -> Call]
      /\ sent' \in [Calls -> Seq(Request)]
      /\ spoke' \in [Calls -> SUBSET Nat]
      /\ \A d \in Calls : CallInv(d, call'[d], sent'[d], spoke'[d])
  BY <1>1, OnlyTheLoopMoves
<1>3. /\ health' \in [Route -> Health]
      /\ streak' \in [Route -> [count : Nat, at : Nat]]
      /\ \A q \in Route : RouteInv(health'[q], streak'[q])
  <2>1. CASE UNCHANGED <<health, streak>>
    BY <2>1 DEF IInv, TypeOK
  <2>2. CASE \E r \in Route : RecordsSuccess(r)
    BY <2>2, RecordingKeepsInv
  <2>3. QED
    BY <2>1, <2>2
<1>4. QED
  BY <1>2, <1>3 DEF IInv, TypeOK

LEMMA InvStep == IInv /\ [Next]_vars => IInv'
<1> SUFFICES ASSUME IInv, [Next]_vars
             PROVE  IInv'
  OBVIOUS
<1>1. faults \in 0..MaxFaults
  BY DEF IInv, TypeOK
<1>2. CASE Tick
  <2>1. clock' \in Nat /\ UNCHANGED <<health, call, sent, spoke, streak, faults>>
    BY <1>2 DEF Tick, IInv, TypeOK
  <2>2. QED
    BY <2>1 DEF IInv, TypeOK
<1>3. CASE UNCHANGED vars
  BY <1>3 DEF vars, IInv, TypeOK
<1>4. ASSUME NEW c \in Calls, LoopStep(c)
      PROVE  IInv'
  <2>1. CASE PassesOver(c) \/ RunsOut(c)
    BY <2>1, ChoosingKeepsInv
  <2>2. CASE Invokes(c)
    BY <2>2, InvokingKeepsInv
  <2>3. CASE TimesOut(c)
    <3>1. FALSE \in BOOLEAN
      OBVIOUS
    <3>2. QED
      BY <1>1, <2>3, <3>1, HandlingKeepsInv DEF TimesOut
  <2>4. QED
    BY <1>4, <2>1, <2>2, <2>3 DEF LoopStep
<1>5. ASSUME NEW c \in Calls, OutsideStep(c)
      PROVE  IInv'
  <2>1. CASE \E rs \in Routings : Begins(c, rs)
    BY <2>1, BeginningKeepsInv
  <2>2. CASE Speaks(c)
    BY <2>2, SpeakingKeepsInv
  <2>3. CASE Succeeds(c)
    <3>1. RouteOf(call[c]) \in Route
      BY <2>3, UnderWay DEF Succeeds
    <3>2. QED
      BY <1>1, <2>3, <3>1, EndingKeepsInv DEF Succeeds, Ended
  <2>4. CASE Fails(c)
    BY <1>1, <2>4, HandlingKeepsInv DEF Fails
  <2>5. CASE Leaves(c)
    BY <1>1, <2>5, EndingKeepsInv DEF Leaves, Ended
  <2>6. CASE StoreFails(c)
    <3>1. faults' \in 0..MaxFaults
      BY <1>1, <2>6, ConstantsAssumption DEF StoreFails
    <3>2. CASE /\ call' = [call EXCEPT ![c] = Over("failed")]
               /\ UNCHANGED <<clock, health, sent, spoke, streak>>
      BY <3>1, <3>2, EndingKeepsInv DEF Ended
    <3>3. CASE call[c].at = "invoking" /\ Handles(c, FALSE)
      <4>1. FALSE \in BOOLEAN
        OBVIOUS
      <4>2. QED
        BY <3>1, <3>3, <4>1, HandlingKeepsInv
    <3>4. QED
      BY <2>6, <3>2, <3>3 DEF StoreFails
  <2>7. CASE FallsBack(c)
    BY <2>7, FallingBackKeepsInv
  <2>8. QED
    BY <1>5, <2>1, <2>2, <2>3, <2>4, <2>5, <2>6, <2>7 DEF OutsideStep
<1>6. QED
  BY <1>2, <1>3, <1>4, <1>5 DEF Next

\* What the loop is left at when an attempt is over.
LEMMA OnlyInvokesInvokes ==
    ASSUME NEW x \in Call, NEW outcome \in Ended
    PROVE  /\ Over(outcome).at # "invoking" /\ GivenUp(x).at # "invoking"
           /\ Rotated(x).at # "invoking"
<1>1. Over(outcome).at # "invoking" /\ GivenUp(x).at # "invoking"
  BY DEF Over, GivenUp, NoCall, Ended
<1>2. Rotated(x).at # "invoking"
  <2>1. CASE x.k < Len(x.routes)
    BY <2>1, ToNextRoute DEF Rotated
  <2>2. CASE ~(x.k < Len(x.routes))
    BY <1>1, <2>2 DEF Rotated
  <2>3. QED
    BY <2>1, <2>2
<1>3. QED
  BY <1>1, <1>2

\* An attempt begins with the step that looks at the circuit.
LEMMA BeginningInvokes ==
    ASSUME IInv, Next, NEW c \in Calls, call[c].at # "invoking", call'[c].at = "invoking"
    PROVE  Invokes(c)
<1>1. call \in [Calls -> Call] /\ call' # call
  BY DEF IInv, TypeOK
<1>2. PICK d \in Calls : LoopStep(d) \/ OutsideStep(d)
  BY <1>1 DEF Next, Tick
<1>3. d = c
  <2>1. \E x : call' = [call EXCEPT ![d] = x]
    BY <1>1, <1>2 DEF LoopStep, OutsideStep, PassesOver, RunsOut, Invokes, TimesOut, Handles,
                      Begins, Speaks, FallsBack, Succeeds, Fails, Leaves, StoreFails
  <2>2. QED
    BY <1>1, <2>1
<1>4. call[c] \in Call /\ "failed" \in Ended /\ "answered" \in Ended /\ "cancelled" \in Ended
      /\ "exhausted" \in Ended
  BY <1>1 DEF Ended
<1>5. ~PassesOver(c)
  BY <1>1, <1>4, OnlyInvokesInvokes DEF PassesOver
<1>6. ~RunsOut(c)
  BY <1>1, <1>4, OnlyInvokesInvokes DEF RunsOut
<1>7. ~(\E rs \in Routings : Begins(c, rs))
  <2> SUFFICES ASSUME NEW rs \in Routings, Begins(c, rs)
               PROVE  FALSE
    OBVIOUS
  <2>1. call'[c] = [NoCall EXCEPT !.at = "choosing", !.routes = rs, !.deadline = clock + Budget]
    BY <1>1 DEF Begins
  <2>2. QED
    BY <2>1 DEF NoCall
<1>8. call[c].at \in {"idle", "choosing"} \cup Ended
  BY <1>4 DEF Call
<1>9. ~(TimesOut(c) \/ Speaks(c) \/ FallsBack(c) \/ Succeeds(c) \/ Fails(c) \/ Leaves(c))
  <2>1. ~(TimesOut(c) \/ Fails(c))
    BY DEF TimesOut, Fails
  <2>2. ~(Speaks(c) \/ FallsBack(c))
    BY DEF Speaks, FallsBack
  <2>3. ~(Succeeds(c) \/ Leaves(c))
    BY DEF Succeeds, Leaves
  <2>4. QED
    BY <2>1, <2>2, <2>3
<1>10. ~StoreFails(c)
  <2>1. ~(call' = [call EXCEPT ![c] = Over("failed")])
    BY <1>1, <1>4, OnlyInvokesInvokes
  <2>2. QED
    BY <2>1 DEF StoreFails
<1>11. QED
  BY <1>2, <1>3, <1>5, <1>6, <1>7, <1>9, <1>10 DEF LoopStep, OutsideStep

-----------------------------------------------------------------------------
(* The theorems. *)

THEOREM Invariance == Spec => []IInv
<1>1. Init => IInv
  BY InvInit
<1>2. IInv /\ [Next]_vars => IInv'
  BY InvStep
<1>3. QED
  BY <1>1, <1>2, PTL DEF Spec

\* The records of the calls, of their sent and of the circuits keep their shape:
\* the count of failures stays within its cap.
THEOREM TypeCorrect == Spec => []TypeOK
<1>1. IInv => TypeOK
  BY DEF IInv
<1>2. QED
  BY <1>1, Invariance, PTL

\* No call makes a request a second time as it was, or any after output of it was passed
\* on but for the image fallback of the same attempt, whatever the providers, the clock
\* and the store do.
THEOREM NoReplays == Spec => []RequestsAreNotReplayed
<1>1. IInv => RequestsAreNotReplayed
  <2> SUFFICES ASSUME IInv, NEW c \in Calls,
                      NEW i \in DOMAIN sent[c], NEW j \in DOMAIN sent[c], i < j
               PROVE  /\ sent[c][i] # sent[c][j]
                      /\ sent[c][i].route = sent[c][j].route =>
                             \A k \in i..j : sent[c][k].route = sent[c][i].route
                      /\ i \in spoke[c] => /\ c \in Pictured /\ sent[c][i].route \in Blind
                                           /\ j = i + 1 /\ sent[c][j].plain
                                           /\ OneAttempt(sent[c][i], sent[c][j])
    BY DEF RequestsAreNotReplayed
  <2>1. DOMAIN sent[c] = 1..Len(sent[c])
    BY UnderWay
  <2>2. QED
    BY <2>1, UnderWay DEF NotReplayed
<1>2. QED
  BY <1>1, Invariance, PTL

\* However many calls share a route and however their attempts overlap, none begins
\* an attempt on it while its circuit should be open.
THEOREM CircuitsHold == Spec => FailingRoutesRest
<1> DEFINE Rest ==
      \A c \in Calls :
          (call[c].at # "invoking" /\ call'[c].at = "invoking") =>
              LET s == streak[RouteOf(call[c])] IN
              s.count >= Threshold => clock >= s.at + Cooldown
<1>1. IInv /\ [Next]_vars => [Rest]_vars
  <2> SUFFICES ASSUME IInv, Next, NEW c \in Calls,
                      call[c].at # "invoking", call'[c].at = "invoking"
               PROVE  LET s == streak[RouteOf(call[c])] IN
                      s.count >= Threshold => clock >= s.at + Cooldown
    OBVIOUS
  <2>1. Invokes(c)
    BY BeginningInvokes
  <2>2. RouteOf(call[c]) \in Route
    BY <2>1, UnderWay DEF Invokes
  <2>3. health[RouteOf(call[c])].until <= clock
    BY <2>1 DEF Invokes, Allows
  <2>4. RouteInv(health[RouteOf(call[c])], streak[RouteOf(call[c])])
    BY <2>2 DEF IInv
  <2>5. QED
    BY <2>3, <2>4 DEF RouteInv
<1>2. QED
  BY <1>1, Invariance, PTL DEF Spec, FailingRoutesRest

==============================================================================
