---------------------------- MODULE MudlibProofs ----------------------------
(***************************************************************************)
(* Theorems about Mudlib for every number of connections, accounts, kinds  *)
(* of items and every map, proved with TLAPS.                              *)
(***************************************************************************)
EXTENDS Mudlib, TLAPS, WellFoundedInduction, SequenceTheorems, FiniteSetTheorems

\* The part of TypeOK the invariants below rest on: all but the items array
\* of the area and the object a file leaves in players.
CoreOK == /\ nconn \in 0 .. MaxConns
          /\ open \subseteq 1 .. nconn /\ clients \subseteq 1 .. nconn
          /\ online \subseteq 1 .. nconn
          /\ players \in [Conns -> Player]
          /\ alias \in [Accounts -> 0 .. MaxConns]
          /\ cache \in [Accounts -> Cached]
          /\ files \in [Accounts -> File]
          /\ bags \in [Refs -> Seq(Kinds)]
          /\ proto \in [Kinds -> Tiles \cup {Nowhere}]

\* The id and the transport in a session are those of its connection.
SessionIdentity ==
    \A c \in online : players[c].id = c /\ players[c].ctype = Transport(c)

RegistryInv == CoreOK /\ SessionIdentity /\ AliasLive /\ RegistriesAgree
-----------------------------------------------------------------------------
(* Induction.  The library states it with an operator as a parameter; here   *)
(* what is proved of a number is that it belongs to a set.                   *)

\* A set of numbers that is not empty has a least one.
LEMMA LeastOfNats ==
  ASSUME NEW I \in SUBSET Nat, I # {}
  PROVE  \E n \in I : \A m \in I : n <= m
<1> DEFINE R == {ss \in Nat \X Nat : ss[1] < ss[2]}
<1>1. IsWellFoundedOn(R, Nat)
  BY NatLessThanWellFounded DEF OpToRel
<1>2. PICK n \in I : \A m \in I : ~ (<<m, n>> \in R)
  BY <1>1, WFMin
<1>3. \A m \in I : n \in Nat /\ m \in Nat /\ ~ (m < n)
  BY <1>2
<1> QED
  BY <1>3

LEMMA MinIsIn ==
  ASSUME NEW I \in SUBSET Nat, I # {}
  PROVE  Min(I) \in I
BY LeastOfNats DEF Min

\* What holds at 0, and at a number up to n when it holds just below it, holds
\* from 0 to n.
LEMMA Induction ==
  ASSUME NEW n \in Nat, NEW good \in SUBSET Nat, 0 \in good,
         \A i \in 1 .. n : i - 1 \in good => i \in good
  PROVE  0 .. n \subseteq good
<1> DEFINE bad == (0 .. n) \ good
<1> SUFFICES ASSUME bad # {} PROVE FALSE
  OBVIOUS
<1>1. PICK m \in bad : \A k \in bad : m <= k
  <2>1. bad \in SUBSET Nat
    OBVIOUS
  <2> HIDE DEF bad
  <2> QED
    BY <2>1, LeastOfNats
<1>2. m \in 1 .. n /\ m - 1 \in 0 .. n /\ ~ (m <= m - 1)
  BY <1>1
<1>3. m - 1 \in good
  BY <1>1, <1>2
<1> QED
  BY <1>1, <1>2, <1>3

\* A set of numbers with a bound has a greatest one.
LEMMA GreatestOfNats ==
  ASSUME NEW n \in Nat, NEW I \in SUBSET (0 .. n), I # {}
  PROVE  \E m \in I : \A i \in I : i <= m
<1> DEFINE J == {j \in 0 .. n : n - j \in I}
<1>1. J \in SUBSET Nat
  OBVIOUS
<1>2. PICK i \in I : TRUE
  OBVIOUS
<1>3. n - i \in J
  BY <1>2
<1>4. PICK j \in J : \A k \in J : j <= k
  <2> HIDE DEF J
  <2> QED
    BY <1>1, <1>3, LeastOfNats
<1>5. \A k \in I : n - k \in J
  OBVIOUS
<1>6. \A k \in I : k <= n - j
  BY <1>4, <1>5
<1> QED
  BY <1>4, <1>6

\* The equation of a function that is defined from 0 to n by recursion, and
\* that a function with values in S satisfies it.
Recursion(f, n, base, step) == f[0] = base /\ \A i \in 1 .. n : f[i] = step[i][f[i - 1]]
Recursive(n, S, base, step) == \E f \in [0 .. n -> S] : Recursion(f, n, base, step)

LEMMA RecursionExists ==
  ASSUME NEW n \in Nat, NEW S, NEW base \in S, NEW step \in [1 .. n -> [S -> S]]
  PROVE  Recursive(n, S, base, step)
<1> DEFINE good == {m \in Nat : m <= n => \E f \in [0 .. m -> S] : Recursion(f, m, base, step)}
<1>1. 0 \in good
  <2>1. Recursion([i \in 0 .. 0 |-> base], 0, base, step)
        /\ [i \in 0 .. 0 |-> base] \in [0 .. 0 -> S]
    BY DEF Recursion
  <2> QED
    BY <2>1
<1>2. ASSUME NEW m \in 1 .. n, m - 1 \in good PROVE m \in good
  <2>1. PICK f \in [0 .. m - 1 -> S] : Recursion(f, m - 1, base, step)
    BY <1>2
  <2> DEFINE g == [i \in 0 .. m |-> IF i = m THEN step[m][f[m - 1]] ELSE f[i]]
  <2>2. g \in [0 .. m -> S]
    OBVIOUS
  <2>3. (\A i \in 0 .. m - 1 : g[i] = f[i]) /\ g[m] = step[m][f[m - 1]]
    OBVIOUS
  <2> HIDE DEF g
  <2>4. g[0] = base
    BY <2>1, <2>3 DEF Recursion
  <2>5. ASSUME NEW i \in 1 .. m PROVE g[i] = step[i][g[i - 1]]
    <3>1. CASE i = m
      BY <2>3, <3>1
    <3>2. CASE i # m
      <4>1. i \in 1 .. m - 1 /\ i - 1 \in 0 .. m - 1 /\ i \in 0 .. m - 1
        BY <3>2
      <4> QED
        BY <2>1, <2>3, <4>1 DEF Recursion
    <3> QED
      BY <3>1, <3>2
  <2> QED
    BY <2>2, <2>4, <2>5 DEF Recursion
<1>3. n \in good
  <2>1. good \in SUBSET Nat
    OBVIOUS
  <2> HIDE DEF good
  <2>2. 0 .. n \subseteq good
    BY <1>1, <1>2, <2>1, Induction
  <2> QED
    BY <2>2
<1> QED
  BY <1>3 DEF Recursive
-----------------------------------------------------------------------------
(* Values.                                                                   *)

LEMMA StartIsTile == Start \in Tiles
BY MapAssumption DEF Start, Tiles

LEMMA BlankIsPlayer == \A c \in Conns : Blank(c) \in Player
BY StartIsTile DEF Blank, Player, NewProfile, Profile, Transport, Refs

LEMMA ToggledType == \A d \in Profile : Toggled(d) \in Profile
BY DEF Toggled, Profile

LEMMA LastIsAccount == LastFile \in Accounts
<1>1. Len(FileOrder) \in Nat /\ DOMAIN FileOrder = 1 .. Len(FileOrder)
  BY OrderAssumption
<1>2. PICK a \in Accounts : TRUE
  BY AccountAssumption
<1>3. Len(FileOrder) >= 1
  BY <1>1, <1>2, OrderAssumption
<1> QED
  BY <1>1, <1>3, OrderAssumption DEF LastFile

\* A start of the process gives cache and inventories their types.
LEMMA BootTypes ==
  ASSUME NEW f \in [Accounts -> File]
  PROVE  BootCache(f) \in [Accounts -> Cached] /\ BootBags(f) \in [Refs -> Seq(Kinds)]
<1>1. BootCache(f) \in [Accounts -> Cached]
  BY DEF BootCache, Cached, File, Refs
<1>2. BootBags(f) \in [Refs -> Seq(Kinds)]
  BY DEF BootBags, File
<1> QED
  BY <1>1, <1>2

\* What drop finds is a place of the inventory that holds the item.
LEMMA DropIndexPlace ==
  ASSUME NEW b \in Seq(Kinds), NEW k, DropIndex(b, k) # 0
  PROVE  DropIndex(b, k) \in 1 .. Len(b) /\ b[DropIndex(b, k)] = k
<1> DEFINE I == {j \in 1 .. Len(b) : b[j] = k}
<1>1. I # {} /\ DropIndex(b, k) = Min(I)
  BY DEF DropIndex, SelectInSeq
<1>2. I \in SUBSET Nat
  OBVIOUS
<1>3. Min(I) \in I
  BY <1>1, <1>2, MinIsIn
<1> QED
  BY <1>1, <1>3

LEMMA RemoveAtType ==
  ASSUME NEW b \in Seq(Kinds), NEW i \in 1 .. Len(b)
  PROVE  RemoveAt(b, i) \in Seq(Kinds)
BY DEF RemoveAt

\* A tile go may step on is a tile of the map.
LEMMA PassableIsTile == \A t : IsPassable(t) => t \in Tiles /\ t \notin Walls
BY DEF IsPassable
-----------------------------------------------------------------------------
(* The registry of sessions.                                                 *)

\* A save writes a file and a cache entry of the right types.
LEMMA SaveTypes ==
  ASSUME CoreOK, NEW p, NEW b \in [Refs -> Seq(Kinds)],
         p.acct \in Accounts, p.data \in Profile, p.ref \in Refs, Save(p, b)
  PROVE  files' \in [Accounts -> File] /\ cache' \in [Accounts -> Cached]
<1>1. FileOf(p, b) \in File
  BY DEF FileOf, File
<1>2. \A e : EntryOf(p, e) \in Cached
  BY DEF EntryOf, Cached
<1> QED
  BY <1>1, <1>2 DEF Save, CoreOK

\* removePlayer takes one session out and leaves no key that shows it.
LEMMA RemovePlayerEffect ==
  ASSUME RegistryInv, NEW id \in Conns, RemovePlayer(id)
  PROVE  /\ players' \in [Conns -> Player]
         /\ alias' \in [Accounts -> 0 .. MaxConns]
         /\ online' = online \ {id}
         /\ \A d \in Conns \ {id} : players'[d] = players[d]
         /\ AliasLive'
<1>1. CASE id \notin online
  BY <1>1 DEF RemovePlayer, RegistryInv, CoreOK, AliasLive
<1>2. CASE id \in online
  <2>1. players' = [players EXCEPT ![id] = Blank(id)] /\ online' = online \ {id}
    BY <1>2 DEF RemovePlayer
  <2>2. /\ players' \in [Conns -> Player]
        /\ \A d \in Conns \ {id} : players'[d] = players[d]
    BY <2>1, BlankIsPlayer DEF RegistryInv, CoreOK
  <2>3. CASE players[id].acct = NoAccount
    <3>1. alias' = alias
      BY <1>2, <2>3 DEF RemovePlayer, AliasWithout
    <3>2. \A a \in Accounts : alias[a] # id
      BY <2>3, AccountAssumption, ConnAssumption DEF RegistryInv, AliasLive, Conns
    <3> QED
      BY <2>1, <2>2, <3>1, <3>2, ConnAssumption DEF RegistryInv, CoreOK, AliasLive, Conns
  <2>4. CASE players[id].acct # NoAccount
    <3>1. alias' = [alias EXCEPT ![players[id].acct] = 0] /\ players[id].acct \in Accounts
      BY <1>2, <2>4 DEF RemovePlayer, AliasWithout, RegistryInv, CoreOK, Player
    <3>2. alias' \in [Accounts -> 0 .. MaxConns]
      BY <3>1, ConnAssumption DEF RegistryInv, CoreOK
    <3>3. \A a \in Accounts : alias'[a] # 0 => alias'[a] = alias[a] /\ alias[a] # id
      BY <3>1 DEF RegistryInv, CoreOK, AliasLive
    <3> QED
      BY <2>1, <2>2, <3>2, <3>3, ConnAssumption DEF RegistryInv, CoreOK, AliasLive, Conns
  <2> QED
    BY <2>1, <2>2, <2>3, <2>4
<1> QED
  BY <1>1, <1>2

\* What login copies over a session is a player with the session's id.
LEMMA AdoptType ==
  ASSUME NEW c \in Conns, NEW e, e.acct \in Accounts, e.data \in Profile, e.ref \in Refs
  PROVE  Adopt(c, e) \in Player /\ Adopt(c, e).id = c
         /\ Adopt(c, e).ctype = Transport(c) /\ Adopt(c, e).acct = e.acct
BY DEF Adopt, Player, Transport

LEMMA RegistryInit == Init => RegistryInv
<1> SUFFICES ASSUME Init PROVE RegistryInv
  OBVIOUS
<1>1. files \in [Accounts -> File] /\ files = BootFile
  BY FileAssumption DEF Init
<1>2. CoreOK
  BY <1>1, BootTypes, BlankIsPlayer, ConnAssumption DEF Init, CoreOK
<1> QED
  BY <1>2 DEF Init, RegistryInv, SessionIdentity, AliasLive, RegistriesAgree

\* A command that changes a session's profile and saves it.
LEMMA ProfileStep ==
  ASSUME RegistryInv, NEW c \in online, NEW q \in Player,
         q.id = players[c].id, q.acct = players[c].acct, q.ctype = players[c].ctype,
         q.acct \in Accounts,
         players' = [players EXCEPT ![c] = q], Save(q, bags),
         alias' = alias \/ alias' = [alias EXCEPT ![q.acct] = c],
         UNCHANGED <<nconn, open, clients, online, bags, proto>>
  PROVE  RegistryInv'
<1>1. c \in Conns /\ c \in 0 .. MaxConns
  BY ConnAssumption DEF RegistryInv, CoreOK, Conns
<1>2. files' \in [Accounts -> File] /\ cache' \in [Accounts -> Cached]
  BY SaveTypes DEF RegistryInv, CoreOK, Player
<1>3. players' \in [Conns -> Player] /\ alias' \in [Accounts -> 0 .. MaxConns]
  BY <1>1 DEF RegistryInv, CoreOK
<1>4. CoreOK'
  BY <1>2, <1>3 DEF RegistryInv, CoreOK
<1>5. SessionIdentity' /\ RegistriesAgree'
  BY <1>1 DEF RegistryInv, CoreOK, SessionIdentity, RegistriesAgree, Transport
<1>6. AliasLive'
  BY <1>1 DEF RegistryInv, CoreOK, AliasLive
<1> QED
  BY <1>4, <1>5, <1>6 DEF RegistryInv

\* A step that leaves the sessions alone.
LEMMA QuietStep ==
  ASSUME RegistryInv, CoreOK',
         UNCHANGED <<nconn, open, clients, online, players, alias>>
  PROVE  RegistryInv'
BY DEF RegistryInv, SessionIdentity, AliasLive, RegistriesAgree, Transport

LEMMA RegistryNext == RegistryInv /\ [Next]_vars => RegistryInv'
<1> SUFFICES ASSUME RegistryInv, [Next]_vars PROVE RegistryInv'
  OBVIOUS
<1> USE ConnAssumption DEF Conns
<1>1. CoreOK /\ SessionIdentity /\ AliasLive /\ RegistriesAgree
  BY DEF RegistryInv
<1>3. CASE Connect
  <2>1. nconn' = nconn + 1 /\ nconn' \in Conns
    BY <1>1, <1>3 DEF Connect, CoreOK
  <2>2. CoreOK'
    BY <1>1, <1>3, <2>1, BlankIsPlayer DEF Connect, CoreOK, store, items
  <2>3. SessionIdentity' /\ RegistriesAgree'
    BY <1>1, <1>3, <2>1 DEF Connect, CoreOK, SessionIdentity, RegistriesAgree, Blank, Transport
  <2>4. AliasLive'
    BY <1>1, <1>3, <2>1 DEF Connect, CoreOK, AliasLive
  <2> QED
    BY <2>2, <2>3, <2>4 DEF RegistryInv
<1>4. ASSUME NEW c \in Conns, DisconnectWebsocket(c) PROVE RegistryInv'
  <2>1. RemovePlayer(c)
    BY <1>4 DEF DisconnectWebsocket, RemovedId
  <2> HIDE DEF Conns
  <2>2. /\ players' \in [Conns -> Player]
        /\ alias' \in [Accounts -> 0 .. MaxConns]
        /\ online' = online \ {c}
        /\ \A d \in Conns \ {c} : players'[d] = players[d]
        /\ AliasLive'
    BY <2>1, RemovePlayerEffect
  <2> USE DEF Conns
  <2>3. CoreOK'
    BY <1>1, <1>4, <2>2 DEF DisconnectWebsocket, CoreOK, store, items
  <2>4. SessionIdentity' /\ RegistriesAgree'
    BY <1>1, <1>4, <2>2 DEF DisconnectWebsocket, CoreOK, SessionIdentity, RegistriesAgree, Transport
  <2> QED
    BY <2>2, <2>3, <2>4 DEF RegistryInv
<1>5. ASSUME NEW c \in Conns, DisconnectTelnet(c) PROVE RegistryInv'
  <2>1. CoreOK'
    BY <1>1, <1>5 DEF DisconnectTelnet, CoreOK, store, items
  <2> QED
    BY <1>1, <1>5, <2>1 DEF DisconnectTelnet, RegistryInv, SessionIdentity, AliasLive,
                            RegistriesAgree, Transport
<1>6. ASSUME NEW c \in Conns, NEW a \in Accounts, Login(c, a) PROVE RegistryInv'
  <2>1. c \in online /\ players[c].acct = NoAccount
    BY <1>6 DEF Login, CanRun
  <2>2. PICK r \in Refs : players' = [players EXCEPT ![c] =
                                     Adopt(c, [acct |-> a, data |-> cache[a].data, ref |-> r])]
    BY <1>1, <1>6 DEF Login, LoginByClone, LoginByObject, Refs, CoreOK, Cached
  <2>3. Adopt(c, [acct |-> a, data |-> cache[a].data, ref |-> r]) \in Player
        /\ players'[c].id = c /\ players'[c].ctype = Transport(c)
    BY <1>1, <2>2, AdoptType DEF CoreOK, Cached
  <2>4. bags' \in [Refs -> Seq(Kinds)]
    BY <1>1, <1>6 DEF Login, LoginByClone, LoginByObject, CoreOK, Cached
  <2>5. CoreOK'
    BY <1>1, <1>6, <2>2, <2>3, <2>4 DEF Login, CoreOK, store
  <2>6. SessionIdentity' /\ RegistriesAgree'
    BY <1>1, <1>6, <2>2, <2>3 DEF Login, CoreOK, SessionIdentity, RegistriesAgree, Transport
  <2>7. AliasLive'
    BY <1>1, <1>6, <2>1, <2>2, AccountAssumption DEF Login, CoreOK, AliasLive
  <2> QED
    BY <2>5, <2>6, <2>7 DEF RegistryInv
<1>7. ASSUME NEW c \in Conns, NEW a \in Accounts, LoginRejected(c, a) PROVE RegistryInv'
  BY <1>1, <1>7, QuietStep DEF LoginRejected, CoreOK, store, items
<1>8. ASSUME NEW c \in Conns, LoginUnknown(c) PROVE RegistryInv'
  BY <1>1, <1>8, QuietStep DEF LoginUnknown, CoreOK, store, items
<1>9. ASSUME NEW c \in Conns, NEW f \in SUBSET Fields, Set(c, f) PROVE RegistryInv'
  <2>1. c \in online /\ players[c] \in Player /\ players[c].acct \in Accounts
    BY <1>1, <1>9 DEF Set, CanRun, CoreOK, Player
  <2> DEFINE q == [players[c] EXCEPT !.data.filled = @ \cup f]
  <2>2. q \in Player /\ q.id = players[c].id /\ q.acct = players[c].acct
        /\ q.ctype = players[c].ctype
    BY <2>1 DEF Player, Profile
  <2>3. players' = [players EXCEPT ![c] = q] /\ players'[c] = q
    BY <1>1, <1>9 DEF Set, CoreOK
  <2> QED
    BY <1>9, <2>1, <2>2, <2>3, ProfileStep DEF Set, items
<1>10. ASSUME NEW c \in Conns, Finish(c) PROVE RegistryInv'
  <2>1. c \in online /\ players[c] \in Player /\ players[c].acct \in Accounts
    BY <1>1, <1>10 DEF Finish, CanRun, CoreOK, Player
  <2> DEFINE q == [players[c] EXCEPT !.data.area = "entrance"]
  <2>2. q \in Player /\ q.id = players[c].id /\ q.acct = players[c].acct
        /\ q.ctype = players[c].ctype
    BY <2>1 DEF Player, Profile
  <2>3. players' = [players EXCEPT ![c] = q] /\ players'[c] = q
    BY <1>1, <1>10 DEF Finish, CoreOK
  <2> QED
    BY <1>10, <2>1, <2>2, <2>3, ProfileStep DEF Finish, items
<1>11. ASSUME NEW c \in Conns, Quit(c) PROVE RegistryInv'
  <2>1. c \in online /\ players[c] \in Player /\ players[c].acct \in Accounts
        /\ players[c].id = c
    BY <1>1, <1>11 DEF Quit, CanRun, CoreOK, Player, SessionIdentity
  <2>2. files' \in [Accounts -> File] /\ cache' \in [Accounts -> Cached]
    BY <1>1, <1>11, <2>1, SaveTypes DEF Quit, CoreOK, Player
  <2>3. RemovePlayer(c)
    BY <1>11, <2>1 DEF Quit
  <2> HIDE DEF Conns
  <2>4. /\ players' \in [Conns -> Player]
        /\ alias' \in [Accounts -> 0 .. MaxConns]
        /\ online' = online \ {c}
        /\ \A d \in Conns \ {c} : players'[d] = players[d]
        /\ AliasLive'
    BY <2>3, RemovePlayerEffect
  <2> USE DEF Conns
  <2>5. CoreOK'
    BY <1>1, <1>11, <2>2, <2>4 DEF Quit, CoreOK, items
  <2>6. SessionIdentity' /\ RegistriesAgree'
    BY <1>1, <1>11, <2>4 DEF Quit, CoreOK, SessionIdentity, RegistriesAgree, Transport
  <2> QED
    BY <2>4, <2>5, <2>6 DEF RegistryInv
<1>12. ASSUME NEW c \in Conns, NEW d \in Steps, Go(c, d) PROVE RegistryInv'
  <2>1. c \in online /\ players[c] \in Player /\ players[c].acct \in Accounts
    BY <1>1, <1>12 DEF Go, CanRun, CoreOK, Player
  <2> DEFINE t == <<players[c].data.pos[1] + d[1], players[c].data.pos[2] + d[2]>>
             q == [players[c] EXCEPT !.data.pos = t]
  <2>2. t \in Tiles
    BY <1>12, PassableIsTile DEF Go
  <2>3. q \in Player /\ q.id = players[c].id /\ q.acct = players[c].acct
        /\ q.ctype = players[c].ctype
    <3> HIDE DEF t
    <3> QED
      BY <2>1, <2>2 DEF Player, Profile
  <2>4. players' = [players EXCEPT ![c] = q] /\ players'[c] = q
    BY <1>1, <1>12 DEF Go, CoreOK
  <2> HIDE DEF q
  <2> QED
    BY <1>12, <2>1, <2>3, <2>4, ProfileStep DEF Go, items
<1>13. ASSUME NEW c \in Conns, NEW k \in Kinds, Get(c, k) PROVE RegistryInv'
  <2>1. c \in online /\ players[c] \in Player /\ players[c].acct \in Accounts
    BY <1>1, <1>13 DEF Get, CanRun, CoreOK, Player
  <2>2. bags' \in [Refs -> Seq(Kinds)]
    BY <1>1, <1>13, <2>1 DEF Get, CoreOK, Player
  <2>3. files' \in [Accounts -> File] /\ cache' \in [Accounts -> Cached]
    BY <1>1, <1>13, <2>1, <2>2, SaveTypes DEF Get, Player
  <2>4. proto' \in [Kinds -> Tiles \cup {Nowhere}]
    BY <1>1, <1>13 DEF Get, CoreOK
  <2>5. CoreOK'
    BY <1>1, <1>13, <2>2, <2>3, <2>4 DEF Get, CoreOK, registry
  <2> QED
    BY <1>13, <2>5, QuietStep DEF Get, registry
<1>14. ASSUME NEW c \in Conns, NEW k \in Kinds, Drop(c, k) PROVE RegistryInv'
  <2>1. c \in online /\ players[c] \in Player /\ players[c].acct \in Accounts
        /\ players[c].data.pos \in Tiles
    BY <1>1, <1>14 DEF Drop, CanRun, CoreOK, Player, Profile
  <2>2. bags' \in [Refs -> Seq(Kinds)]
    <3>1. bags[players[c].ref] \in Seq(Kinds)
      BY <1>1, <2>1 DEF CoreOK, Player
    <3>2. DropIndex(bags[players[c].ref], k) \in 1 .. Len(bags[players[c].ref])
      BY <1>14, <3>1, DropIndexPlace DEF Drop
    <3>3. RemoveAt(bags[players[c].ref], DropIndex(bags[players[c].ref], k)) \in Seq(Kinds)
      BY <3>1, <3>2, RemoveAtType
    <3> QED
      BY <1>1, <1>14, <3>3 DEF Drop, CoreOK
  <2>3. files' \in [Accounts -> File] /\ cache' \in [Accounts -> Cached]
    BY <1>1, <1>14, <2>1, <2>2, SaveTypes DEF Drop, Player
  <2>4. proto' \in [Kinds -> Tiles \cup {Nowhere}]
    BY <1>1, <1>14, <2>1 DEF Drop, CoreOK
  <2>5. CoreOK'
    BY <1>1, <1>14, <2>2, <2>3, <2>4 DEF Drop, CoreOK, registry
  <2> QED
    BY <1>14, <2>5, QuietStep DEF Drop, registry
<1>15. ASSUME NEW c \in Conns, NEW k \in Kinds, Clone(c, k) PROVE RegistryInv'
  BY <1>1, <1>15, QuietStep DEF Clone, CoreOK, registry, store
<1>16. ASSUME NEW c \in Conns, NEW a \in Accounts, Priv(c, a) PROVE RegistryInv'
  <2>1. CASE PrivClone(a)
    <3> DEFINE t == [acct |-> a, ref |-> a, data |-> Toggled(cache[a].data)]
    <3>1. t.acct \in Accounts /\ t.ref \in Refs /\ t.data \in Profile
      BY <1>1, ToggledType DEF CoreOK, Cached, Refs
    <3>2. Save(t, bags)
      BY <2>1 DEF PrivClone
    <3> HIDE DEF t
    <3>3. files' \in [Accounts -> File] /\ cache' \in [Accounts -> Cached]
      BY <1>1, <3>1, <3>2, SaveTypes DEF CoreOK
    <3> QED
      BY <1>1, <1>16, <3>3, QuietStep DEF Priv, CoreOK, items
  <2>2. CASE PrivObject(a)
    <3>1. cache' \in [Accounts -> Cached]
      BY <1>1, <2>2, ToggledType DEF PrivObject, CoreOK, Cached
    <3> QED
      BY <1>1, <1>16, <2>2, <3>1, QuietStep DEF Priv, PrivObject, CoreOK, items
  <2> QED
    BY <1>16, <2>1, <2>2 DEF Priv
<1>17. ASSUME NEW c \in Conns, PrivUnknown(c) PROVE RegistryInv'
  BY <1>1, <1>17, QuietStep DEF PrivUnknown, CoreOK, store, items
<1>18. ASSUME NEW c \in Conns, ReloadJSON(c) PROVE RegistryInv'
  BY <1>1, <1>18, QuietStep DEF ReloadJSON, CoreOK, store
<1>19. CASE Restart
  <2>1. CoreOK'
    BY <1>1, <1>19, BootTypes, BlankIsPlayer DEF Restart, CoreOK
  <2> QED
    BY <1>19, <2>1 DEF Restart, RegistryInv, SessionIdentity, AliasLive, RegistriesAgree
<1>20. CASE UNCHANGED vars
  BY <1>1, <1>20, QuietStep DEF vars, registry, store, items, CoreOK
<1> QED
  BY <1>3, <1>4, <1>5, <1>6, <1>7, <1>8, <1>9, <1>10, <1>11, <1>12, <1>13, <1>14,
     <1>15, <1>16, <1>17, <1>18, <1>19, <1>20 DEF Next, Crash, Shutdown

\* Every second key shows a live session, and the two registries agree, for any
\* number of connections and accounts (player.js, login.js, finish.js, quit.js,
\* manager.go).
THEOREM RegistrySafe == Spec => [](AliasLive /\ RegistriesAgree)
<1>1. RegistryInv => AliasLive /\ RegistriesAgree
  BY DEF RegistryInv
<1> QED
  BY RegistryInit, RegistryNext, <1>1, PTL DEF Spec
-----------------------------------------------------------------------------
(* Who may change which inventory array.  Saved objects, and the sessions    *)
(* that logged in from them, share arrays: the invariant is that they share  *)
(* them within one account, and that a session without an account has an     *)
(* array nobody else sees.                                                   *)

Holds(r, a) == \/ cache[a].ref = r
               \/ \E c \in online : players[c].acct = a /\ players[c].ref = r

ArraysApart ==
    /\ \A r \in Refs : \A a, b \in Accounts : Holds(r, a) /\ Holds(r, b) => a = b
    /\ \A r, a \in Accounts : Holds(r, a) => r = a
    /\ \A c \in Conns : c > nconn => \A a \in Accounts : ~ Holds(c, a)
    /\ \A c \in online : players[c].acct = NoAccount =>
          players[c].ref = c /\ \A a \in Accounts : ~ Holds(c, a)
    /\ \A a \in Accounts : cache[a].class = "Player" => cache[a].ref = a

\* SingleLogin, as an invariant.
OneSession == SingleLogin => \A c, d \in online \cap open :
    players[c].acct = players[d].acct /\ players[c].acct # NoAccount => c = d

WorldInv == /\ ArraysApart
            /\ CacheCoherent
            /\ OnPassableTile
            /\ OneSession
            /\ NothingToLose

LEMMA WorldInit == Init => WorldInv
<1> SUFFICES ASSUME Init PROVE WorldInv
  OBVIOUS
<1>1. online = {} /\ files = BootFile
  BY DEF Init
<1>2. \A a \in Accounts : /\ cache[a].class = "Player" /\ cache[a].ref = a
                          /\ cache[a].data = files[a].data /\ bags[a] = files[a].bag
  BY DEF Init, BootCache, BootBags, Refs
<1>3. ArraysApart
  BY <1>1, <1>2, AccountAssumption DEF ArraysApart, Holds
<1>4. CacheCoherent
  BY <1>2 DEF CacheCoherent, SameProgress
<1>5. OnPassableTile
  BY <1>1, <1>2, FileAssumption DEF OnPassableTile
<1> QED
  BY <1>1, <1>3, <1>4, <1>5 DEF WorldInv, OneSession, NothingToLose

LEMMA OnlineAreConns == CoreOK => online \subseteq Conns
BY ConnAssumption DEF CoreOK, Conns

\* A step after which no array has a holder it had not before.
LEMMA HoldersOnlyLeave ==
  ASSUME RegistryInv, RegistryInv', ArraysApart, nconn' = nconn,
         \A r \in Refs, a \in Accounts : Holds(r, a)' => Holds(r, a),
         \A c \in online' : players'[c].acct = NoAccount =>
            c \in online /\ players[c].acct = NoAccount /\ players'[c].ref = players[c].ref,
         \A a \in Accounts : cache'[a].class = "Player" => cache'[a].ref = a
  PROVE  ArraysApart'
<1>1. Accounts \subseteq Refs /\ Conns \subseteq Refs
  BY DEF Refs
<1>2. \A r \in Refs : \A a, b \in Accounts : Holds(r, a)' /\ Holds(r, b)' => a = b
  BY DEF ArraysApart
<1>3. \A r, a \in Accounts : Holds(r, a)' => r = a
  BY <1>1 DEF ArraysApart
<1>4. \A c \in Conns : c > nconn' => \A a \in Accounts : ~ Holds(c, a)'
  BY <1>1 DEF ArraysApart
<1>5. \A c \in online' : players'[c].acct = NoAccount =>
        players'[c].ref = c /\ \A a \in Accounts : ~ Holds(c, a)'
  BY <1>1, OnlineAreConns DEF ArraysApart, RegistryInv
<1> QED
  BY <1>2, <1>3, <1>4, <1>5 DEF ArraysApart

\* A command that ends with save(): the session's profile, its inventory
\* array, or nothing changed, and the session may have left with it.
LEMMA SaveStep ==
  ASSUME RegistryInv, RegistryInv', WorldInv,
         NEW c \in online \cap open, NEW q \in Player, q.acct \in Accounts,
         q.acct = players[c].acct, q.ref = players[c].ref, q.data.pos \notin Walls,
         \A r \in Refs \ {q.ref} : bags'[r] = bags[r],
         Save(q, bags'), nconn' = nconn, open' = open,
         \/ online' = online /\ players' = [players EXCEPT ![c] = q]
         \/ online' = online \ {c} /\ \A d \in Conns \ {c} : players'[d] = players[d]
  PROVE  WorldInv'
<1> USE ConnAssumption DEF Conns
<1>1. /\ CoreOK /\ CoreOK' /\ ArraysApart /\ CacheCoherent /\ OnPassableTile
      /\ OneSession /\ NothingToLose
  BY DEF RegistryInv, WorldInv
<1>2. c \in Conns /\ q.ref \in Refs
  BY <1>1, OnlineAreConns DEF Player
<1>3. /\ files'[q.acct].data = q.data /\ files'[q.acct].bag = bags'[q.ref]
      /\ cache'[q.acct] = [class |-> "Object", data |-> q.data, ref |-> q.ref]
  BY <1>1 DEF Save, FileOf, EntryOf, CoreOK
<1>4. \A a \in Accounts \ {q.acct} : files'[a] = files[a] /\ cache'[a] = cache[a]
  BY <1>1 DEF Save, CoreOK
<1>5. /\ online' \subseteq online
      /\ c \in online' => players'[c] = q
      /\ \A d \in online' \ {c} : players'[d] = players[d]
  BY <1>1, <1>2 DEF CoreOK
<1>6. Holds(q.ref, q.acct)
  BY DEF Holds
<1>7. ArraysApart'
  <2>1. \A r \in Refs, a \in Accounts : Holds(r, a)' => Holds(r, a)
    BY <1>3, <1>4, <1>5, <1>6 DEF Holds
  <2>2. \A d \in online' : players'[d].acct = NoAccount =>
           d \in online /\ players[d].acct = NoAccount /\ players'[d].ref = players[d].ref
    BY <1>5, AccountAssumption
  <2>3. \A a \in Accounts : cache'[a].class = "Player" => cache'[a].ref = a
    BY <1>1, <1>3, <1>4 DEF ArraysApart
  <2> QED
    BY <1>1, <2>1, <2>2, <2>3, HoldersOnlyLeave
<1>8. \A a \in Accounts \ {q.acct} : \A r \in Refs : Holds(r, a) => bags'[r] = bags[r]
  BY <1>1, <1>2, <1>6 DEF ArraysApart
<1>9. CacheCoherent'
  <2>1. \A a \in Accounts \ {q.acct} : bags'[cache[a].ref] = bags[cache[a].ref]
    BY <1>1, <1>8 DEF Holds, CoreOK, Cached
  <2> QED
    BY <1>1, <1>3, <1>4, <2>1 DEF CacheCoherent, SameProgress
<1>10. OnPassableTile'
  BY <1>1, <1>3, <1>4, <1>5 DEF OnPassableTile
<1>11. OneSession'
  BY <1>1, <1>5 DEF OneSession
<1>12. NothingToLose'
  <2> SUFFICES ASSUME SingleLogin, NEW d \in online' \cap open', players'[d].acct # NoAccount
               PROVE  /\ SameProgress(files'[players'[d].acct].data, players'[d].data)
                      /\ files'[players'[d].acct].bag = bags'[players'[d].ref]
    BY DEF NothingToLose, SameProgress
  <2>1. CASE d = c
    BY <1>3, <1>5, <2>1 DEF SameProgress
  <2>2. CASE d # c
    <3>1. players'[d] = players[d] /\ d \in online \cap open /\ players[d] \in Player
      BY <1>1, <1>5, <2>2 DEF CoreOK
    <3>2. players[d].acct \in Accounts /\ players[d].acct # q.acct
      BY <1>1, <2>2, <3>1 DEF OneSession, Player
    <3>3. bags'[players[d].ref] = bags[players[d].ref]
      BY <1>8, <3>1, <3>2 DEF Holds, Player
    <3> QED
      BY <1>1, <1>4, <3>1, <3>2, <3>3 DEF NothingToLose
  <2> QED
    BY <2>1, <2>2
<1> QED
  BY <1>7, <1>9, <1>10, <1>11, <1>12 DEF WorldInv

\* A step in which sessions or sockets only leave.
LEMMA LeaveStep ==
  ASSUME RegistryInv, RegistryInv', WorldInv,
         nconn' = nconn, online' \subseteq online, open' \subseteq open,
         \A d \in online' : players'[d] = players[d],
         UNCHANGED <<cache, files, bags>>
  PROVE  WorldInv'
<1>1. CoreOK /\ ArraysApart /\ CacheCoherent /\ OnPassableTile /\ OneSession /\ NothingToLose
  BY DEF RegistryInv, WorldInv
<1>2. ArraysApart'
  <2>1. \A r \in Refs, a \in Accounts : Holds(r, a)' => Holds(r, a)
    BY DEF Holds
  <2> QED
    BY <1>1, <2>1, HoldersOnlyLeave DEF ArraysApart
<1>3. CacheCoherent' /\ OnPassableTile' /\ OneSession'
  BY <1>1 DEF CacheCoherent, OnPassableTile, OneSession, SameProgress
<1>4. NothingToLose'
  BY <1>1 DEF NothingToLose, SameProgress
<1> QED
  BY <1>2, <1>3, <1>4 DEF WorldInv

LEMMA ConnectWorld == RegistryInv /\ RegistryInv' /\ WorldInv /\ Connect => WorldInv'
<1> SUFFICES ASSUME RegistryInv, RegistryInv', WorldInv, Connect PROVE WorldInv'
  OBVIOUS
<1> DEFINE c == nconn + 1
<1>1. CoreOK /\ ArraysApart /\ CacheCoherent /\ OnPassableTile /\ OneSession /\ NothingToLose
  BY DEF RegistryInv, WorldInv
<1>2. c \in Conns /\ c > nconn /\ c \notin online /\ nconn' = c /\ c \in Refs
  BY <1>1, ConnAssumption DEF Connect, CoreOK, Conns, Refs
<1>3. /\ online' = online \cup {c} /\ open' = open \cup {c}
      /\ players'[c] = Blank(c) /\ \A d \in online : players'[d] = players[d]
      /\ cache' = cache /\ files' = files /\ bags' = bags
  BY <1>1, <1>2 DEF Connect, CoreOK, store, items
<1>4. players'[c].acct = NoAccount /\ players'[c].ref = c /\ players'[c].data = NewProfile
  BY <1>3 DEF Blank
<1> HIDE DEF c
<1>5. \A r \in Refs, a \in Accounts : Holds(r, a)' => Holds(r, a)
  BY <1>3, <1>4, AccountAssumption DEF Holds
<1>6. ArraysApart'
  <2>1. Accounts \subseteq Refs /\ Conns \subseteq Refs
    BY DEF Refs
  <2>2. \A d \in Conns : d > nconn' => d > nconn
    BY <1>1, <1>2, ConnAssumption DEF CoreOK, Conns
  <2>3. \A d \in online' : players'[d].acct = NoAccount =>
          players'[d].ref = d /\ \A a \in Accounts : ~ Holds(d, a)
    BY <1>1, <1>2, <1>3, <1>4 DEF ArraysApart
  <2>4. online' \subseteq Refs
    BY <1>1, <1>2, <1>3, <2>1, OnlineAreConns
  <2> QED
    BY <1>1, <1>3, <1>5, <2>1, <2>2, <2>3, <2>4 DEF ArraysApart
<1>7. CacheCoherent' /\ OnPassableTile'
  BY <1>1, <1>3, <1>4, MapAssumption DEF CacheCoherent, OnPassableTile, SameProgress, NewProfile
<1>8. OneSession'
  BY <1>1, <1>3, <1>4 DEF OneSession
<1>9. NothingToLose'
  BY <1>1, <1>3, <1>4 DEF NothingToLose, SameProgress
<1> QED
  BY <1>6, <1>7, <1>8, <1>9 DEF WorldInv

\* What both ways to log in do: the session takes the cached profile and an
\* inventory array that holds what the cached one holds.
LEMMA LoginEffect ==
  ASSUME RegistryInv, RegistryInv', WorldInv, NEW c \in Conns, NEW a \in Accounts, Login(c, a)
  PROVE  /\ c \in online \cap open /\ players[c].acct = NoAccount
         /\ online' = online /\ open' = open /\ nconn' = nconn
         /\ cache' = cache /\ files' = files
         /\ players'[c].acct = a /\ players'[c].data = cache[a].data
         /\ players'[c].ref \in {c, cache[a].ref}
         /\ bags'[players'[c].ref] = bags[cache[a].ref]
         /\ \A d \in Conns \ {c} : players'[d] = players[d]
         /\ \A r \in Refs \ {c} : bags'[r] = bags[r]
<1>1. CoreOK /\ ArraysApart /\ c \in Refs
  BY DEF RegistryInv, WorldInv, Refs
<1>2. c \in online \cap open /\ players[c].acct = NoAccount
  BY DEF Login, CanRun
<1>3. CASE LoginByClone(c, a)
  <2>1. players'[c] = Adopt(c, [acct |-> a, data |-> cache[a].data, ref |-> c])
        /\ \A d \in Conns \ {c} : players'[d] = players[d]
    BY <1>1, <1>3 DEF LoginByClone, CoreOK
  <2>2. bags'[c] = bags[cache[a].ref] /\ \A r \in Refs \ {c} : bags'[r] = bags[r]
    BY <1>1, <1>3 DEF LoginByClone, CoreOK
  <2> QED
    BY <1>2, <2>1, <2>2 DEF Login, Adopt, store
<1>4. CASE LoginByObject(c, a)
  <2>1. players'[c] = Adopt(c, [acct |-> a, data |-> cache[a].data, ref |-> cache[a].ref])
        /\ \A d \in Conns \ {c} : players'[d] = players[d]
    BY <1>1, <1>4 DEF LoginByObject, CoreOK
  <2> QED
    BY <1>2, <1>4, <2>1 DEF Login, LoginByObject, Adopt, store
<1> QED
  BY <1>3, <1>4 DEF Login

LEMMA LoginWorld ==
  ASSUME RegistryInv, RegistryInv', WorldInv, NEW c \in Conns, NEW a \in Accounts, Login(c, a)
  PROVE  WorldInv'
<1>1. /\ CoreOK /\ ArraysApart /\ CacheCoherent /\ OnPassableTile /\ OneSession
      /\ NothingToLose /\ c \in Refs /\ online \subseteq Conns
  BY OnlineAreConns DEF RegistryInv, WorldInv, Refs
<1>2. /\ c \in online \cap open /\ players[c].acct = NoAccount
      /\ online' = online /\ open' = open /\ nconn' = nconn
      /\ cache' = cache /\ files' = files
      /\ players'[c].acct = a /\ players'[c].data = cache[a].data
      /\ players'[c].ref \in {c, cache[a].ref}
      /\ bags'[players'[c].ref] = bags[cache[a].ref]
      /\ \A d \in Conns \ {c} : players'[d] = players[d]
      /\ \A r \in Refs \ {c} : bags'[r] = bags[r]
  BY LoginEffect
<1>3. \A b \in Accounts : ~ Holds(c, b)
  BY <1>1, <1>2 DEF ArraysApart
<1>4. \A r \in Refs, b \in Accounts : Holds(r, b)' => Holds(r, b) \/ (r = c /\ b = a)
  BY <1>1, <1>2 DEF Holds
<1>5. ArraysApart'
  <2>1. Accounts \subseteq Refs /\ Conns \subseteq Refs /\ c \notin Accounts
    BY AccountAssumption DEF Refs
  <2>2. \A r \in Refs : \A x, b \in Accounts : Holds(r, x)' /\ Holds(r, b)' => x = b
    BY <1>1, <1>3, <1>4 DEF ArraysApart
  <2>3. \A r, b \in Accounts : Holds(r, b)' => r = b
    BY <1>1, <1>4, <2>1 DEF ArraysApart
  <2>4. \A d \in Conns : d > nconn' => \A b \in Accounts : ~ Holds(d, b)'
    <3>1. c <= nconn /\ c \in Int /\ nconn \in Int
      BY <1>1, <1>2, ConnAssumption DEF CoreOK, Conns
    <3>2. \A d \in Conns : d > nconn => d # c
      BY <3>1
    <3> QED
      BY <1>1, <1>2, <1>4, <2>1, <3>2 DEF ArraysApart
  <2>5. \A d \in online' : players'[d].acct = NoAccount =>
          players'[d].ref = d /\ \A b \in Accounts : ~ Holds(d, b)'
    BY <1>1, <1>2, <1>4, <2>1, AccountAssumption DEF ArraysApart
  <2> QED
    BY <1>1, <1>2, <2>2, <2>3, <2>4, <2>5 DEF ArraysApart
<1>6. CacheCoherent'
  <2>1. \A b \in Accounts : bags'[cache[b].ref] = bags[cache[b].ref]
    BY <1>1, <1>2, <1>3 DEF Holds, CoreOK, Cached
  <2> QED
    BY <1>1, <1>2, <2>1 DEF CacheCoherent, SameProgress
<1>7. OnPassableTile'
  BY <1>1, <1>2 DEF OnPassableTile
<1>8. OneSession'
  <2>1. SingleLogin => \A d \in online \cap open : players[d].acct # a
    BY DEF Login
  <2> QED
    BY <1>1, <1>2, <2>1 DEF OneSession
<1>9. NothingToLose'
  <2> SUFFICES ASSUME SingleLogin, NEW d \in online \cap open, players'[d].acct # NoAccount
               PROVE  /\ SameProgress(files[players'[d].acct].data, players'[d].data)
                      /\ files[players'[d].acct].bag = bags'[players'[d].ref]
    BY <1>2 DEF NothingToLose, SameProgress
  <2>1. CASE d = c
    BY <1>1, <1>2, <2>1 DEF CacheCoherent
  <2>2. CASE d # c
    <3>1. players'[d] = players[d] /\ players[d] \in Player
      BY <1>1, <1>2, <2>2 DEF CoreOK
    <3>2. players[d].ref # c /\ players[d].ref \in Refs /\ players[d].acct \in Accounts
      BY <1>3, <3>1 DEF Holds, Player
    <3> QED
      BY <1>1, <1>2, <3>1, <3>2 DEF NothingToLose
  <2> QED
    BY <2>1, <2>2
<1> QED
  BY <1>5, <1>6, <1>7, <1>8, <1>9 DEF WorldInv

LEMMA PrivWorld ==
  ASSUME RegistryInv, RegistryInv', WorldInv, NEW c \in Conns, NEW a \in Accounts, Priv(c, a)
  PROVE  WorldInv'
<1>1. /\ CoreOK /\ ArraysApart /\ CacheCoherent /\ OnPassableTile /\ OneSession
      /\ NothingToLose
  BY DEF RegistryInv, WorldInv
<1>2. UNCHANGED <<nconn, open, online, players, bags>>
  BY DEF Priv, items
<1>3. cache[a] \in Cached /\ cache[a].data \in Profile /\ files[a] \in File
  BY <1>1 DEF CoreOK, Cached
<1>4. /\ SameProgress(cache[a].data, Toggled(cache[a].data))
      /\ Toggled(cache[a].data).pos = cache[a].data.pos
  BY <1>3 DEF SameProgress, Toggled, Profile
<1>5. /\ \A b \in Accounts \ {a} : files'[b] = files[b] /\ cache'[b] = cache[b]
      /\ cache'[a].class = "Object" /\ cache'[a].ref = cache[a].ref
      /\ cache'[a].data = Toggled(cache[a].data)
      /\ files'[a].data \in {files[a].data, Toggled(cache[a].data)}
      /\ files'[a].bag = files[a].bag
  <2>1. CASE PrivClone(a)
    <3> DEFINE t == [acct |-> a, ref |-> a, data |-> Toggled(cache[a].data)]
    <3>1. Save(t, bags) /\ cache[a].ref = a
      BY <1>1, <2>1 DEF PrivClone, ArraysApart
    <3>2. files'[a] = [data |-> Toggled(cache[a].data), bag |-> bags[a]]
          /\ cache'[a] = [class |-> "Object", data |-> Toggled(cache[a].data), ref |-> a]
      BY <1>1, <3>1 DEF Save, FileOf, EntryOf, CoreOK
    <3>3. \A b \in Accounts \ {a} : files'[b] = files[b] /\ cache'[b] = cache[b]
      BY <1>1, <3>1 DEF Save, CoreOK
    <3>4. files[a].bag = bags[a]
      BY <1>1, <3>1 DEF CacheCoherent
    <3> QED
      BY <3>1, <3>2, <3>3, <3>4
  <2>2. CASE PrivObject(a)
    <3>1. cache' = [cache EXCEPT ![a] = [cache[a] EXCEPT !.data = Toggled(cache[a].data)]]
      BY <1>1, <2>2 DEF PrivObject, CoreOK
    <3> QED
      BY <1>1, <1>3, <2>2, <3>1 DEF PrivObject, CoreOK, Cached
  <2> QED
    BY <2>1, <2>2 DEF Priv
<1>6. ArraysApart'
  <2>1. \A r \in Refs, b \in Accounts : Holds(r, b)' => Holds(r, b)
    BY <1>2, <1>5 DEF Holds
  <2> QED
    BY <1>1, <1>2, <1>5, <2>1, HoldersOnlyLeave DEF ArraysApart
<1>7. CacheCoherent'
  BY <1>1, <1>2, <1>4, <1>5 DEF CacheCoherent, SameProgress
<1>8. OnPassableTile' /\ OneSession'
  BY <1>1, <1>2, <1>4, <1>5 DEF OnPassableTile, OneSession
<1>9. NothingToLose'
  <2> SUFFICES ASSUME SingleLogin, NEW d \in online \cap open, players[d].acct # NoAccount
               PROVE  /\ SameProgress(files'[players[d].acct].data, players[d].data)
                      /\ files'[players[d].acct].bag = bags[players[d].ref]
    BY <1>2 DEF NothingToLose, SameProgress
  <2>1. players[d].acct \in Accounts
    BY <1>1, OnlineAreConns DEF CoreOK, Player
  <2>2. /\ SameProgress(files[players[d].acct].data, players[d].data)
        /\ files[players[d].acct].bag = bags[players[d].ref]
    BY <1>1 DEF NothingToLose
  <2> QED
    BY <1>1, <1>4, <1>5, <2>1, <2>2 DEF CacheCoherent, SameProgress
<1> QED
  BY <1>6, <1>7, <1>8, <1>9 DEF WorldInv

LEMMA RestartWorld ==
  ASSUME RegistryInv, RegistryInv', WorldInv, Restart
  PROVE  WorldInv'
<1>1. online' = {} /\ files' = files /\ files \in [Accounts -> File] /\ OnPassableTile
  BY DEF Restart, RegistryInv, CoreOK, WorldInv
<1>2. \A a \in Accounts : /\ cache'[a].class = "Player" /\ cache'[a].ref = a
                          /\ cache'[a].data = files[a].data /\ bags'[a] = files[a].bag
  BY DEF Restart, BootCache, BootBags, Refs
<1>3. ArraysApart'
  BY <1>1, <1>2, AccountAssumption DEF ArraysApart, Holds
<1>4. CacheCoherent'
  BY <1>1, <1>2 DEF CacheCoherent, SameProgress
<1>5. OnPassableTile'
  BY <1>1, <1>2 DEF OnPassableTile
<1> QED
  BY <1>1, <1>3, <1>4, <1>5 DEF WorldInv, OneSession, NothingToLose

\* What a session that may run a command, login excepted, is known to have.
LEMMA RunnerKnown ==
  ASSUME RegistryInv, WorldInv, NEW c \in Conns, NEW cmd, CanRun(c, cmd), cmd # "login"
  PROVE  /\ c \in online \cap open /\ players[c] \in Player /\ players[c].acct \in Accounts
         /\ players[c].id = c /\ players[c].data \in Profile
         /\ players[c].data.pos \notin Walls
BY DEF CanRun, RegistryInv, CoreOK, SessionIdentity, Player, WorldInv, OnPassableTile

LEMMA WorldNext == RegistryInv /\ RegistryInv' /\ WorldInv /\ [Next]_vars => WorldInv'
<1> SUFFICES ASSUME RegistryInv, RegistryInv', WorldInv, [Next]_vars PROVE WorldInv'
  OBVIOUS
<1>1. CoreOK /\ OnPassableTile
  BY DEF RegistryInv, WorldInv
<1>2. CASE Connect
  BY <1>2, ConnectWorld
<1>3. ASSUME NEW c \in Conns, DisconnectWebsocket(c) PROVE WorldInv'
  <2>1. RemovePlayer(c)
    BY <1>3 DEF DisconnectWebsocket, RemovedId
  <2>2. online' = online \ {c} /\ \A d \in Conns \ {c} : players'[d] = players[d]
    BY <2>1, RemovePlayerEffect
  <2> QED
    BY <1>1, <1>3, <2>2, OnlineAreConns, LeaveStep DEF DisconnectWebsocket, store, items
<1>4. ASSUME NEW c \in Conns, DisconnectTelnet(c) PROVE WorldInv'
  BY <1>4, LeaveStep DEF DisconnectTelnet, store, items
<1>5. ASSUME NEW c \in Conns, NEW a \in Accounts, Login(c, a) PROVE WorldInv'
  BY <1>5, LoginWorld
<1>6. ASSUME NEW c \in Conns, NEW a \in Accounts, LoginRejected(c, a) PROVE WorldInv'
  BY <1>6, LeaveStep DEF LoginRejected, store, items
<1>7. ASSUME NEW c \in Conns, LoginUnknown(c) PROVE WorldInv'
  BY <1>7, LeaveStep DEF LoginUnknown, store, items
<1>8. ASSUME NEW c \in Conns, NEW f \in SUBSET Fields, Set(c, f) PROVE WorldInv'
  <2> DEFINE q == [players[c] EXCEPT !.data.filled = @ \cup f]
  <2>1. /\ c \in online \cap open /\ players[c] \in Player /\ players[c].acct \in Accounts
        /\ players[c].data.pos \notin Walls
    BY <1>8, RunnerKnown DEF Set
  <2>2. /\ q \in Player /\ q.acct = players[c].acct /\ q.ref = players[c].ref
        /\ q.data.pos = players[c].data.pos
    BY <2>1 DEF Player, Profile
  <2>3. players' = [players EXCEPT ![c] = q] /\ players'[c] = q
    BY <1>1, <1>8 DEF Set, CoreOK
  <2> HIDE DEF q
  <2> QED
    BY <1>8, <2>1, <2>2, <2>3, SaveStep DEF Set, items
<1>9. ASSUME NEW c \in Conns, Finish(c) PROVE WorldInv'
  <2> DEFINE q == [players[c] EXCEPT !.data.area = "entrance"]
  <2>1. /\ c \in online \cap open /\ players[c] \in Player /\ players[c].acct \in Accounts
        /\ players[c].data.pos \notin Walls
    BY <1>9, RunnerKnown DEF Finish
  <2>2. /\ q \in Player /\ q.acct = players[c].acct /\ q.ref = players[c].ref
        /\ q.data.pos = players[c].data.pos
    BY <2>1 DEF Player, Profile
  <2>3. players' = [players EXCEPT ![c] = q] /\ players'[c] = q
    BY <1>1, <1>9 DEF Finish, CoreOK
  <2> HIDE DEF q
  <2> QED
    BY <1>9, <2>1, <2>2, <2>3, SaveStep DEF Finish, items
<1>10. ASSUME NEW c \in Conns, Quit(c) PROVE WorldInv'
  <2>1. /\ c \in online \cap open /\ players[c] \in Player /\ players[c].acct \in Accounts
        /\ players[c].id = c /\ players[c].data.pos \notin Walls
    BY <1>10, RunnerKnown DEF Quit
  <2>2. RemovePlayer(c)
    BY <1>10, <2>1 DEF Quit
  <2>3. online' = online \ {c} /\ \A d \in Conns \ {c} : players'[d] = players[d]
    BY <2>2, RemovePlayerEffect
  <2>4. bags' = bags /\ Save(players[c], bags') /\ nconn' = nconn /\ open' = open
    BY <1>10 DEF Quit, items
  <2> QED
    BY <2>1, <2>3, <2>4, SaveStep
<1>11. ASSUME NEW c \in Conns, NEW d \in Steps, Go(c, d) PROVE WorldInv'
  <2> DEFINE t == <<players[c].data.pos[1] + d[1], players[c].data.pos[2] + d[2]>>
             q == [players[c] EXCEPT !.data.pos = t]
  <2>1. c \in online \cap open /\ players[c] \in Player /\ players[c].acct \in Accounts
    BY <1>11, RunnerKnown DEF Go
  <2>2. t \in Tiles /\ t \notin Walls
    BY <1>11, PassableIsTile DEF Go
  <2>3. players' = [players EXCEPT ![c] = q] /\ players'[c] = q
    BY <1>1, <1>11 DEF Go, CoreOK
  <2>4. q \in Player /\ q.acct = players[c].acct /\ q.ref = players[c].ref /\ q.data.pos = t
    <3> HIDE DEF t
    <3> QED
      BY <2>1, <2>2 DEF Player, Profile
  <2> HIDE DEF q, t
  <2> QED
    BY <1>11, <2>1, <2>2, <2>3, <2>4, SaveStep DEF Go, items
<1>12. ASSUME NEW c \in Conns, NEW k \in Kinds, Get(c, k) PROVE WorldInv'
  <2>1. /\ c \in online \cap open /\ players[c] \in Player /\ players[c].acct \in Accounts
        /\ players[c].data.pos \notin Walls
    BY <1>12, RunnerKnown DEF Get
  <2>2. players' = [players EXCEPT ![c] = players[c]]
    BY <1>1, <1>12 DEF Get, registry, CoreOK
  <2>3. \A r \in Refs \ {players[c].ref} : bags'[r] = bags[r]
    BY <1>1, <1>12 DEF Get, CoreOK
  <2>4. Save(players[c], bags') /\ nconn' = nconn /\ open' = open /\ online' = online
    BY <1>12 DEF Get, registry
  <2> QED
    BY <2>1, <2>2, <2>3, <2>4, SaveStep
<1>13. ASSUME NEW c \in Conns, NEW k \in Kinds, Drop(c, k) PROVE WorldInv'
  <2>1. /\ c \in online \cap open /\ players[c] \in Player /\ players[c].acct \in Accounts
        /\ players[c].data.pos \notin Walls
    BY <1>13, RunnerKnown DEF Drop
  <2>2. players' = [players EXCEPT ![c] = players[c]]
    BY <1>1, <1>13 DEF Drop, registry, CoreOK
  <2>3. \A r \in Refs \ {players[c].ref} : bags'[r] = bags[r]
    BY <1>1, <1>13 DEF Drop, CoreOK
  <2>4. Save(players[c], bags') /\ nconn' = nconn /\ open' = open /\ online' = online
    BY <1>13 DEF Drop, registry
  <2> QED
    BY <2>1, <2>2, <2>3, <2>4, SaveStep
<1>14. ASSUME NEW c \in Conns, NEW k \in Kinds, Clone(c, k) PROVE WorldInv'
  BY <1>14, LeaveStep DEF Clone, registry, store
<1>15. ASSUME NEW c \in Conns, NEW a \in Accounts, Priv(c, a) PROVE WorldInv'
  BY <1>15, PrivWorld
<1>16. ASSUME NEW c \in Conns, PrivUnknown(c) PROVE WorldInv'
  BY <1>16, LeaveStep DEF PrivUnknown, store, items
<1>17. ASSUME NEW c \in Conns, ReloadJSON(c) PROVE WorldInv'
  BY <1>17, LeaveStep DEF ReloadJSON, store
<1>18. CASE Restart
  BY <1>18, RestartWorld
<1>19. CASE UNCHANGED vars
  BY <1>19, LeaveStep DEF vars, registry, store, items
<1> QED
  BY <1>2, <1>3, <1>4, <1>5, <1>6, <1>7, <1>8, <1>9, <1>10, <1>11, <1>12, <1>13,
     <1>14, <1>15, <1>16, <1>17, <1>18, <1>19 DEF Next, Crash, Shutdown

LEMMA WorldSafe == Spec => []WorldInv
<1>1. RegistryInv /\ WorldInv /\ [Next]_vars => RegistryInv' /\ WorldInv'
  BY RegistryNext, WorldNext
<1>2. Init => RegistryInv /\ WorldInv
  BY RegistryInit, WorldInit
<1> QED
  BY <1>1, <1>2, PTL DEF Spec

\* The cache of saved players never disagrees with the player files, for any
\* number of sessions per account (player.js:65-90, objects.js:60-65).
THEOREM CacheMatchesFiles == Spec => []CacheCoherent
<1>1. WorldInv => CacheCoherent
  BY DEF WorldInv
<1> QED
  BY WorldSafe, <1>1, PTL

\* With one session per account, a stop of the process between two commands
\* loses nothing a session has (player.js:65-90, main.go:60-62).
THEOREM StopLosesNothing == Spec => []NothingToLose
<1>1. WorldInv => NothingToLose
  BY DEF WorldInv
<1> QED
  BY WorldSafe, <1>1, PTL

\* Nobody is ever inside a wall, in memory or in a file, on any map
\* (go.js:23-28, area.js:25-28).
THEOREM NobodyInAWall == Spec => []OnPassableTile
<1>1. WorldInv => OnPassableTile
  BY DEF WorldInv
<1> QED
  BY WorldSafe, <1>1, PTL
-----------------------------------------------------------------------------
(* What get leaves on the ground.                                            *)

\* The equation of the recursion over the entries.
LeftUpTo(s, e, left) ==
    left = [i \in 0 .. Len(s) |-> IF i = 0 THEN <<>>
                                  ELSE IF SameId(s[i], e) THEN left[i - 1]
                                  ELSE Append(left[i - 1], s[i])]

LEMMA LeftExists ==
  ASSUME NEW s \in Seq(GroundItem), NEW e
  PROVE  \E left \in [0 .. Len(s) -> Seq(GroundItem)] : LeftUpTo(s, e, left)
<1> DEFINE n == Len(s)
           S == Seq(GroundItem)
           step == [i \in 1 .. n |-> [l \in S |-> IF SameId(s[i], e) THEN l ELSE Append(l, s[i])]]
<1>1. n \in Nat /\ <<>> \in S
  OBVIOUS
<1>2. \A i \in 1 .. n : s[i] \in GroundItem
  OBVIOUS
<1>3. \A i \in 1 .. n : \A l \in S :
        /\ (IF SameId(s[i], e) THEN l ELSE Append(l, s[i])) \in S
        /\ step[i][l] = IF SameId(s[i], e) THEN l ELSE Append(l, s[i])
  BY <1>2
<1>4. step \in [1 .. n -> [S -> S]]
  <2> HIDE DEF n, S
  <2> QED
    BY <1>3
<1> HIDE DEF n, S, step
<1>5. PICK f \in [0 .. n -> S] : Recursion(f, n, <<>>, step)
  BY <1>1, <1>4, RecursionExists DEF Recursive
<1>6. \A i \in 0 .. n : f[i] = IF i = 0 THEN <<>>
                               ELSE IF SameId(s[i], e) THEN f[i - 1]
                               ELSE Append(f[i - 1], s[i])
  <2> TAKE i \in 0 .. n
  <2>1. CASE i = 0
    BY <1>5, <2>1 DEF Recursion
  <2>2. CASE i # 0
    <3>1. i \in 1 .. n /\ i - 1 \in 0 .. n
      BY <1>1, <2>2
    <3>2. f[i] = step[i][f[i - 1]] /\ f[i - 1] \in S
      BY <1>5, <3>1 DEF Recursion
    <3> QED
      BY <1>3, <2>2, <3>1, <3>2
  <2> QED
    BY <2>1, <2>2
<1>7. f = [i \in 0 .. n |-> IF i = 0 THEN <<>>
                            ELSE IF SameId(s[i], e) THEN f[i - 1]
                            ELSE Append(f[i - 1], s[i])]
  BY <1>5, <1>6
<1> QED
  BY <1>5, <1>7 DEF LeftUpTo, n, S

\* Each entry of l is one of the first m entries of s that get e leaves, each
\* from a place of its own.
PlacedBy(f, l, s, m, e) ==
    /\ f \in [1 .. Len(l) -> 1 .. m]
    /\ \A i, j \in 1 .. Len(l) : f[i] = f[j] => i = j
    /\ \A i \in 1 .. Len(l) : l[i] = s[f[i]] /\ ~ SameId(s[f[i]], e)
Placed(l, s, m, e) == \E f : PlacedBy(f, l, s, m, e)

LEMMA PlacedMore ==
  ASSUME NEW l \in Seq(GroundItem), NEW s \in Seq(GroundItem), NEW e, NEW m \in 1 .. Len(s),
         Placed(l, s, m - 1, e)
  PROVE  /\ Placed(l, s, m, e)
         /\ ~ SameId(s[m], e) => Placed(Append(l, s[m]), s, m, e)
<1>1. PICK f : PlacedBy(f, l, s, m - 1, e)
  BY DEF Placed
<1>2. Len(l) \in Nat /\ m \in Nat /\ Len(s) \in Nat
  OBVIOUS
<1>3. PlacedBy(f, l, s, m, e)
  BY <1>1, <1>2 DEF PlacedBy
<1>4. ASSUME ~ SameId(s[m], e) PROVE Placed(Append(l, s[m]), s, m, e)
  <2> DEFINE n == Len(l)
             g == [i \in 1 .. n + 1 |-> IF i = n + 1 THEN m ELSE f[i]]
  <2>1. /\ Len(Append(l, s[m])) = n + 1
        /\ Append(l, s[m])[n + 1] = s[m]
        /\ \A i \in 1 .. n : Append(l, s[m])[i] = l[i]
    BY <1>2
  <2> HIDE DEF n
  <2>2. n \in Nat /\ n = Len(l)
    BY <1>2 DEF n
  <2>3. /\ g \in [1 .. n + 1 -> 1 .. m]
        /\ g[n + 1] = m
        /\ \A i \in 1 .. n : g[i] = f[i] /\ f[i] \in 1 .. m - 1
    <3>1. \A i \in 1 .. n : f[i] \in 1 .. m - 1 /\ i # n + 1 /\ i \in 1 .. n + 1
      BY <1>1, <2>2 DEF PlacedBy
    <3>2. \A i \in 1 .. n + 1 : i = n + 1 \/ i \in 1 .. n
      BY <2>2
    <3>3. \A j \in 1 .. m - 1 : j \in 1 .. m
      BY <1>2
    <3>4. m \in 1 .. m /\ n + 1 \in 1 .. n + 1
      BY <2>2
    <3> QED
      BY <3>1, <3>2, <3>3, <3>4
  <2>4. \A i \in 1 .. n + 1 : i = n + 1 \/ i \in 1 .. n
    BY <2>2
  <2> HIDE DEF g
  <2>5. \A i, j \in 1 .. n + 1 : g[i] = g[j] => i = j
    BY <1>1, <1>2, <2>2, <2>3, <2>4 DEF PlacedBy
  <2>6. \A i \in 1 .. n + 1 : Append(l, s[m])[i] = s[g[i]] /\ ~ SameId(s[g[i]], e)
    BY <1>1, <1>4, <2>1, <2>2, <2>3, <2>4 DEF PlacedBy
  <2>7. PlacedBy(g, Append(l, s[m]), s, m, e)
    BY <2>1, <2>3, <2>5, <2>6 DEF PlacedBy
  <2> QED
    BY <2>7 DEF Placed
<1> QED
  BY <1>3, <1>4 DEF Placed

\* What is left on the ground is a selection of what lay there.
LEMMA LeftOnGroundPlaced ==
  ASSUME ground \in Seq(GroundItem), NEW e
  PROVE  /\ LeftOnGround(e) \in Seq(GroundItem)
         /\ Placed(LeftOnGround(e), ground, Len(ground), e)
<1> DEFINE n == Len(ground)
           S == Seq(GroundItem)
<1>1. \E left : LeftUpTo(ground, e, left)
  BY LeftExists
<1>2. PICK left : LeftUpTo(ground, e, left) /\ LeftOnGround(e) = left[n]
  BY <1>1 DEF LeftOnGround, LeftUpTo
<1>3. n \in Nat /\ <<>> \in S
  OBVIOUS
<1>4. \A i \in 0 .. n : left[i] = IF i = 0 THEN <<>>
                                  ELSE IF SameId(ground[i], e) THEN left[i - 1]
                                  ELSE Append(left[i - 1], ground[i])
  BY <1>2 DEF LeftUpTo
<1> DEFINE good == {m \in Nat : m <= n => left[m] \in S /\ Placed(left[m], ground, m, e)}
<1>5. 0 \in good
  <2>1. left[0] = <<>> /\ 0 \in Nat
    BY <1>3, <1>4
  <2>2. PlacedBy(<<>>, <<>>, ground, 0, e)
    BY DEF PlacedBy
  <2> QED
    BY <1>3, <2>1, <2>2 DEF Placed
<1>6. ASSUME NEW m \in 1 .. n, m - 1 \in good PROVE m \in good
  <2>1. m - 1 <= n /\ m \in 0 .. n /\ m # 0
    BY <1>3
  <2>2. left[m - 1] \in S /\ Placed(left[m - 1], ground, m - 1, e)
    BY <1>6, <2>1
  <2>3. ground[m] \in GroundItem
    OBVIOUS
  <2>4. left[m] = IF SameId(ground[m], e) THEN left[m - 1] ELSE Append(left[m - 1], ground[m])
    BY <1>4, <2>1
  <2>5. Append(left[m - 1], ground[m]) \in S
    BY <2>2, <2>3
  <2>6. left[m] \in S
    BY <2>2, <2>4, <2>5
  <2>7. Placed(left[m], ground, m, e)
    BY <2>2, <2>4, PlacedMore
  <2> QED
    BY <2>6, <2>7
<1>7. n \in good
  <2>1. good \in SUBSET Nat
    OBVIOUS
  <2> HIDE DEF good, n
  <2>2. 0 .. n \subseteq good
    BY <1>3, <1>5, <1>6, <2>1, Induction
  <2> QED
    BY <1>3, <2>2
<1> QED
  BY <1>2, <1>3, <1>7
-----------------------------------------------------------------------------
(* The rest of the types.                                                    *)

RestOK == /\ ghost \in Ghost
          /\ ground \in Seq(GroundItem)
          /\ nclones \in 0 .. MaxClones
          /\ restarts \in 0 .. MaxRestarts

LEMMA BootGhostType == BootGhost \in Ghost
<1>1. 0 \in 0 .. MaxConns
  BY ConnAssumption
<1> QED
  BY <1>1, LastIsAccount DEF BootGhost, Ghost

\* Whatever files a search visits, what it leaves in players shows one of them.
LEMMA LoadGhostType ==
  ASSUME ghost \in Ghost, NEW visited \in SUBSET (1 .. Len(FileOrder))
  PROVE  LoadGhost(visited) \in Ghost
<1> DEFINE cloned == {i \in visited : cache[FileOrder[i]].class = "Player"}
           n == Len(FileOrder)
           last == CHOOSE i \in cloned : \A j \in cloned : j <= i
<1>1. CASE cloned = {}
  BY <1>1 DEF LoadGhost
<1>2. CASE cloned # {}
  <2>1. n \in Nat /\ \A i \in 1 .. n : FileOrder[i] \in Accounts
    BY OrderAssumption
  <2>2. cloned \in SUBSET (0 .. n) /\ cloned \subseteq 1 .. n
    <3>1. cloned \subseteq visited
      OBVIOUS
    <3>2. 1 .. n \subseteq 0 .. n
      BY <2>1
    <3> HIDE DEF cloned
    <3> QED
      BY <3>1, <3>2
  <2>3. \E m \in cloned : \A i \in cloned : i <= m
    <3> HIDE DEF cloned, n
    <3> QED
      BY <1>2, <2>1, <2>2, GreatestOfNats
  <2>4. last \in cloned
    <3> HIDE DEF cloned
    <3> QED
      BY <2>3
  <2>5. FileOrder[last] \in Accounts
    <3> HIDE DEF cloned, last, n
    <3> QED
      BY <2>1, <2>2, <2>4
  <2>6. 0 \in 0 .. MaxConns
    BY ConnAssumption
  <2>7. LoadGhost(visited) = [acct |-> FileOrder[last], id |-> 0]
    BY <1>2 DEF LoadGhost
  <2> HIDE DEF last
  <2> QED
    BY <2>5, <2>6, <2>7 DEF Ghost
<1> QED
  BY <1>1, <1>2

LEMMA VisitedType == \A a : Visited(a) \in SUBSET (1 .. Len(FileOrder))
BY DEF Visited

\* Where an entry lies is a tile, or nowhere yet.
LEMMA WhereType ==
  ASSUME CoreOK, NEW e \in GroundItem
  PROVE  Where(e) \in Tiles \cup {Nowhere}
BY DEF Where, GroundItem, CoreOK

LEMMA RestInit == Init => RestOK
<1> SUFFICES ASSUME Init PROVE RestOK
  OBVIOUS
<1>1. 0 \in 0 .. MaxClones /\ 0 \in 0 .. MaxRestarts
  BY BoundAssumption
<1>2. <<>> \in Seq(GroundItem)
  OBVIOUS
<1> QED
  BY <1>1, <1>2, BootGhostType DEF Init, RestOK

LEMMA RestNext == RegistryInv /\ RestOK /\ [Next]_vars => RestOK'
<1> SUFFICES ASSUME RegistryInv, RestOK, [Next]_vars PROVE RestOK'
  OBVIOUS
<1>1. CoreOK /\ ghost \in Ghost /\ ground \in Seq(GroundItem)
  BY DEF RegistryInv, RestOK
<1>2. ASSUME ghost' \in Ghost, UNCHANGED <<ground, nclones, restarts>> PROVE RestOK'
  BY <1>2 DEF RestOK
<1>3. ASSUME ground' \in Seq(GroundItem), UNCHANGED <<ghost, nclones, restarts>> PROVE RestOK'
  BY <1>3 DEF RestOK
<1>4. ASSUME NEW id \in 0 .. MaxConns, NEW a \in Accounts, ghost' = [acct |-> a, id |-> id]
      PROVE  ghost' \in Ghost
  BY <1>4 DEF Ghost
<1>5. ASSUME NEW c \in Conns PROVE c \in 0 .. MaxConns /\ 0 \in 0 .. MaxConns
  BY ConnAssumption DEF Conns
<1>6. \A a : LoadGhost(Visited(a)) \in Ghost
  BY <1>1, VisitedType, LoadGhostType
<1>7. LoadGhost(1 .. Len(FileOrder)) \in Ghost
  BY <1>1, LoadGhostType
<1>8. CASE Connect \/ UNCHANGED vars
  BY <1>1, <1>2, <1>8 DEF Connect, vars, registry, items
<1>9. ASSUME NEW c \in Conns,
             \/ DisconnectWebsocket(c) \/ DisconnectTelnet(c)
             \/ \E f \in SUBSET Fields : Set(c, f)
             \/ Finish(c) \/ Quit(c)
             \/ \E d \in Steps : Go(c, d)
      PROVE  RestOK'
  BY <1>1, <1>2, <1>9 DEF DisconnectWebsocket, DisconnectTelnet, Set, Finish, Quit, Go, items
<1>10. ASSUME NEW c \in Conns, NEW a \in Accounts, Login(c, a) PROVE RestOK'
  <2>1. ghost' \in Ghost
    <3>1. CASE LoginByClone(c, a)
      BY <1>4, <1>5, <3>1 DEF LoginByClone
    <3>2. CASE LoginByObject(c, a)
      BY <1>6, <3>2 DEF LoginByObject
    <3> QED
      BY <1>10, <3>1, <3>2 DEF Login
  <2> QED
    BY <1>2, <1>10, <2>1 DEF Login
<1>11. ASSUME NEW c \in Conns, NEW a \in Accounts, LoginRejected(c, a) PROVE RestOK'
  BY <1>2, <1>6, <1>11 DEF LoginRejected, items
<1>12. ASSUME NEW c \in Conns, LoginUnknown(c) \/ PrivUnknown(c) PROVE RestOK'
  BY <1>2, <1>7, <1>12 DEF LoginUnknown, PrivUnknown, items
<1>13. ASSUME NEW c \in Conns, NEW k \in Kinds, Get(c, k) PROVE RestOK'
  <2>1. ground' \in Seq(GroundItem)
    BY <1>1, <1>13, LeftOnGroundPlaced DEF Get
  <2> QED
    BY <1>3, <1>13, <2>1 DEF Get, registry
<1>14. ASSUME NEW c \in Conns, NEW k \in Kinds, Drop(c, k) PROVE RestOK'
  <2> DEFINE e == [kind |-> k, serial |-> 0, shared |-> TRUE, at |-> Nowhere]
  <2>1. e \in GroundItem
    BY BoundAssumption DEF GroundItem
  <2>2. ground' = Append(ground, e)
    BY <1>14 DEF Drop
  <2> HIDE DEF e
  <2>3. ground' \in Seq(GroundItem)
    BY <1>1, <2>1, <2>2
  <2> QED
    BY <1>3, <1>14, <2>3 DEF Drop, registry
<1>15. ASSUME NEW c \in Conns, NEW k \in Kinds, Clone(c, k) PROVE RestOK'
  <2> DEFINE e == [kind |-> k, serial |-> nclones', shared |-> FALSE, at |-> players[c].data.pos]
  <2>1. nclones' \in 0 .. MaxClones /\ UNCHANGED <<ghost, restarts>>
    BY <1>15, BoundAssumption DEF Clone, RestOK, registry
  <2>2. players[c].data.pos \in Tiles
    BY <1>1 DEF CoreOK, Player, Profile
  <2>3. e \in GroundItem
    BY <2>1, <2>2 DEF GroundItem
  <2>4. ground' = Append(ground, e)
    BY <1>15 DEF Clone
  <2> HIDE DEF e
  <2>5. ground' \in Seq(GroundItem)
    BY <1>1, <2>3, <2>4
  <2> QED
    BY <2>1, <2>5 DEF RestOK
<1>16. ASSUME NEW c \in Conns, NEW a \in Accounts, Priv(c, a) PROVE RestOK'
  <2>1. ghost' \in Ghost
    <3>1. CASE PrivClone(a)
      BY <1>4, <1>5, <3>1 DEF PrivClone
    <3>2. CASE PrivObject(a)
      BY <1>6, <3>2 DEF PrivObject
    <3> QED
      BY <1>16, <3>1, <3>2 DEF Priv
  <2> QED
    BY <1>2, <1>16, <2>1 DEF Priv, items
<1>17. ASSUME NEW c \in Conns, ReloadJSON(c) PROVE RestOK'
  <2> DEFINE n == Len(ground)
             copy(i) == [ground[i] EXCEPT !.shared = FALSE, !.at = Where(ground[i])]
  <2>1. n \in Nat /\ \A i \in 1 .. n : ground[i] \in GroundItem
    BY <1>1
  <2>2. ASSUME NEW i \in 1 .. n PROVE copy(i) \in GroundItem
    <3>1. ground[i] \in GroundItem /\ Where(ground[i]) \in Tiles \cup {Nowhere}
      BY <1>1, <2>1, WhereType
    <3> QED
      BY <3>1 DEF GroundItem
  <2>3. ground' = [i \in 1 .. n |-> copy(i)]
    BY <1>17 DEF ReloadJSON
  <2> HIDE DEF n, copy
  <2>4. ground' \in Seq(GroundItem)
    BY <2>1, <2>2, <2>3
  <2>5. ghost' \in Ghost /\ UNCHANGED <<nclones, restarts>>
    BY <1>17, BootGhostType DEF ReloadJSON
  <2> QED
    BY <2>4, <2>5 DEF RestOK
<1>18. CASE Restart
  <2>1. ghost' \in Ghost /\ nclones' = nclones /\ restarts' \in 0 .. MaxRestarts
    BY <1>18, BootGhostType, BoundAssumption DEF Restart, RestOK
  <2>2. ground' \in Seq(GroundItem)
    BY <1>18 DEF Restart
  <2> QED
    BY <2>1, <2>2 DEF RestOK
<1>19. \A f \in {{x} : x \in Fields} \cup {{}} : f \in SUBSET Fields
  OBVIOUS
<1> QED
  BY <1>8, <1>9, <1>10, <1>11, <1>12, <1>13, <1>14, <1>15, <1>16, <1>17, <1>18, <1>19
     DEF Next, Crash, Shutdown

\* Every piece of state has its type, on any map and for any number of
\* connections, accounts and items: in particular what reloadJSON copies, get
\* filters and a search for a player leaves (reload.go:59-97, area.js:43-60,
\* player.js:92-129).
THEOREM Types == Spec => []TypeOK
<1>1. Init => RegistryInv /\ RestOK
  BY RegistryInit, RestInit
<1>2. RegistryInv /\ RestOK /\ [Next]_vars => RegistryInv' /\ RestOK'
  BY RegistryNext, RestNext
<1>3. RegistryInv /\ RestOK => TypeOK
  BY DEF RegistryInv, CoreOK, RestOK, TypeOK
<1> QED
  BY <1>1, <1>2, <1>3, PTL DEF Spec
-----------------------------------------------------------------------------
(* The copies of an item.                                                    *)

\* FileOrder names every account, so there are finitely many.
LEMMA AccountsFinite == IsFiniteSet(Accounts)
<1>1. Len(FileOrder) \in Nat /\ FileOrder \in [1 .. Len(FileOrder) -> Accounts]
  BY OrderAssumption
<1>2. FileOrder \in Surjection(1 .. Len(FileOrder), Accounts)
  BY <1>1, OrderAssumption DEF Surjection
<1>3. IsFiniteSet(1 .. Len(FileOrder))
  BY <1>1, FS_Interval
<1> QED
  BY <1>2, <1>3, FS_Surjection

LEMMA PlacesFinite ==
  ASSUME NEW T, NEW s \in Seq(T), NEW I \in SUBSET (DOMAIN s)
  PROVE  IsFiniteSet(I) /\ Cardinality(I) \in Nat
<1>1. Len(s) \in Nat /\ DOMAIN s = 1 .. Len(s)
  OBVIOUS
<1>2. IsFiniteSet(1 .. Len(s))
  BY <1>1, FS_Interval
<1> QED
  BY <1>1, <1>2, FS_Subset, FS_CardinalityType

BagPlaces(f, a, k) == {i \in DOMAIN f[a].bag : f[a].bag[i] = k}

LEMMA InFilesMember ==
  ASSUME NEW f, NEW k
  PROVE  /\ \A a, i : <<a, i>> \in InFiles(f, k) <=> a \in Accounts /\ i \in BagPlaces(f, a, k)
         /\ \A x \in InFiles(f, k) : \E a \in Accounts : \E i \in BagPlaces(f, a, k) : x = <<a, i>>
BY DEF InFiles, BagPlaces

LEMMA InFilesFinite ==
  ASSUME NEW f \in [Accounts -> File], NEW k
  PROVE  IsFiniteSet(InFiles(f, k)) /\ Cardinality(InFiles(f, k)) \in Nat
<1> DEFINE g == [a \in Accounts |-> {a} \X BagPlaces(f, a, k)]
           T == {g[a] : a \in Accounts}
<1>1. \A a \in Accounts : f[a].bag \in Seq(Kinds)
  BY DEF File
<1>2. \A a \in Accounts : IsFiniteSet(BagPlaces(f, a, k))
  BY <1>1, PlacesFinite DEF BagPlaces
<1>3. \A a \in Accounts : IsFiniteSet({a} \X BagPlaces(f, a, k))
  BY <1>2, FS_Singleton, FS_Product
<1>4. IsFiniteSet(T)
  <2>1. g \in Surjection(Accounts, T)
    <3> HIDE DEF g
    <3>1. g \in [Accounts -> T]
      BY DEF g
    <3> QED
      BY <3>1 DEF Surjection
  <2> QED
    BY <2>1, AccountsFinite, FS_Surjection
<1>5. InFiles(f, k) = UNION T
  BY DEF InFiles, BagPlaces
<1>6. \A t \in T : IsFiniteSet(t)
  BY <1>3
<1> QED
  BY <1>4, <1>5, <1>6, FS_UNION, FS_CardinalityType

LEMMA OnGroundFinite ==
  ASSUME NEW g \in Seq(GroundItem), NEW k
  PROVE  IsFiniteSet(OnGround(g, k)) /\ Cardinality(OnGround(g, k)) \in Nat
<1>1. OnGround(g, k) \in SUBSET (DOMAIN g)
  BY DEF OnGround
<1> QED
  BY <1>1, PlacesFinite

\* A step after which k has no more copies, those of clone excepted.
NoMore(k) == Total(k)' <= Total(k) + (nclones' - nclones)

LEMMA NoMoreBySums ==
  ASSUME TypeOK, TypeOK', NEW k, NEW d \in Int, NEW e \in Int, d + e <= nclones' - nclones,
         Cardinality(InFiles(files', k)) <= Cardinality(InFiles(files, k)) + d,
         Cardinality(OnGround(ground', k)) <= Cardinality(OnGround(ground, k)) + e
  PROVE  NoMore(k)
<1>1. /\ files \in [Accounts -> File] /\ files' \in [Accounts -> File]
      /\ ground \in Seq(GroundItem) /\ ground' \in Seq(GroundItem)
  BY DEF TypeOK
<1>2. /\ Cardinality(InFiles(files, k)) \in Nat /\ Cardinality(OnGround(ground, k)) \in Nat
      /\ Cardinality(InFiles(files', k)) \in Nat /\ Cardinality(OnGround(ground', k)) \in Nat
  BY <1>1, InFilesFinite, OnGroundFinite
<1>3. nclones \in Int /\ nclones' \in Int
  BY BoundAssumption DEF TypeOK
<1>4. Total(k)' = Cardinality(InFiles(files', k)) + Cardinality(OnGround(ground', k))
  BY DEF Total, InFiles, OnGround
<1>5. Total(k) = Cardinality(InFiles(files, k)) + Cardinality(OnGround(ground, k))
  BY DEF Total
<1>6. Cardinality(InFiles(files', k)) + Cardinality(OnGround(ground', k)) <=
      Cardinality(InFiles(files, k)) + Cardinality(OnGround(ground, k)) + (nclones' - nclones)
  <2> DEFINE A == Cardinality(InFiles(files, k))
             B == Cardinality(OnGround(ground, k))
             C == Cardinality(InFiles(files', k))
             D == Cardinality(OnGround(ground', k))
             m == nclones' - nclones
  <2>1. A \in Int /\ B \in Int /\ C \in Int /\ D \in Int
    BY <1>2
  <2>2. C <= A + d /\ D <= B + e
    OBVIOUS
  <2>5. m \in Int
    BY <1>3
  <2>6. d + e <= m
    OBVIOUS
  <2> HIDE DEF A, B, C, D, m
  <2>3. C + D <= A + B + (d + e)
    BY <2>1, <2>2
  <2>4. C + D <= A + B + m
    BY <2>1, <2>3, <2>5, <2>6
  <2> QED
    BY <2>4 DEF A, B, C, D, m
<1> QED
  BY <1>4, <1>5, <1>6 DEF NoMore

SameBags == \A a \in Accounts : files'[a].bag = files[a].bag

LEMMA SameInFiles ==
  ASSUME SameBags, NEW k
  PROVE  InFiles(files', k) = InFiles(files, k)
BY DEF SameBags, InFiles

\* A sequence with one more entry has one more place at most.
LEMMA OneMoreOnGround ==
  ASSUME NEW g \in Seq(GroundItem), NEW e \in GroundItem, NEW k
  PROVE  Cardinality(OnGround(Append(g, e), k)) <=
            Cardinality(OnGround(g, k)) + (IF e.kind = k THEN 1 ELSE 0)
<1>1. IsFiniteSet(OnGround(g, k)) /\ Cardinality(OnGround(g, k)) \in Nat
  BY OnGroundFinite
<1> DEFINE n == Len(g)
           h == Append(g, e)
<1>2. /\ n \in Nat /\ DOMAIN g = 1 .. n /\ DOMAIN h = 1 .. n + 1
      /\ h[n + 1] = e /\ \A i \in 1 .. n : h[i] = g[i]
  OBVIOUS
<1> HIDE DEF n, h
<1>3. OnGround(h, k) = OnGround(g, k) \cup (IF e.kind = k THEN {n + 1} ELSE {})
  <2>1. \A i \in 1 .. n + 1 : i \in 1 .. n \/ i = n + 1
    BY <1>2
  <2>2. \A i \in 1 .. n : i \in 1 .. n + 1
    BY <1>2
  <2>3. n + 1 \in 1 .. n + 1
    BY <1>2
  <2> QED
    BY <1>2, <2>1, <2>2, <2>3 DEF OnGround
<1> QED
  <2>1. CASE e.kind = k
    <3>1. OnGround(h, k) = OnGround(g, k) \cup {n + 1}
      BY <1>3, <2>1
    <3>2. Cardinality(OnGround(g, k) \cup {n + 1}) =
            IF n + 1 \in OnGround(g, k) THEN Cardinality(OnGround(g, k))
                                        ELSE Cardinality(OnGround(g, k)) + 1
      BY <1>1, FS_AddElement
    <3> QED
      BY <1>1, <2>1, <3>1, <3>2 DEF h
  <2>2. CASE e.kind # k
    BY <1>1, <1>3, <2>2 DEF h
  <2> QED
    BY <2>1, <2>2

\* get takes at least the entry it names off the ground, and adds nothing.
LEMMA LessOnGround ==
  ASSUME ground \in Seq(GroundItem), NEW i \in DOMAIN ground, NEW k
  PROVE  Cardinality(OnGround(LeftOnGround(ground[i]), k)) <=
            Cardinality(OnGround(ground, k)) - (IF ground[i].kind = k THEN 1 ELSE 0)
<1> DEFINE l == LeftOnGround(ground[i])
           S == OnGround(l, k)
           T == OnGround(ground, k) \ {i}
<1>1. IsFiniteSet(OnGround(ground, k)) /\ Cardinality(OnGround(ground, k)) \in Nat
  BY OnGroundFinite
<1>2. l \in Seq(GroundItem) /\ Placed(l, ground, Len(ground), ground[i])
  BY LeftOnGroundPlaced
<1>3. PICK f : PlacedBy(f, l, ground, Len(ground), ground[i])
  BY <1>2 DEF Placed
<1>4. DOMAIN l = 1 .. Len(l) /\ DOMAIN ground = 1 .. Len(ground)
  BY <1>2
<1> DEFINE p == [j \in S |-> f[j]]
<1> HIDE DEF l
<1>5. \A j \in S : j \in 1 .. Len(l) /\ l[j].kind = k
  BY <1>4 DEF OnGround
<1>6. \A j \in S : f[j] \in T
  <2> TAKE j \in S
  <2>1. f[j] \in DOMAIN ground /\ l[j] = ground[f[j]] /\ ~ SameId(ground[f[j]], ground[i])
    BY <1>3, <1>4, <1>5 DEF PlacedBy
  <2>2. SameId(ground[i], ground[i])
    BY DEF SameId
  <2> QED
    BY <1>5, <2>1, <2>2 DEF OnGround
<1>7. p \in Injection(S, T)
  <2>1. p \in [S -> T] /\ \A j \in S : p[j] = f[j]
    BY <1>6
  <2>2. \A j, m \in S : f[j] = f[m] => j = m
    BY <1>3, <1>5 DEF PlacedBy
  <2> HIDE DEF p, S, T
  <2> QED
    BY <2>1, <2>2 DEF Injection, IsInjective
<1>8. /\ IsFiniteSet(T)
      /\ Cardinality(T) = Cardinality(OnGround(ground, k)) - (IF ground[i].kind = k THEN 1 ELSE 0)
  <2>1. i \in OnGround(ground, k) <=> ground[i].kind = k
    BY DEF OnGround
  <2> QED
    BY <1>1, <2>1, FS_RemoveElement
<1>9. Cardinality(S) <= Cardinality(T)
  <2> HIDE DEF p, S, T
  <2> QED
    BY <1>7, <1>8, FS_Injection
<1> QED
  BY <1>8, <1>9 DEF l

\* A file whose inventory got one entry more.
LEMMA OneMoreInFiles ==
  ASSUME NEW f \in [Accounts -> File], NEW g \in [Accounts -> File],
         NEW a \in Accounts, NEW x \in Kinds, NEW k,
         \A b \in Accounts \ {a} : g[b].bag = f[b].bag,
         g[a].bag = Append(f[a].bag, x)
  PROVE  Cardinality(InFiles(g, k)) <=
            Cardinality(InFiles(f, k)) + (IF x = k THEN 1 ELSE 0)
<1> DEFINE n == Len(f[a].bag)
<1>1. IsFiniteSet(InFiles(f, k)) /\ Cardinality(InFiles(f, k)) \in Nat
  BY InFilesFinite
<1>2. f[a].bag \in Seq(Kinds)
  BY DEF File
<1>3. /\ n \in Nat /\ DOMAIN f[a].bag = 1 .. n /\ DOMAIN g[a].bag = 1 .. n + 1
      /\ g[a].bag[n + 1] = x /\ \A i \in 1 .. n : g[a].bag[i] = f[a].bag[i]
  BY <1>2
<1> HIDE DEF n
<1>4. BagPlaces(g, a, k) = BagPlaces(f, a, k) \cup (IF x = k THEN {n + 1} ELSE {})
  <2>1. /\ \A i \in 1 .. n + 1 : i \in 1 .. n \/ i = n + 1
        /\ \A i \in 1 .. n : i \in 1 .. n + 1
        /\ n + 1 \in 1 .. n + 1
    BY <1>3
  <2> QED
    BY <1>3, <2>1 DEF BagPlaces
<1>5. \A b \in Accounts \ {a} : BagPlaces(g, b, k) = BagPlaces(f, b, k)
  BY DEF BagPlaces
<1>6. InFiles(g, k) = InFiles(f, k) \cup (IF x = k THEN {<<a, n + 1>>} ELSE {})
  <2>1. \A y \in InFiles(g, k) : y \in InFiles(f, k) \cup (IF x = k THEN {<<a, n + 1>>} ELSE {})
    <3> TAKE y \in InFiles(g, k)
    <3>1. PICK b, i : b \in Accounts /\ i \in BagPlaces(g, b, k) /\ y = <<b, i>>
      BY InFilesMember
    <3>2. CASE i \in BagPlaces(f, b, k)
      BY <3>1, <3>2, InFilesMember
    <3>3. CASE i \notin BagPlaces(f, b, k)
      BY <1>4, <1>5, <3>1, <3>3
    <3> QED
      BY <3>2, <3>3
  <2>2. \A y \in InFiles(f, k) : y \in InFiles(g, k)
    <3> TAKE y \in InFiles(f, k)
    <3>1. PICK b, i : b \in Accounts /\ i \in BagPlaces(f, b, k) /\ y = <<b, i>>
      BY InFilesMember
    <3>2. i \in BagPlaces(g, b, k)
      BY <1>4, <1>5, <3>1
    <3> QED
      BY <3>1, <3>2, InFilesMember
  <2>3. x = k => <<a, n + 1>> \in InFiles(g, k)
    BY <1>4, InFilesMember
  <2> QED
    BY <2>1, <2>2, <2>3
<1> QED
  <2>1. CASE x = k
    <3>1. Cardinality(InFiles(f, k) \cup {<<a, n + 1>>}) =
            IF <<a, n + 1>> \in InFiles(f, k) THEN Cardinality(InFiles(f, k))
                                              ELSE Cardinality(InFiles(f, k)) + 1
      BY <1>1, FS_AddElement
    <3> QED
      BY <1>1, <1>6, <2>1, <3>1
  <2>2. CASE x # k
    BY <1>1, <1>6, <2>2
  <2> QED
    BY <2>1, <2>2

LEMMA RemoveAtEntries ==
  ASSUME NEW b \in Seq(Kinds), NEW i \in 1 .. Len(b)
  PROVE  /\ Len(RemoveAt(b, i)) = Len(b) - 1
         /\ \A j \in 1 .. Len(b) - 1 : RemoveAt(b, i)[j] = b[IF j < i THEN j ELSE j + 1]
<1> DEFINE s == SubSeq(b, 1, i - 1)
           t == SubSeq(b, i + 1, Len(b))
<1>1. Len(b) \in Nat /\ i \in Nat /\ i >= 1 /\ i <= Len(b)
  OBVIOUS
<1>2. /\ s \in Seq(Kinds) /\ Len(s) = i - 1
      /\ \A j \in 1 .. i - 1 : s[j] = b[j]
  BY <1>1, SubSeqProperties
<1>3. /\ t \in Seq(Kinds) /\ Len(t) = Len(b) - i
      /\ \A j \in 1 .. Len(b) - i : t[j] = b[j + i]
  BY <1>1, SubSeqProperties
<1>4. RemoveAt(b, i) = s \o t
  BY DEF RemoveAt
<1> HIDE DEF s, t
<1>5. /\ Len(s \o t) = Len(b) - 1
      /\ \A j \in 1 .. Len(b) - 1 : (s \o t)[j] = IF j < i THEN s[j] ELSE t[j - (i - 1)]
  <2>1. /\ Len(s \o t) = Len(s) + Len(t)
        /\ \A j \in 1 .. Len(s) + Len(t) :
             (s \o t)[j] = IF j <= Len(s) THEN s[j] ELSE t[j - Len(s)]
    BY <1>2, <1>3, ConcatProperties
  <2>2. /\ Len(s) + Len(t) = Len(b) - 1
        /\ \A j \in 1 .. Len(b) - 1 : j <= Len(s) <=> j < i
    BY <1>1, <1>2, <1>3
  <2> QED
    BY <1>2, <2>1, <2>2
<1>6. ASSUME NEW j \in 1 .. Len(b) - 1 PROVE (s \o t)[j] = b[IF j < i THEN j ELSE j + 1]
  <2>1. CASE j < i
    BY <1>1, <1>2, <1>5, <2>1
  <2>2. CASE ~ (j < i)
    <3>1. j - (i - 1) \in 1 .. Len(b) - i /\ (j - (i - 1)) + i = j + 1
      BY <1>1, <2>2
    <3> QED
      BY <1>3, <1>5, <2>2, <3>1
  <2> QED
    BY <2>1, <2>2
<1> QED
  BY <1>4, <1>5, <1>6

\* A file whose inventory lost the entry at place i.
LEMMA OneLessInFiles ==
  ASSUME NEW f \in [Accounts -> File], NEW g \in [Accounts -> File],
         NEW a \in Accounts, NEW i \in 1 .. Len(f[a].bag), NEW k,
         \A b \in Accounts \ {a} : g[b].bag = f[b].bag,
         g[a].bag = RemoveAt(f[a].bag, i)
  PROVE  Cardinality(InFiles(g, k)) <=
            Cardinality(InFiles(f, k)) - (IF f[a].bag[i] = k THEN 1 ELSE 0)
<1> DEFINE n == Len(f[a].bag)
           old(b, j) == IF b = a /\ j >= i THEN j + 1 ELSE j
           S == InFiles(g, k)
           T == InFiles(f, k) \ {<<a, i>>}
           p == [y \in S |-> <<y[1], old(y[1], y[2])>>]
<1>1. IsFiniteSet(InFiles(f, k)) /\ Cardinality(InFiles(f, k)) \in Nat
  BY InFilesFinite
<1>2. f[a].bag \in Seq(Kinds)
  BY DEF File
<1>3. /\ n \in Nat /\ DOMAIN f[a].bag = 1 .. n /\ DOMAIN g[a].bag = 1 .. n - 1
      /\ \A j \in 1 .. n - 1 : g[a].bag[j] = f[a].bag[IF j < i THEN j ELSE j + 1]
  <2>1. RemoveAt(f[a].bag, i) \in Seq(Kinds)
    BY <1>2, RemoveAtType
  <2>2. /\ Len(RemoveAt(f[a].bag, i)) = Len(f[a].bag) - 1
        /\ \A j \in 1 .. Len(f[a].bag) - 1 :
             RemoveAt(f[a].bag, i)[j] = f[a].bag[IF j < i THEN j ELSE j + 1]
    BY <1>2, RemoveAtEntries
  <2>3. n \in Nat /\ DOMAIN f[a].bag = 1 .. n
    BY <1>2
  <2>4. DOMAIN RemoveAt(f[a].bag, i) = 1 .. Len(RemoveAt(f[a].bag, i))
    BY <2>1
  <2> QED
    BY <2>2, <2>3, <2>4
<1> HIDE DEF n
<1>4. \A j \in BagPlaces(g, a, k) : /\ j \in Int
                                    /\ old(a, j) \in BagPlaces(f, a, k) \ {i}
  <2> SUFFICES ASSUME NEW j \in 1 .. n - 1, g[a].bag[j] = k
               PROVE  /\ j \in Int
                      /\ old(a, j) \in BagPlaces(f, a, k) \ {i}
    BY <1>3 DEF BagPlaces
  <2>1. CASE j < i
    BY <1>3, <2>1 DEF BagPlaces, n
  <2>2. CASE ~ (j < i)
    BY <1>3, <2>2 DEF BagPlaces, n
  <2> QED
    BY <2>1, <2>2
<1>5. \A b \in Accounts \ {a} : BagPlaces(g, b, k) = BagPlaces(f, b, k)
  BY DEF BagPlaces
<1>6. ASSUME NEW b \in Accounts, NEW j \in BagPlaces(g, b, k)
      PROVE  <<b, old(b, j)>> \in T
  <2>1. old(b, j) \in BagPlaces(f, b, k) /\ (b = a => old(b, j) # i)
    <3>1. CASE b = a
      BY <1>4, <3>1
    <3>2. CASE b # a
      BY <1>5, <3>2
    <3> QED
      BY <3>1, <3>2
  <2> HIDE DEF old
  <2> QED
    BY <2>1, InFilesMember
<1>7. p \in [S -> T]
  <2>1. ASSUME NEW y \in S PROVE <<y[1], old(y[1], y[2])>> \in T
    <3>1. PICK b, j : b \in Accounts /\ j \in BagPlaces(g, b, k) /\ y = <<b, j>>
      BY InFilesMember
    <3> HIDE DEF T, old
    <3> QED
      BY <1>6, <3>1
  <2> HIDE DEF S, T, old
  <2> QED
    BY <2>1
<1>8. ASSUME NEW y \in S, NEW z \in S, p[y] = p[z] PROVE y = z
  <2>1. PICK b, j : b \in Accounts /\ j \in BagPlaces(g, b, k) /\ y = <<b, j>>
    BY InFilesMember
  <2>2. PICK d, m : d \in Accounts /\ m \in BagPlaces(g, d, k) /\ z = <<d, m>>
    BY InFilesMember
  <2>3. b = d /\ old(b, j) = old(b, m)
    <3>1. p[y] = <<b, old(b, j)>> /\ p[z] = <<d, old(d, m)>>
      BY <2>1, <2>2
    <3> HIDE DEF p, old
    <3>2. <<b, old(b, j)>> = <<d, old(d, m)>>
      BY <1>8, <3>1
    <3> QED
      BY <3>2
  <2>4. j = m
    <3>1. CASE b = a
      <4>1. j \in Int /\ m \in Int
        BY <1>4, <2>1, <2>2, <2>3, <3>1
      <4> QED
        BY <2>3, <3>1, <4>1
    <3>2. CASE b # a
      BY <2>3, <3>2
    <3> QED
      BY <3>1, <3>2
  <2> QED
    BY <2>1, <2>2, <2>3, <2>4
<1>9. /\ IsFiniteSet(T)
      /\ Cardinality(T) = Cardinality(InFiles(f, k)) - (IF f[a].bag[i] = k THEN 1 ELSE 0)
  <2>1. <<a, i>> \in InFiles(f, k) <=> f[a].bag[i] = k
    BY <1>2, InFilesMember DEF BagPlaces
  <2>2. /\ IsFiniteSet(T)
        /\ Cardinality(T) = IF <<a, i>> \in InFiles(f, k) THEN Cardinality(InFiles(f, k)) - 1
                                                          ELSE Cardinality(InFiles(f, k))
    BY <1>1, FS_RemoveElement
  <2> HIDE DEF T
  <2> QED
    BY <1>1, <2>1, <2>2
<1>10. Cardinality(S) <= Cardinality(T)
  <2> HIDE DEF p, S, T
  <2>1. p \in Injection(S, T)
    BY <1>7, <1>8 DEF Injection, IsInjective
  <2> QED
    BY <1>9, <2>1, FS_Injection
<1> QED
  BY <1>9, <1>10
-----------------------------------------------------------------------------
(* Where the copies go, command by command.                                  *)

\* A save by a session that nobody shares the account with writes the
\* inventory that is in the file already.
LEMMA SaveKeepsBags ==
  ASSUME SingleLogin, RegistryInv, WorldInv, NEW c \in online \cap open,
         NEW q, q.acct = players[c].acct, q.ref = players[c].ref, q.acct \in Accounts,
         Save(q, bags)
  PROVE  SameBags
<1>1. CoreOK /\ NothingToLose /\ players[c].acct # NoAccount
  BY AccountAssumption DEF RegistryInv, WorldInv
<1>2. files[q.acct].bag = bags[q.ref]
  BY <1>1 DEF NothingToLose
<1>3. files' = [files EXCEPT ![q.acct] = [data |-> q.data, bag |-> bags[q.ref]]]
  BY DEF Save, FileOf
<1>4. files \in [Accounts -> File]
  BY <1>1 DEF CoreOK
<1> QED
  BY <1>2, <1>3, <1>4 DEF SameBags

\* What get finds is a place of the area's items that holds the item.
LEMMA FirstAtPlace ==
  ASSUME NEW t, NEW k, ground \in Seq(GroundItem), FirstAt(t, k) # 0
  PROVE  FirstAt(t, k) \in DOMAIN ground /\ ground[FirstAt(t, k)].kind = k
<1> DEFINE I == {i \in 1 .. Len(ground) : Where(ground[i]) = t /\ ground[i].kind = k}
<1>1. DOMAIN ground = 1 .. Len(ground) /\ I \in SUBSET Nat
  OBVIOUS
<1>2. FirstAt(t, k) = Min(I) /\ I # {}
  BY DEF FirstAt, SelectInSeq
<1>3. Min(I) \in I
  BY <1>1, <1>2, MinIsIn
<1> QED
  BY <1>1, <1>2, <1>3

\* A step that leaves the inventories in the files and the ground alone.
LEMMA NothingMoved ==
  ASSUME TypeOK, TypeOK', SameBags, ground' = ground \/ ground' = <<>>,
         nclones' = nclones, NEW k
  PROVE  NoMore(k)
<1>1. files' \in [Accounts -> File] /\ files \in [Accounts -> File] /\ ground \in Seq(GroundItem)
      /\ nclones \in Int
  BY BoundAssumption DEF TypeOK
<1>2. Cardinality(InFiles(files', k)) <= Cardinality(InFiles(files, k)) + 0
  <2>1. Cardinality(InFiles(files, k)) \in Nat
    BY <1>1, InFilesFinite
  <2> QED
    BY <2>1, SameInFiles
<1>3. Cardinality(OnGround(ground', k)) <= Cardinality(OnGround(ground, k)) + 0
  <2>1. Cardinality(OnGround(ground, k)) \in Nat
    BY <1>1, OnGroundFinite
  <2>2. CASE ground' = ground
    BY <2>1, <2>2
  <2>3. CASE ground' = <<>>
    <3>1. OnGround(ground', k) = {}
      BY <2>3 DEF OnGround
    <3> QED
      BY <2>1, <3>1, FS_EmptySet
  <2> QED
    BY <2>2, <2>3
<1>4. 0 + 0 <= nclones' - nclones
  BY <1>1
<1> QED
  BY <1>2, <1>3, <1>4, NoMoreBySums

LEMMA GetMoves ==
  ASSUME SingleLogin, TypeOK, TypeOK', RegistryInv, WorldInv,
         NEW c \in Conns, NEW x \in Kinds, Get(c, x), NEW k
  PROVE  NoMore(k)
<1> DEFINE p == players[c]
           i == FirstAt(p.data.pos, x)
           d == IF x = k THEN 1 ELSE 0
<1>1. /\ c \in online \cap open /\ p \in Player /\ p.acct \in Accounts
      /\ files[p.acct].bag = bags[p.ref]
  <2>1. CanRun(c, "get") /\ NothingToLose
    BY DEF Get, WorldInv
  <2>2. c \in online \cap open /\ p \in Player /\ p.acct \in Accounts
    BY <2>1, RunnerKnown
  <2> QED
    BY <2>1, <2>2, AccountAssumption DEF NothingToLose
<1>2. i \in DOMAIN ground /\ ground[i].kind = x /\ ground' = LeftOnGround(ground[i])
  BY FirstAtPlace DEF Get, TypeOK
<1>3. /\ files \in [Accounts -> File] /\ files' \in [Accounts -> File]
      /\ bags \in [Refs -> Seq(Kinds)] /\ p.ref \in Refs
      /\ nclones \in Int /\ nclones' = nclones
  BY <1>1, BoundAssumption DEF TypeOK, Get, Player
<1>4. /\ files'[p.acct].bag = Append(files[p.acct].bag, x)
      /\ \A b \in Accounts \ {p.acct} : files'[b].bag = files[b].bag
  <2>1. bags'[p.ref] = Append(bags[p.ref], x)
    BY <1>3 DEF Get
  <2>2. files' = [files EXCEPT ![p.acct] = [data |-> p.data, bag |-> bags'[p.ref]]]
    BY DEF Get, Save, FileOf
  <2> HIDE DEF p
  <2> QED
    BY <1>1, <1>3, <2>1, <2>2
<1>5. Cardinality(InFiles(files', k)) <= Cardinality(InFiles(files, k)) + d
  <2> HIDE DEF p
  <2> QED
    BY <1>1, <1>3, <1>4, OneMoreInFiles
<1>6. Cardinality(OnGround(ground', k)) <= Cardinality(OnGround(ground, k)) + (0 - d)
  <2>1. /\ ground \in Seq(GroundItem) /\ Cardinality(OnGround(ground, k)) \in Nat
    BY OnGroundFinite DEF TypeOK
  <2> HIDE DEF i
  <2>2. Cardinality(OnGround(ground', k)) <= Cardinality(OnGround(ground, k)) - d
    BY <1>2, <2>1, LessOnGround
  <2> QED
    BY <2>1, <2>2
<1>7. d \in Int /\ 0 - d \in Int /\ d + (0 - d) <= nclones' - nclones
  BY <1>3
<1> HIDE DEF d
<1> QED
  BY <1>5, <1>6, <1>7, NoMoreBySums

LEMMA DropMoves ==
  ASSUME SingleLogin, TypeOK, TypeOK', RegistryInv, WorldInv,
         NEW c \in Conns, NEW x \in Kinds, Drop(c, x), NEW k
  PROVE  NoMore(k)
<1> DEFINE p == players[c]
           i == DropIndex(bags[p.ref], x)
           d == IF x = k THEN 1 ELSE 0
           e == [kind |-> x, serial |-> 0, shared |-> TRUE, at |-> Nowhere]
<1>1. /\ c \in online \cap open /\ p \in Player /\ p.acct \in Accounts
      /\ files[p.acct].bag = bags[p.ref]
  <2>1. CanRun(c, "drop") /\ NothingToLose
    BY DEF Drop, WorldInv
  <2>2. c \in online \cap open /\ p \in Player /\ p.acct \in Accounts
    BY <2>1, RunnerKnown
  <2> QED
    BY <2>1, <2>2, AccountAssumption DEF NothingToLose
<1>2. /\ files \in [Accounts -> File] /\ files' \in [Accounts -> File]
      /\ bags \in [Refs -> Seq(Kinds)] /\ p.ref \in Refs
      /\ ground \in Seq(GroundItem) /\ ground' = Append(ground, e)
      /\ nclones \in Int /\ nclones' = nclones
  BY <1>1, BoundAssumption DEF TypeOK, Drop, Player
<1>3. i \in 1 .. Len(bags[p.ref]) /\ bags[p.ref][i] = x
  BY <1>2, DropIndexPlace DEF Drop
<1>4. /\ files'[p.acct].bag = RemoveAt(files[p.acct].bag, i)
      /\ \A b \in Accounts \ {p.acct} : files'[b].bag = files[b].bag
  <2>1. bags'[p.ref] = RemoveAt(bags[p.ref], i)
    BY <1>2 DEF Drop
  <2>2. files' = [files EXCEPT ![p.acct] = [data |-> p.data, bag |-> bags'[p.ref]]]
    BY DEF Drop, Save, FileOf
  <2> HIDE DEF p, i
  <2> QED
    BY <1>1, <1>2, <2>1, <2>2
<1>5. Cardinality(InFiles(files', k)) <= Cardinality(InFiles(files, k)) + (0 - d)
  <2> HIDE DEF p, i
  <2>1. Cardinality(InFiles(files', k)) <=
          Cardinality(InFiles(files, k)) - (IF files[p.acct].bag[i] = k THEN 1 ELSE 0)
    BY <1>1, <1>2, <1>3, <1>4, OneLessInFiles
  <2>2. Cardinality(InFiles(files, k)) \in Nat /\ Cardinality(InFiles(files', k)) \in Nat
    BY <1>2, InFilesFinite
  <2> QED
    BY <1>1, <1>3, <2>1, <2>2
<1>6. Cardinality(OnGround(ground', k)) <= Cardinality(OnGround(ground, k)) + d
  <2>1. e \in GroundItem /\ e.kind = x
    BY BoundAssumption DEF GroundItem
  <2> HIDE DEF e
  <2> QED
    BY <1>2, <2>1, OneMoreOnGround
<1>7. d \in Int /\ 0 - d \in Int /\ (0 - d) + d <= nclones' - nclones
  BY <1>2
<1> HIDE DEF d
<1> QED
  BY <1>5, <1>6, <1>7, NoMoreBySums

LEMMA CloneMakes ==
  ASSUME TypeOK, TypeOK', NEW c \in Conns, NEW x \in Kinds, Clone(c, x), NEW k
  PROVE  NoMore(k)
<1> DEFINE e == [kind |-> x, serial |-> nclones', shared |-> FALSE, at |-> players[c].data.pos]
           d == IF x = k THEN 1 ELSE 0
<1>1. /\ ground \in Seq(GroundItem) /\ ground' = Append(ground, e)
      /\ nclones \in Int /\ nclones' = nclones + 1 /\ nclones' \in 0 .. MaxClones
      /\ files' = files /\ files \in [Accounts -> File] /\ players[c].data.pos \in Tiles
  BY BoundAssumption DEF TypeOK, Clone, store, Player, Profile
<1>2. e \in GroundItem /\ e.kind = x
  BY <1>1 DEF GroundItem
<1> HIDE DEF e
<1>3. Cardinality(OnGround(ground', k)) <= Cardinality(OnGround(ground, k)) + d
  BY <1>1, <1>2, OneMoreOnGround
<1>4. Cardinality(InFiles(files', k)) <= Cardinality(InFiles(files, k)) + 0
  <2>1. Cardinality(InFiles(files, k)) \in Nat
    BY <1>1, InFilesFinite
  <2> QED
    BY <1>1, <2>1
<1>5. d \in Int /\ 0 + d <= nclones' - nclones
  BY <1>1
<1> HIDE DEF d
<1> QED
  BY <1>3, <1>4, <1>5, NoMoreBySums

\* reloadJSON copies the array entry by entry.
LEMMA ReloadMoves ==
  ASSUME TypeOK, TypeOK', NEW c \in Conns, ReloadJSON(c), NEW k
  PROVE  NoMore(k)
<1>1. /\ ground \in Seq(GroundItem) /\ files' = files /\ files \in [Accounts -> File]
      /\ nclones \in Int /\ nclones' = nclones
  <2>1. files' = files /\ nclones' = nclones
    BY DEF ReloadJSON, store
  <2> QED
    BY <2>1, BoundAssumption DEF TypeOK
<1>2. OnGround(ground', k) = OnGround(ground, k)
  <2> DEFINE n == Len(ground)
  <2>1. n \in Nat /\ DOMAIN ground = 1 .. n /\ \A i \in 1 .. n : ground[i] \in GroundItem
    BY <1>1
  <2>2. ground' = [i \in 1 .. n |-> [ground[i] EXCEPT !.shared = FALSE, !.at = Where(ground[i])]]
    BY DEF ReloadJSON
  <2> HIDE DEF n
  <2>3. DOMAIN ground' = 1 .. n /\ \A i \in 1 .. n : ground'[i].kind = ground[i].kind
    BY <2>1, <2>2 DEF GroundItem
  <2> QED
    BY <2>1, <2>3 DEF OnGround
<1>3. Cardinality(InFiles(files', k)) <= Cardinality(InFiles(files, k)) + 0
  <2>1. Cardinality(InFiles(files, k)) \in Nat
    BY <1>1, InFilesFinite
  <2> QED
    BY <1>1, <2>1
<1>4. Cardinality(OnGround(ground', k)) <= Cardinality(OnGround(ground, k)) + 0
  <2>1. Cardinality(OnGround(ground, k)) \in Nat
    BY <1>1, OnGroundFinite
  <2> QED
    BY <1>2, <2>1
<1>5. 0 + 0 <= nclones' - nclones
  BY <1>1
<1> QED
  BY <1>3, <1>4, <1>5, NoMoreBySums

\* priv saves a clone with the inventory that is in the file.
LEMMA PrivKeepsBags ==
  ASSUME RegistryInv, WorldInv, NEW c \in Conns, NEW a \in Accounts, Priv(c, a)
  PROVE  SameBags
<1>1. CoreOK /\ files \in [Accounts -> File] /\ ArraysApart /\ CacheCoherent
  BY DEF RegistryInv, WorldInv, CoreOK
<1>2. CASE PrivObject(a)
  BY <1>2 DEF PrivObject, SameBags
<1>3. CASE PrivClone(a)
  <2>1. cache[a].ref = a /\ files[a].bag = bags[a]
    BY <1>1, <1>3 DEF PrivClone, ArraysApart, CacheCoherent
  <2>2. files' = [files EXCEPT ![a] = [data |-> Toggled(cache[a].data), bag |-> bags[a]]]
    BY <1>3 DEF PrivClone, Save, FileOf
  <2> QED
    BY <1>1, <2>1, <2>2 DEF SameBags
<1> QED
  BY <1>2, <1>3 DEF Priv

LEMMA NoMoreNext ==
  ASSUME SingleLogin, TypeOK, TypeOK', RegistryInv, WorldInv, Next, NEW k \in Kinds
  PROVE  NoMore(k)
<1>1. ASSUME SameBags, ground' = ground \/ ground' = <<>>, nclones' = nclones PROVE NoMore(k)
  BY <1>1, NothingMoved
<1>2. files' = files => SameBags
  BY DEF SameBags
<1>3. CASE Connect \/ Restart
  BY <1>1, <1>2, <1>3 DEF Connect, Restart, store, items
<1>4. ASSUME NEW c \in Conns,
             \/ DisconnectWebsocket(c) \/ DisconnectTelnet(c)
             \/ \E a \in Accounts : Login(c, a) \/ LoginRejected(c, a)
             \/ LoginUnknown(c) \/ PrivUnknown(c)
      PROVE  NoMore(k)
  BY <1>1, <1>2, <1>4 DEF DisconnectWebsocket, DisconnectTelnet, Login, LoginRejected,
                          LoginUnknown, PrivUnknown, store, items
<1>5. ASSUME NEW c \in Conns, NEW f \in SUBSET Fields, Set(c, f) PROVE NoMore(k)
  <2>1. /\ c \in online \cap open /\ players[c] \in Player /\ players[c].acct \in Accounts
    BY <1>5, RunnerKnown DEF Set
  <2>2. /\ players'[c].acct = players[c].acct /\ players'[c].ref = players[c].ref
        /\ Save(players'[c], bags)
    BY <1>5, <2>1 DEF Set, RegistryInv, CoreOK, Player
  <2>3. SameBags
    BY <2>1, <2>2, SaveKeepsBags
  <2> QED
    BY <1>1, <1>5, <2>3 DEF Set, items
<1>6. ASSUME NEW c \in Conns, Finish(c) PROVE NoMore(k)
  <2>1. /\ c \in online \cap open /\ players[c] \in Player /\ players[c].acct \in Accounts
    BY <1>6, RunnerKnown DEF Finish
  <2>2. /\ players'[c].acct = players[c].acct /\ players'[c].ref = players[c].ref
        /\ Save(players'[c], bags)
    BY <1>6, <2>1 DEF Finish, RegistryInv, CoreOK, Player
  <2>3. SameBags
    BY <2>1, <2>2, SaveKeepsBags
  <2> QED
    BY <1>1, <1>6, <2>3 DEF Finish, items
<1>7. ASSUME NEW c \in Conns, Quit(c) PROVE NoMore(k)
  <2>1. /\ c \in online \cap open /\ players[c] \in Player /\ players[c].acct \in Accounts
    BY <1>7, RunnerKnown DEF Quit
  <2>2. SameBags
    BY <1>7, <2>1, SaveKeepsBags DEF Quit
  <2> QED
    BY <1>1, <1>7, <2>2 DEF Quit, items
<1>8. ASSUME NEW c \in Conns, NEW d \in Steps, Go(c, d) PROVE NoMore(k)
  <2>1. /\ c \in online \cap open /\ players[c] \in Player /\ players[c].acct \in Accounts
    BY <1>8, RunnerKnown DEF Go
  <2>2. /\ players'[c].acct = players[c].acct /\ players'[c].ref = players[c].ref
        /\ Save(players'[c], bags)
    BY <1>8, <2>1 DEF Go, RegistryInv, CoreOK, Player
  <2>3. SameBags
    BY <2>1, <2>2, SaveKeepsBags
  <2> QED
    BY <1>1, <1>8, <2>3 DEF Go, items
<1>9. ASSUME NEW c \in Conns, NEW a \in Accounts, Priv(c, a) PROVE NoMore(k)
  <2>1. SameBags
    BY <1>9, PrivKeepsBags
  <2> QED
    BY <1>1, <1>9, <2>1 DEF Priv, items
<1>10. ASSUME NEW c \in Conns, NEW x \in Kinds, Get(c, x) \/ Drop(c, x) \/ Clone(c, x)
       PROVE  NoMore(k)
  BY <1>10, GetMoves, DropMoves, CloneMakes
<1>11. ASSUME NEW c \in Conns, ReloadJSON(c) PROVE NoMore(k)
  BY <1>11, ReloadMoves
<1>12. \A f \in {{x} : x \in Fields} \cup {{}} : f \in SUBSET Fields
  OBVIOUS
<1> QED
  BY <1>3, <1>4, <1>5, <1>6, <1>7, <1>8, <1>9, <1>10, <1>11, <1>12 DEF Next, Crash, Shutdown

\* With one session per account, no command, and no stop of the process,
\* makes a second copy of an item: clone is the only source of items, on any
\* map, for any number of accounts and items (get.js, drop.js, clone.js).
THEOREM ItemsAreKept == Spec => NoDuplication
<1> DEFINE Inv == RegistryInv /\ WorldInv /\ RestOK
<1>1. Init => Inv
  BY RegistryInit, WorldInit, RestInit
<1>2. Inv /\ [Next]_vars => Inv'
  BY RegistryNext, WorldNext, RestNext
<1>3. Inv => TypeOK
  BY DEF RegistryInv, CoreOK, RestOK, TypeOK
<1>4. Inv' => TypeOK'
  BY <1>3, PTL
<1>5. Inv /\ Inv' /\ [Next]_vars =>
        [SingleLogin => \A k \in Kinds : Total(k)' <= Total(k) + (nclones' - nclones)]_vars
  <2> SUFFICES ASSUME Inv, Inv', Next, SingleLogin, NEW k \in Kinds
               PROVE  Total(k)' <= Total(k) + (nclones' - nclones)
    OBVIOUS
  <2>1. NoMore(k)
    BY <1>3, <1>4, NoMoreNext
  <2> QED
    BY <2>1 DEF NoMore
<1> QED
  BY <1>1, <1>2, <1>5, PTL DEF Spec, NoDuplication
=============================================================================
