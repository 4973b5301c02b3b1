--------------------------- MODULE Catalogue_proofs ---------------------------
(***************************************************************************)
(* Proofs about the administration of the shop (Catalogue).                *)
(***************************************************************************)
EXTENDS Catalogue, SequenceTheorems, FiniteSetTheorems, TLAPS

-----------------------------------------------------------------------------
(* Tables: what inserting, changing and deleting rows does to them.        *)

LEMMA RowsOfTable ==
  ASSUME NEW S, Gone \notin S, NEW t \in Table(S)
  PROVE  /\ DOMAIN t = 1 .. Len(t) /\ Len(t) \in Nat
         /\ NextId(t) \in Nat /\ NextId(t) \notin DOMAIN t
         /\ Rows(t) \subseteq DOMAIN t /\ Rows(t) \subseteq Nat
         /\ \A k \in Rows(t) : t[k] \in S
  BY DEF Table, Rows, NextId

LEMMA RowInserted ==
  ASSUME NEW S, Gone \notin S, NEW t \in Table(S), NEW x \in S
  PROVE  /\ Append(t, x) \in Table(S)
         /\ DOMAIN Append(t, x) = DOMAIN t \cup {NextId(t)}
         /\ Rows(Append(t, x)) = Rows(t) \cup {NextId(t)}
         /\ Append(t, x)[NextId(t)] = x
         /\ \A k \in DOMAIN t : Append(t, x)[k] = t[k]
  BY DEF Table, Rows, NextId

LEMMA IdTaken ==
  ASSUME NEW S, Gone \notin S, NEW t \in Table(S)
  PROVE  /\ Append(t, Gone) \in Table(S)
         /\ DOMAIN t \subseteq DOMAIN Append(t, Gone)
         /\ Rows(Append(t, Gone)) = Rows(t)
         /\ \A k \in DOMAIN t : Append(t, Gone)[k] = t[k]
  BY DEF Table, Rows

LEMMA RowsInserted ==
  ASSUME NEW S, Gone \notin S, NEW t \in Table(S), NEW R \in SUBSET S, NEW new \in Seq(R)
  PROVE  /\ t \o new \in Table(S)
         /\ DOMAIN t \subseteq DOMAIN (t \o new)
         /\ Rows(t) \subseteq Rows(t \o new)
         /\ \A k \in DOMAIN t : (t \o new)[k] = t[k]
         /\ \A k \in Rows(t \o new) : k \in Rows(t) \/ (t \o new)[k] \in R
<1>1. new \in Seq(S \cup {Gone}) /\ \A n \in 1 .. Len(new) : new[n] \in R
  BY DEF Table
<1>2. /\ t \o new \in Seq(S \cup {Gone})
      /\ Len(t \o new) = Len(t) + Len(new)
      /\ \A i \in 1 .. Len(t) + Len(new) : (t \o new)[i] =
                     IF i <= Len(t) THEN t[i] ELSE new[i - Len(t)]
  BY <1>1, ConcatProperties DEF Table
<1>3. DOMAIN (t \o new) = 1 .. Len(t) + Len(new) /\ DOMAIN t = 1 .. Len(t) /\ DOMAIN new = 1 .. Len(new)
  BY <1>1, <1>2 DEF Table
<1> QED BY <1>1, <1>2, <1>3 DEF Table, Rows

LEMMA RowsErased ==
  ASSUME NEW S, Gone \notin S, NEW t \in Table(S), NEW ids
  PROVE  /\ Erase(t, ids) \in Table(S)
         /\ DOMAIN Erase(t, ids) = DOMAIN t
         /\ Rows(Erase(t, ids)) = Rows(t) \ ids
         /\ \A k \in Rows(t) \ ids : Erase(t, ids)[k] = t[k]
  BY DEF Table, Rows, Erase

LEMMA RowChanged ==
  ASSUME NEW S, Gone \notin S, NEW t \in Table(S), NEW k \in Rows(t), NEW x \in S
  PROVE  /\ [t EXCEPT ![k] = x] \in Table(S)
         /\ DOMAIN [t EXCEPT ![k] = x] = DOMAIN t
         /\ Rows([t EXCEPT ![k] = x]) = Rows(t)
         /\ [t EXCEPT ![k] = x][k] = x
         /\ \A j \in DOMAIN t \ {k} : [t EXCEPT ![k] = x][j] = t[j]
  BY DEF Table, Rows

-----------------------------------------------------------------------------
(* Databases: every statement keeps the references.                        *)

LEMMA TablesOf ==
  ASSUME NEW d \in Tables
  PROVE  /\ d.institutions \in Table(Contracts) /\ d.events \in Table(EventRows)
         /\ d.products \in Table(ProductRows) /\ d.links \in Table(LinkRows)
         /\ d.users \in Table(UserRows) /\ d.photos \in Table(PhotoRows)
         /\ d.lines \subseteq [user : Nat, product : Nat, photo : Nat]
  BY DEF Tables

LEMMA GoneIsNoRow ==
  /\ Gone \notin Contracts /\ Gone \notin EventRows /\ Gone \notin ProductRows
  /\ Gone \notin LinkRows /\ Gone \notin UserRows /\ Gone \notin PhotoRows
  BY CatalogueAssumption

(* What every statement makes sure of: ids are not used again, those of    *)
(* events excepted, which a form can bring back; an event goes only when   *)
(* its institution does, and a link stays with its own.                    *)
Grown(t, u) == DOMAIN t \subseteq DOMAIN u /\ Rows(u) \cap DOMAIN t \subseteq Rows(t)

Follows(d, new) ==
  /\ new \in Tables /\ Referenced(new)
  /\ Grown(d.institutions, new.institutions) /\ DOMAIN d.events \subseteq DOMAIN new.events
  /\ Grown(d.links, new.links) /\ Grown(d.users, new.users)
  /\ \A e \in Rows(d.events) :
        d.events[e].institution \in Rows(new.institutions) => e \in Rows(new.events)
  /\ \A l \in Rows(d.links) \cap Rows(new.links) : new.links[l].institution = d.links[l].institution

LEMMA FollowsItself == ASSUME NEW d \in Tables, Referenced(d) PROVE Follows(d, d)
  BY DEF Follows, Grown, Referenced

LEMMA CascadeKeeps ==
  ASSUME NEW d \in Tables, Referenced(d), NEW is, NEW us, NEW ps, Deletable(d, is, us, ps)
  PROVE  Follows(d, Without(d, is, us, ps))
<1> DEFINE new == Without(d, is, us, ps)
           E == EventsLost(d, is)
           L == LinksLost(d, is, ps)
           U == UsersLost(d, is, us)
           F == PhotosLost(d, is, us)
<1>1. /\ new.institutions = Erase(d.institutions, is) /\ new.events = Erase(d.events, E)
      /\ new.products = Erase(d.products, ps) /\ new.links = Erase(d.links, L)
      /\ new.users = Erase(d.users, U) /\ new.photos = Erase(d.photos, F)
      /\ new.lines = LinesKept(d, is, us)
  BY DEF Without
<1>2. /\ Rows(new.institutions) = Rows(d.institutions) \ is
      /\ Rows(new.products) = Rows(d.products) \ ps
      /\ Rows(new.events) = Rows(d.events) \ E /\ DOMAIN new.events = DOMAIN d.events
      /\ \A k \in Rows(new.events) : new.events[k] = d.events[k]
  BY <1>1, TablesOf, GoneIsNoRow, RowsErased
<1>3. /\ Rows(new.links) = Rows(d.links) \ L
      /\ \A k \in Rows(new.links) : new.links[k] = d.links[k]
      /\ Rows(new.users) = Rows(d.users) \ U
      /\ \A k \in Rows(new.users) : new.users[k] = d.users[k]
      /\ Rows(new.photos) = Rows(d.photos) \ F
      /\ \A k \in Rows(new.photos) : new.photos[k] = d.photos[k]
  BY <1>1, TablesOf, GoneIsNoRow, RowsErased
<1>4. new \in Tables
  <2>1. /\ new.institutions \in Table(Contracts) /\ new.events \in Table(EventRows)
        /\ new.products \in Table(ProductRows) /\ new.links \in Table(LinkRows)
        /\ new.users \in Table(UserRows) /\ new.photos \in Table(PhotoRows)
    BY <1>1, TablesOf, GoneIsNoRow, RowsErased
  <2>2. new.lines \subseteq [user : Nat, product : Nat, photo : Nat]
    BY <1>1, TablesOf DEF LinesKept
  <2> QED BY <2>1, <2>2 DEF Tables, Without
<1>5. /\ \A e \in Rows(new.events) : new.events[e].institution \in Rows(new.institutions)
      /\ \A u \in Rows(new.users) : new.users[u].institution \in Rows(new.institutions)
  BY <1>2, <1>3 DEF Referenced, EventsLost, UsersLost
<1>6. \A l \in Rows(new.links) :
          /\ new.links[l].product \in Rows(new.products)
          /\ new.links[l].institution \in Rows(new.institutions)
  BY <1>2, <1>3 DEF Referenced, LinksLost
<1>7. \A f \in Rows(new.photos) :
          new.photos[f].user \in Rows(new.users) /\ new.photos[f].event \in Rows(new.events)
  BY <1>2, <1>3 DEF Referenced, PhotosLost
<1>8. \A x \in new.lines :
          /\ x.user \in Rows(new.users) /\ x.product \in Rows(new.products)
          /\ x.photo \in Rows(new.photos)
  BY <1>1, <1>2, <1>3 DEF Referenced, LinesKept, Deletable
<1> HIDE DEF new
<1>9. Referenced(new)
  BY <1>5, <1>6, <1>7, <1>8 DEF Referenced
<1>10. /\ Grown(d.institutions, new.institutions) /\ DOMAIN d.events \subseteq DOMAIN new.events
       /\ Grown(d.links, new.links) /\ Grown(d.users, new.users)
  <2>1. /\ DOMAIN new.institutions = DOMAIN d.institutions /\ DOMAIN new.links = DOMAIN d.links
        /\ DOMAIN new.users = DOMAIN d.users
    BY <1>1 DEF Erase
  <2> QED BY <1>2, <1>3, <2>1 DEF Grown
<1>11. \A e \in Rows(d.events) :
          d.events[e].institution \in Rows(new.institutions) => e \in Rows(new.events)
  BY <1>2 DEF EventsLost
<1>12. \A l \in Rows(new.links) : new.links[l].institution = d.links[l].institution
  BY <1>3
<1> QED BY <1>4, <1>9, <1>10, <1>11, <1>12 DEF Follows, new

LEMMA InstitutionsChanged ==
  ASSUME NEW d \in Tables, Referenced(d), NEW t \in Table(Contracts),
         Grown(d.institutions, t), Rows(d.institutions) \subseteq Rows(t)
  PROVE  Follows(d, [d EXCEPT !.institutions = t])
<1> DEFINE new == [d EXCEPT !.institutions = t]
<1>1. new \in Tables /\ new.institutions = t
  BY DEF Tables
<1>2. /\ new.events = d.events /\ new.products = d.products /\ new.links = d.links
      /\ new.users = d.users /\ new.photos = d.photos /\ new.lines = d.lines
  BY DEF Tables
<1> HIDE DEF new
<1>3. Referenced(new)
  BY <1>1, <1>2 DEF Referenced
<1> QED BY <1>1, <1>2, <1>3 DEF Follows, Grown, Referenced, new

LEMMA EventsChanged ==
  ASSUME NEW d \in Tables, Referenced(d), NEW t \in Table(EventRows),
         DOMAIN d.events \subseteq DOMAIN t, Rows(d.events) \subseteq Rows(t),
         \A e \in Rows(t) : t[e].institution \in Rows(d.institutions)
  PROVE  Follows(d, [d EXCEPT !.events = t])
<1> DEFINE new == [d EXCEPT !.events = t]
<1>1. new \in Tables /\ new.events = t
  BY DEF Tables
<1>2. /\ new.institutions = d.institutions /\ new.products = d.products /\ new.links = d.links
      /\ new.users = d.users /\ new.photos = d.photos /\ new.lines = d.lines
  BY DEF Tables
<1> HIDE DEF new
<1>3. Referenced(new)
  <2>1. /\ \A e \in Rows(new.events) : new.events[e].institution \in Rows(new.institutions)
        /\ \A u \in Rows(new.users) : new.users[u].institution \in Rows(new.institutions)
    BY <1>1, <1>2 DEF Referenced
  <2>2. \A l \in Rows(new.links) :
          /\ new.links[l].product \in Rows(new.products)
          /\ new.links[l].institution \in Rows(new.institutions)
    BY <1>1, <1>2 DEF Referenced
  <2>3. /\ \A f \in Rows(new.photos) :
              new.photos[f].user \in Rows(new.users) /\ new.photos[f].event \in Rows(new.events)
        /\ \A x \in new.lines :
              /\ x.user \in Rows(new.users) /\ x.product \in Rows(new.products)
              /\ x.photo \in Rows(new.photos)
    BY <1>1, <1>2 DEF Referenced
  <2> QED BY <2>1, <2>2, <2>3 DEF Referenced
<1> QED BY <1>1, <1>2, <1>3 DEF Follows, Grown, Referenced, new

LEMMA ProductsChanged ==
  ASSUME NEW d \in Tables, Referenced(d), NEW t \in Table(ProductRows),
         Rows(d.products) \subseteq Rows(t)
  PROVE  Follows(d, [d EXCEPT !.products = t])
<1> DEFINE new == [d EXCEPT !.products = t]
<1>1. new \in Tables /\ new.products = t
  BY DEF Tables
<1>2. /\ new.institutions = d.institutions /\ new.events = d.events /\ new.links = d.links
      /\ new.users = d.users /\ new.photos = d.photos /\ new.lines = d.lines
  BY DEF Tables
<1> HIDE DEF new
<1>3. Referenced(new)
  BY <1>1, <1>2 DEF Referenced
<1> QED BY <1>1, <1>2, <1>3 DEF Follows, Grown, Referenced, new

LEMMA LinksChanged ==
  ASSUME NEW d \in Tables, Referenced(d), NEW t \in Table(LinkRows),
         Grown(d.links, t),
         \A l \in Rows(d.links) \cap Rows(t) : t[l].institution = d.links[l].institution,
         \A l \in Rows(t) : t[l].product \in Rows(d.products) /\ t[l].institution \in Rows(d.institutions)
  PROVE  Follows(d, [d EXCEPT !.links = t])
<1> DEFINE new == [d EXCEPT !.links = t]
<1>1. new \in Tables /\ new.links = t
  BY DEF Tables
<1>2. /\ new.institutions = d.institutions /\ new.events = d.events /\ new.products = d.products
      /\ new.users = d.users /\ new.photos = d.photos /\ new.lines = d.lines
  BY DEF Tables
<1> HIDE DEF new
<1>3. Referenced(new)
  BY <1>1, <1>2 DEF Referenced
<1> QED BY <1>1, <1>2, <1>3 DEF Follows, Grown, Referenced, new

LEMMA UsersChanged ==
  ASSUME NEW d \in Tables, Referenced(d), NEW t \in Table(UserRows),
         Grown(d.users, t), Rows(d.users) \subseteq Rows(t),
         \A u \in Rows(t) : t[u].institution \in Rows(d.institutions)
  PROVE  Follows(d, [d EXCEPT !.users = t])
<1> DEFINE new == [d EXCEPT !.users = t]
<1>1. new \in Tables /\ new.users = t
  BY DEF Tables
<1>2. /\ new.institutions = d.institutions /\ new.events = d.events /\ new.products = d.products /\ new.links = d.links
      /\ new.photos = d.photos /\ new.lines = d.lines
  BY DEF Tables
<1> HIDE DEF new
<1>3. Referenced(new)
  BY <1>1, <1>2 DEF Referenced
<1> QED BY <1>1, <1>2, <1>3 DEF Follows, Grown, Referenced, new

LEMMA PhotosChanged ==
  ASSUME NEW d \in Tables, Referenced(d), NEW t \in Table(PhotoRows),
         Rows(d.photos) \subseteq Rows(t),
         \A f \in Rows(t) : t[f].user \in Rows(d.users) /\ t[f].event \in Rows(d.events)
  PROVE  Follows(d, [d EXCEPT !.photos = t])
<1> DEFINE new == [d EXCEPT !.photos = t]
<1>1. new \in Tables /\ new.photos = t
  BY DEF Tables
<1>2. /\ new.institutions = d.institutions /\ new.events = d.events /\ new.products = d.products /\ new.links = d.links
      /\ new.users = d.users /\ new.lines = d.lines
  BY DEF Tables
<1> HIDE DEF new
<1>3. Referenced(new)
  BY <1>1, <1>2 DEF Referenced
<1> QED BY <1>1, <1>2, <1>3 DEF Follows, Grown, Referenced, new

LEMMA LineAdded ==
  ASSUME NEW d \in Tables, Referenced(d), NEW u \in Rows(d.users), NEW p \in Rows(d.products),
         NEW f \in Rows(d.photos)
  PROVE  Follows(d, [d EXCEPT !.lines = @ \cup {[user |-> u, product |-> p, photo |-> f]}])
<1> DEFINE new == [d EXCEPT !.lines = @ \cup {[user |-> u, product |-> p, photo |-> f]}]
<1>1. u \in Nat /\ p \in Nat /\ f \in Nat
  BY TablesOf, GoneIsNoRow, RowsOfTable
<1>2. /\ new \in Tables /\ new.lines = d.lines \cup {[user |-> u, product |-> p, photo |-> f]}
      /\ new.institutions = d.institutions /\ new.events = d.events /\ new.products = d.products
      /\ new.links = d.links /\ new.users = d.users /\ new.photos = d.photos
  BY <1>1 DEF Tables
<1> HIDE DEF new
<1> QED BY <1>2 DEF Follows, Grown, Referenced, new

LEMMA FollowsOn ==
  ASSUME NEW d, Referenced(d), NEW m, NEW new, Follows(d, m), Follows(m, new),
         Rows(d.events) \subseteq Rows(new.events)
  PROVE  Follows(d, new)
<1>1. /\ new \in Tables /\ Referenced(new)
      /\ Grown(d.institutions, new.institutions) /\ DOMAIN d.events \subseteq DOMAIN new.events
      /\ Grown(d.links, new.links) /\ Grown(d.users, new.users)
  BY DEF Follows, Grown
<1>2. ASSUME NEW l \in Rows(d.links) \cap Rows(new.links)
      PROVE  new.links[l].institution = d.links[l].institution
  <2>1. l \in Rows(m.links)
    BY DEF Follows, Grown, Rows
  <2> QED BY <2>1 DEF Follows
<1> QED
  BY <1>1, <1>2 DEF Follows

-----------------------------------------------------------------------------
(* The script: which row comes at which place.                             *)

SeedKinds == {"institutions", "events", "users", "products", "links"}

LEMMA Joined ==
  ASSUME NEW S, NEW s \in Seq(S), NEW t \in Seq(S)
  PROVE  /\ s \o t \in Seq(S) /\ Len(s \o t) = Len(s) + Len(t) /\ Len(s \o t) \in Nat
         /\ \A i \in 1 .. Len(s) : (s \o t)[i] = s[i]
         /\ \A i \in 1 .. Len(t) : (s \o t)[Len(s) + i] = t[i]
<1>1. Len(s) \in Nat /\ Len(t) \in Nat
  OBVIOUS
<1>2. /\ s \o t \in Seq(S) /\ Len(s \o t) = Len(s) + Len(t)
      /\ \A i \in 1 .. Len(s) + Len(t) : (s \o t)[i] = IF i <= Len(s) THEN s[i] ELSE t[i - Len(s)]
  BY ConcatProperties
<1>3. \A i \in 1 .. Len(t) : /\ Len(s) + i \in 1 .. Len(s) + Len(t) /\ ~(Len(s) + i <= Len(s))
                             /\ (Len(s) + i) - Len(s) = i
  BY <1>1
<1> QED BY <1>1, <1>2, <1>3

Consecutive(all, a, b, c, f, g) ==
  /\ Len(all) = Len(a) + Len(b) + Len(c) + Len(f) + Len(g)
  /\ \A i \in 1 .. Len(a) : all[i] = a[i]
  /\ \A i \in 1 .. Len(b) : all[Len(a) + i] = b[i]
  /\ \A i \in 1 .. Len(c) : all[Len(a) + Len(b) + i] = c[i]
  /\ \A i \in 1 .. Len(f) : all[Len(a) + Len(b) + Len(c) + i] = f[i]
  /\ \A i \in 1 .. Len(g) : all[Len(a) + Len(b) + Len(c) + Len(f) + i] = g[i]

LEMMA FiveJoined ==
  ASSUME NEW S, NEW a \in Seq(S), NEW b \in Seq(S), NEW c \in Seq(S), NEW f \in Seq(S), NEW g \in Seq(S)
  PROVE  a \o b \o c \o f \o g \in Seq(S) /\ Consecutive(a \o b \o c \o f \o g, a, b, c, f, g)
<1> SUFFICES ASSUME NEW all, all = a \o b \o c \o f \o g
             PROVE  all \in Seq(S) /\ Consecutive(all, a, b, c, f, g)
  OBVIOUS
<1>0. /\ Len(a) \in Nat /\ Len(b) \in Nat /\ Len(c) \in Nat /\ Len(f) \in Nat /\ Len(g) \in Nat
  OBVIOUS
<1>1. PICK x : x = a \o b
  OBVIOUS
<1>2. /\ x \in Seq(S) /\ Len(x) = Len(a) + Len(b)
      /\ \A i \in 1 .. Len(a) : x[i] = a[i]
      /\ \A i \in 1 .. Len(b) : x[Len(a) + i] = b[i]
  BY <1>1, Joined
<1>3. PICK y : y = x \o c
  OBVIOUS
<1>4. /\ y \in Seq(S) /\ Len(y) = Len(x) + Len(c)
      /\ \A i \in 1 .. Len(x) : y[i] = x[i]
      /\ \A i \in 1 .. Len(c) : y[Len(x) + i] = c[i]
  <2>1. x \in Seq(S)
    BY <1>2
  <2> QED BY <1>3, <2>1, Joined
<1>5. PICK z : z = y \o f
  OBVIOUS
<1>6. /\ z \in Seq(S) /\ Len(z) = Len(y) + Len(f)
      /\ \A i \in 1 .. Len(y) : z[i] = y[i]
      /\ \A i \in 1 .. Len(f) : z[Len(y) + i] = f[i]
  <2>1. y \in Seq(S)
    BY <1>4
  <2> QED BY <1>5, <2>1, Joined
<1>7. /\ all \in Seq(S) /\ Len(all) = Len(z) + Len(g)
      /\ \A i \in 1 .. Len(z) : all[i] = z[i]
      /\ \A i \in 1 .. Len(g) : all[Len(z) + i] = g[i]
  <2>1. all = z \o g
    BY <1>1, <1>3, <1>5
  <2>2. z \in Seq(S)
    BY <1>6
  <2> QED BY <2>1, <2>2, Joined
<1>8. /\ Len(x) = Len(a) + Len(b) /\ Len(y) = Len(a) + Len(b) + Len(c)
      /\ Len(z) = Len(a) + Len(b) + Len(c) + Len(f)
  BY <1>2, <1>4, <1>6
<1>9. 1 .. Len(x) \subseteq 1 .. Len(y) /\ 1 .. Len(y) \subseteq 1 .. Len(z)
  BY <1>0, <1>8
<1>10. /\ \A i \in 1 .. Len(y) : all[i] = y[i]
       /\ \A i \in 1 .. Len(x) : all[i] = x[i]
  BY <1>4, <1>6, <1>7, <1>9
<1>11. /\ 1 .. Len(a) \subseteq 1 .. Len(x)
       /\ \A i \in 1 .. Len(b) : Len(a) + i \in 1 .. Len(x)
       /\ \A i \in 1 .. Len(c) : Len(x) + i \in 1 .. Len(y)
       /\ \A i \in 1 .. Len(f) : Len(y) + i \in 1 .. Len(z)
  BY <1>0, <1>8
<1>12. /\ \A i \in 1 .. Len(a) : all[i] = a[i]
       /\ \A i \in 1 .. Len(b) : all[Len(a) + i] = b[i]
       /\ \A i \in 1 .. Len(c) : all[Len(x) + i] = c[i]
       /\ \A i \in 1 .. Len(f) : all[Len(y) + i] = f[i]
  <2>1. \A i \in 1 .. Len(c) : all[Len(x) + i] = c[i]
    BY <1>4, <1>10, <1>11
  <2>2. \A i \in 1 .. Len(f) : all[Len(y) + i] = f[i]
    BY <1>6, <1>7, <1>11
  <2> QED BY <1>2, <1>10, <1>11, <2>1, <2>2
<1> QED
  <2>1. all \in Seq(S) /\ Len(all) = Len(a) + Len(b) + Len(c) + Len(f) + Len(g)
    BY <1>7, <1>8
  <2> QED BY <1>7, <1>8, <1>12, <2>1, Zenon DEF Consecutive

LEMMA SeedRowsPlaced ==
  LET e == Len(SeedEvents)  u == Len(SeedUsers)  p == Len(SeedProducts)
  IN  /\ e \in Nat /\ u \in Nat /\ p \in Nat
      /\ SeedRows \in Seq([table : SeedKinds, k : Nat])
      /\ Len(SeedRows) = 1 + e + u + p + p
      /\ SeedRows[1] = [table |-> "institutions", k |-> 1]
      /\ \A k \in 1 .. e : SeedRows[1 + k] = [table |-> "events", k |-> k]
      /\ \A k \in 1 .. u : SeedRows[1 + e + k] = [table |-> "users", k |-> k]
      /\ \A k \in 1 .. p : SeedRows[1 + e + u + k] = [table |-> "products", k |-> k]
      /\ \A k \in 1 .. p : SeedRows[1 + e + u + p + k] = [table |-> "links", k |-> k]
<1> DEFINE S == [table : SeedKinds, k : Nat]
           e == Len(SeedEvents)
           u == Len(SeedUsers)
           p == Len(SeedProducts)
<1>1. /\ e \in Nat /\ DOMAIN SeedEvents = 1 .. e
      /\ u \in Nat /\ DOMAIN SeedUsers = 1 .. u
      /\ p \in Nat /\ DOMAIN SeedProducts = 1 .. p
  BY CatalogueAssumption
<1>2. PICK I : I = <<[table |-> "institutions", k |-> 1]>>
  OBVIOUS
<1>3. PICK E : E = [k \in DOMAIN SeedEvents |-> [table |-> "events", k |-> k]]
  OBVIOUS
<1>4. PICK U : U = [k \in DOMAIN SeedUsers |-> [table |-> "users", k |-> k]]
  OBVIOUS
<1>5. PICK P : P = [k \in DOMAIN SeedProducts |-> [table |-> "products", k |-> k]]
  OBVIOUS
<1>6. PICK L : L = [k \in DOMAIN SeedProducts |-> [table |-> "links", k |-> k]]
  OBVIOUS
<1>7. /\ I \in Seq(S) /\ Len(I) = 1 /\ I[1] = [table |-> "institutions", k |-> 1]
      /\ E \in Seq(S) /\ Len(E) = e /\ \A k \in 1 .. e : E[k] = [table |-> "events", k |-> k]
      /\ U \in Seq(S) /\ Len(U) = u /\ \A k \in 1 .. u : U[k] = [table |-> "users", k |-> k]
  BY <1>1, <1>2, <1>3, <1>4 DEF SeedKinds
<1>8. /\ P \in Seq(S) /\ Len(P) = p /\ \A k \in 1 .. p : P[k] = [table |-> "products", k |-> k]
      /\ L \in Seq(S) /\ Len(L) = p /\ \A k \in 1 .. p : L[k] = [table |-> "links", k |-> k]
  BY <1>1, <1>5, <1>6 DEF SeedKinds
<1>9. SeedRows = I \o E \o U \o P \o L
  BY <1>2, <1>3, <1>4, <1>5, <1>6 DEF SeedRows
<1> HIDE DEF S
<1>10. /\ SeedRows \in Seq(S) /\ Len(SeedRows) = 1 + e + u + p + p
       /\ \A i \in 1 .. 1 : SeedRows[i] = I[i]
       /\ \A i \in 1 .. e : SeedRows[1 + i] = E[i]
       /\ \A i \in 1 .. u : SeedRows[1 + e + i] = U[i]
       /\ \A i \in 1 .. p : SeedRows[1 + e + u + i] = P[i]
       /\ \A i \in 1 .. p : SeedRows[1 + e + u + p + i] = L[i]
  <2>1. /\ I \in Seq(S) /\ E \in Seq(S) /\ U \in Seq(S) /\ P \in Seq(S) /\ L \in Seq(S)
        /\ Len(I) = 1 /\ Len(E) = e /\ Len(U) = u /\ Len(P) = p /\ Len(L) = p
    BY <1>7, <1>8
  <2>2. SeedRows \in Seq(S) /\ Consecutive(SeedRows, I, E, U, P, L)
    BY <1>9, <2>1, FiveJoined, Zenon
  <2> QED BY <2>1, <2>2, Zenon DEF Consecutive
<1>11. SeedRows[1] = [table |-> "institutions", k |-> 1]
  BY <1>7, <1>10
<1> QED BY <1>1, <1>7, <1>8, <1>10, <1>11, Zenon DEF S

LEMMA KindOfSeedRow ==
  ASSUME NEW j \in 1 .. Len(SeedRows)
  PROVE  LET r == SeedRows[j]
             e == Len(SeedEvents)  u == Len(SeedUsers)  p == Len(SeedProducts)
         IN  \/ r.table = "institutions" /\ j = 1
             \/ r.table = "events" /\ r.k \in 1 .. e /\ j = 1 + r.k
             \/ r.table = "users" /\ r.k \in 1 .. u /\ j = 1 + e + r.k
             \/ r.table = "products" /\ r.k \in 1 .. p /\ j = 1 + e + u + r.k
             \/ r.table = "links" /\ r.k \in 1 .. p /\ j = 1 + e + u + p + r.k
<1> DEFINE e == Len(SeedEvents)
           u == Len(SeedUsers)
           p == Len(SeedProducts)
<1>1. /\ e \in Nat /\ u \in Nat /\ p \in Nat /\ j \in Nat /\ 1 <= j /\ j <= 1 + e + u + p + p
      /\ SeedRows[1] = [table |-> "institutions", k |-> 1]
  BY SeedRowsPlaced
<1>2. /\ \A k \in 1 .. e : SeedRows[1 + k] = [table |-> "events", k |-> k]
      /\ \A k \in 1 .. u : SeedRows[1 + e + k] = [table |-> "users", k |-> k]
      /\ \A k \in 1 .. p : SeedRows[1 + e + u + k] = [table |-> "products", k |-> k]
      /\ \A k \in 1 .. p : SeedRows[1 + e + u + p + k] = [table |-> "links", k |-> k]
  BY SeedRowsPlaced
<1> HIDE DEF e, u, p
<1>3. \/ j = 1
      \/ \E k \in 1 .. e : j = 1 + k
      \/ \E k \in 1 .. u : j = 1 + e + k
      \/ \E k \in 1 .. p : j = 1 + e + u + k
      \/ \E k \in 1 .. p : j = 1 + e + u + p + k
  <2>1. CASE j > 1 /\ j <= 1 + e
    <3>1. j - 1 \in 1 .. e /\ j = 1 + (j - 1)
      BY <1>1, <2>1
    <3> QED BY <3>1
  <2>2. CASE j > 1 + e /\ j <= 1 + e + u
    <3>1. j - 1 - e \in 1 .. u /\ j = 1 + e + (j - 1 - e)
      BY <1>1, <2>2
    <3> QED BY <3>1
  <2>3. CASE j > 1 + e + u /\ j <= 1 + e + u + p
    <3>1. j - 1 - e - u \in 1 .. p /\ j = 1 + e + u + (j - 1 - e - u)
      BY <1>1, <2>3
    <3> QED BY <3>1
  <2>4. CASE j > 1 + e + u + p
    <3>1. j - 1 - e - u - p \in 1 .. p /\ j = 1 + e + u + p + (j - 1 - e - u - p)
      BY <1>1, <2>4
    <3> QED BY <3>1
  <2> QED BY <1>1, <2>1, <2>2, <2>3, <2>4
<1>4. ASSUME NEW k \in 1 .. e, j = 1 + k
      PROVE  SeedRows[j].table = "events" /\ SeedRows[j].k = k
  <2>1. SeedRows[1 + k] = [table |-> "events", k |-> k]
    BY <1>2, Zenon
  <2> QED BY <1>4, <2>1
<1>5. ASSUME NEW k \in 1 .. u, j = 1 + e + k
      PROVE  SeedRows[j].table = "users" /\ SeedRows[j].k = k
  <2>1. SeedRows[1 + e + k] = [table |-> "users", k |-> k]
    BY <1>2, Zenon
  <2> QED BY <1>5, <2>1
<1>6. ASSUME NEW k \in 1 .. p, j = 1 + e + u + k
      PROVE  SeedRows[j].table = "products" /\ SeedRows[j].k = k
  <2>1. SeedRows[1 + e + u + k] = [table |-> "products", k |-> k]
    BY <1>2, Zenon
  <2> QED BY <1>6, <2>1
<1>7. ASSUME NEW k \in 1 .. p, j = 1 + e + u + p + k
      PROVE  SeedRows[j].table = "links" /\ SeedRows[j].k = k
  <2>1. SeedRows[1 + e + u + p + k] = [table |-> "links", k |-> k]
    BY <1>2, Zenon
  <2> QED BY <1>7, <2>1
<1>8. j = 1 => SeedRows[j].table = "institutions"
  BY <1>1
<1> QED BY <1>3, <1>4, <1>5, <1>6, <1>7, <1>8, Zenon DEF e, u, p

-----------------------------------------------------------------------------
(* What every handler does to the tables.                                  *)

LEMMA SetListed ==
  ASSUME NEW S, IsFiniteSet(S)
  PROVE  Cardinality(S) \in Nat /\ SetToSeq(S) \in [1 .. Cardinality(S) -> S]
<1>1. Cardinality(S) \in Nat /\ ExistsBijection(1 .. Cardinality(S), S)
  BY FS_CardinalityType
<1>2. \E f \in [1 .. Cardinality(S) -> S] : IsInjective(f)
  <2>1. PICK f : f \in Bijection(1 .. Cardinality(S), S)
    BY <1>1, Zenon DEF ExistsBijection
  <2>2. f \in [1 .. Cardinality(S) -> S] /\ IsInjective(f)
    BY <2>1 DEF Bijection, Injection
  <2> QED BY <2>2
<1>3. SetToSeq(S) \in [1 .. Cardinality(S) -> S]
  BY <1>2 DEF SetToSeq
<1> QED BY <1>1, <1>3

LEMMA SoundTables ==
  ASSUME TypeOK
  PROVE  /\ db \in Tables /\ Referenced(db)
         /\ db.institutions \in Table(Contracts) /\ db.events \in Table(EventRows)
         /\ db.products \in Table(ProductRows) /\ db.links \in Table(LinkRows)
         /\ db.users \in Table(UserRows) /\ db.photos \in Table(PhotoRows)
  BY TablesOf DEF TypeOK

(* New events of an institution that is there, after the others.           *)
LEMMA EventsAdded ==
  ASSUME NEW d \in Tables, Referenced(d), NEW i \in Rows(d.institutions),
         NEW t \in Table(EventRows), DOMAIN t = DOMAIN d.events, Rows(d.events) \subseteq Rows(t),
         \A e \in Rows(t) : t[e].institution \in Rows(d.institutions),
         NEW new \in Seq({r \in EventRows : r.institution = i})
  PROVE  /\ Follows(d, [d EXCEPT !.events = t \o new])
         /\ Rows(t) \subseteq Rows(t \o new)
         /\ \A e \in DOMAIN t : (t \o new)[e] = t[e]
<1> DEFINE R == {r \in EventRows : r.institution = i}
           u == t \o new
<1>1. R \in SUBSET EventRows /\ Gone \notin EventRows /\ new \in Seq(R)
  BY GoneIsNoRow
<1> HIDE DEF R
<1>2. u \in Table(EventRows) /\ DOMAIN t \subseteq DOMAIN u /\ Rows(t) \subseteq Rows(u)
  BY <1>1, RowsInserted
<1>3. \A k \in DOMAIN t : u[k] = t[k]
  BY <1>1, RowsInserted
<1>4. \A k \in Rows(u) : k \in Rows(t) \/ u[k] \in R
  BY <1>1, RowsInserted
<1> HIDE DEF u
<1>5. Rows(t) \subseteq DOMAIN t
  BY DEF Rows
<1>6. \A e \in Rows(u) : u[e].institution \in Rows(d.institutions)
  BY <1>3, <1>4, <1>5 DEF R
<1>7. Follows(d, [d EXCEPT !.events = u])
  BY <1>2, <1>6, EventsChanged
<1> QED BY <1>2, <1>3, <1>7 DEF u

LEMMA CreateInstitutionFollows ==
  ASSUME TypeOK, CreateInstitution
  PROVE  Follows(db, db') /\ \A e \in DOMAIN db.events : db'.events[e] = db.events[e]
<1>1. PICK contract \in Contracts, names \in SUBSET EventNames :
         LET i == NextId(db.institutions)
             new == [k \in 1 .. Cardinality(names) |->
                       [institution |-> i, name |-> SetToSeq(names)[k], deleted |-> FALSE]]
         IN  db' = [db EXCEPT !.institutions = Append(@, contract), !.events = @ \o new]
  BY DEF CreateInstitution
<1> DEFINE i == NextId(db.institutions)
           new == [k \in 1 .. Cardinality(names) |->
                     [institution |-> i, name |-> SetToSeq(names)[k], deleted |-> FALSE]]
           is == Append(db.institutions, contract)
           mid == [db EXCEPT !.institutions = is]
<1>2. /\ is \in Table(Contracts) /\ Rows(is) = Rows(db.institutions) \cup {i} /\ i \in Nat
      /\ Grown(db.institutions, is)
  <2>1. db.institutions \in Table(Contracts) /\ Gone \notin Contracts
    BY SoundTables, GoneIsNoRow
  <2>2. i \in Nat /\ i \notin DOMAIN db.institutions
    BY <2>1, RowsOfTable
  <2>3. /\ is \in Table(Contracts) /\ Rows(is) = Rows(db.institutions) \cup {i}
        /\ DOMAIN is = DOMAIN db.institutions \cup {i}
    BY <2>1, RowInserted
  <2> HIDE DEF is, i
  <2> QED BY <2>2, <2>3 DEF Grown
<1>3. new \in Seq({r \in EventRows : r.institution = i})
  <2>1. IsFiniteSet(names)
    BY CatalogueAssumption, FS_Subset
  <2>2. SetToSeq(names) \in [1 .. Cardinality(names) -> names] /\ Cardinality(names) \in Nat
    BY <2>1, SetListed
  <2>3. \A n \in 1 .. Cardinality(names) : new[n] \in {r \in EventRows : r.institution = i}
    BY <1>2, <2>2 DEF EventRows
  <2> QED BY <2>2, <2>3
<1>4. mid \in Tables /\ mid.institutions = is /\ mid.events = db.events
  BY <1>2, SoundTables DEF Tables
<1>5. Follows(db, mid)
  BY <1>2, SoundTables, InstitutionsChanged
<1>6. db' = [mid EXCEPT !.events = db.events \o new] /\ db'.events = db.events \o new
  BY <1>1, SoundTables DEF Tables
<1> HIDE DEF new, i, is, mid
<1>7. /\ Follows(mid, [mid EXCEPT !.events = db.events \o new])
      /\ Rows(db.events) \subseteq Rows(db.events \o new)
      /\ \A e \in DOMAIN db.events : (db.events \o new)[e] = db.events[e]
  <2>1. Referenced(mid) /\ i \in Rows(mid.institutions) /\ db.events \in Table(EventRows)
    BY <1>2, <1>4, <1>5, SoundTables DEF Follows
  <2>2. \A e \in Rows(db.events) : db.events[e].institution \in Rows(mid.institutions)
    BY <1>4, <2>1 DEF Referenced
  <2> QED BY <1>3, <1>4, <2>1, <2>2, EventsAdded
<1> QED BY <1>5, <1>6, <1>7, SoundTables, FollowsOn

LEMMA MakeUpIdFollows ==
  ASSUME TypeOK, MakeUpId
  PROVE  Follows(db, db') /\ \A e \in DOMAIN db.events : db'.events[e] = db.events[e]
<1> DEFINE t == Append(db.events, Gone)
<1>1. db' = [db EXCEPT !.events = t] /\ db'.events = t
  BY SoundTables DEF MakeUpId, Tables
<1>2. /\ t \in Table(EventRows) /\ DOMAIN db.events \subseteq DOMAIN t /\ Rows(t) = Rows(db.events)
      /\ \A e \in DOMAIN db.events : t[e] = db.events[e]
  BY SoundTables, GoneIsNoRow, IdTaken
<1>3. Rows(db.events) \subseteq DOMAIN db.events
  BY DEF Rows
<1> HIDE DEF t
<1>4. \A e \in Rows(t) : t[e].institution \in Rows(db.institutions)
  BY <1>2, <1>3, SoundTables DEF Referenced
<1>5. Follows(db, [db EXCEPT !.events = t])
  BY <1>2, <1>4, SoundTables, EventsChanged
<1> QED BY <1>1, <1>2, <1>5

LEMMA EventsTaken ==
  ASSUME NEW t \in Table(EventRows), NEW i \in Nat, NEW N, NEW name \in [N -> EventNames]
  PROVE  /\ Taken(t, i, name) \in Table(EventRows) /\ DOMAIN Taken(t, i, name) = DOMAIN t
         /\ \A e \in DOMAIN t \ N : Taken(t, i, name)[e] = t[e]
         /\ \A e \in DOMAIN t \cap N : Taken(t, i, name)[e].institution = i
         /\ \A e \in Rows(t) : /\ e \in Rows(Taken(t, i, name))
                               /\ Taken(t, i, name)[e].deleted = t[e].deleted
<1> DEFINE u == Taken(t, i, name)
<1>1. /\ DOMAIN t = 1 .. Len(t) /\ Len(t) \in Nat /\ Gone \notin EventRows
      /\ Rows(t) \subseteq DOMAIN t /\ \A k \in Rows(t) : t[k] \in EventRows
  BY RowsOfTable, GoneIsNoRow
<1>2. /\ DOMAIN u = DOMAIN t
      /\ \A e \in DOMAIN t \ N : u[e] = t[e]
      /\ \A e \in DOMAIN t \cap N :
            u[e] = [institution |-> i, name |-> name[e], deleted |-> e \in Rows(t) /\ t[e].deleted]
  BY DEF Taken
<1>3. u = [e \in 1 .. Len(t) |-> u[e]]
  BY <1>1 DEF Taken
<1> HIDE DEF u
<1>4. ASSUME NEW e \in DOMAIN t \cap N
      PROVE  /\ u[e] \in EventRows /\ u[e].institution = i
             /\ e \in Rows(t) => u[e].deleted = t[e].deleted
  <2>1. e \in Rows(t) => t[e].deleted \in BOOLEAN
    BY <1>1 DEF EventRows
  <2>2. PICK b \in BOOLEAN : b = (e \in Rows(t) /\ t[e].deleted)
    OBVIOUS
  <2>3. e \in Rows(t) => b = t[e].deleted
    BY <2>1, <2>2
  <2>4. u[e] = [institution |-> i, name |-> name[e], deleted |-> b]
    BY <1>2, <2>2
  <2> QED BY <2>3, <2>4 DEF EventRows
<1>5. \A e \in Rows(t) : e \in Rows(u) /\ u[e].deleted = t[e].deleted
  BY <1>1, <1>2, <1>4 DEF Rows
<1>6. \A e \in 1 .. Len(t) : u[e] \in EventRows \cup {Gone}
  BY <1>1, <1>2, <1>4 DEF Rows
<1>7. u \in Table(EventRows)
  BY <1>1, <1>3, <1>6 DEF Table
<1> QED BY <1>2, <1>4, <1>5, <1>7 DEF u

(* An event changes its institution, or an id comes to have an event, only *)
(* as one that a form took over, and then the offers of the institution it *)
(* was taken from are told apart.                                          *)
Adopted(e) ==
  /\ e \in history'.adopted
  /\ e \in Rows(db.events) => \A l \in Rows(db.links) :
        db.links[l].institution = db.events[e].institution => <<l, e>> \in history'.stale

LEMMA Listed ==
  ASSUME NEW S, NEW s \in Seq(S)
  PROVE  DOMAIN s = 1 .. Len(s) /\ Len(s) \in Nat /\ \A k \in DOMAIN s : s[k] \in S
  OBVIOUS

LEMMA EditsListed ==
  ASSUME NEW s \in Edits
  PROVE  /\ IsFiniteSet(DOMAIN s)
         /\ \A k \in DOMAIN s : s[k].id \in Nat \cup {Null} /\ s[k].name \in EventNames
<1> DEFINE T == [id : Nat \cup {Null}, name : EventNames]
<1>1. s \in Seq(T)
  BY DEF Edits
<1> HIDE DEF T
<1>2. DOMAIN s = 1 .. Len(s) /\ Len(s) \in Nat /\ \A k \in DOMAIN s : s[k] \in T
  BY <1>1, Listed
<1>3. \A x \in T : x.id \in Nat \cup {Null} /\ x.name \in EventNames
  BY DEF T
<1>4. IsFiniteSet(1 .. Len(s))
  BY <1>2, FS_Interval
<1> QED BY <1>2, <1>3, <1>4

LEMMA FormOfInstitution ==
  ASSUME TypeOK, NEW c \in Clerks, UpdateInstitution(c)
  PROVE  job[c].id \in Nat /\ job[c].contract \in Contracts /\ job[c].edits \in Edits
<1>1. job[c] \in Requests
  BY DEF TypeOK
<1>2. job[c].op = "updateInstitution"
  BY DEF UpdateInstitution, At
<1>3. job[c] \in [op : {"updateInstitution"}, id : Nat, contract : Contracts, edits : Edits]
  BY <1>1, <1>2 DEF Requests, Idle
<1> QED BY <1>3

LEMMA UpdateInstitutionFollows ==
  ASSUME TypeOK, NEW c \in Clerks, UpdateInstitution(c)
  PROVE  /\ Follows(db, db')
         /\ \A e \in Rows(db.events) : db'.events[e].deleted = db.events[e].deleted
         /\ \A e \in DOMAIN db.events \cap Rows(db'.events) :
               \/ e \in Rows(db.events) /\ db'.events[e].institution = db.events[e].institution
               \/ Adopted(e)
<1> DEFINE i == job[c].id
           edits == job[c].edits
           blank == {k \in DOMAIN edits : edits[k].id = Null}
           added == SetToSeq(blank)
           new == [n \in DOMAIN added |->
                     [institution |-> i, name |-> edits[added[n]].name, deleted |-> FALSE]]
           adopted == Foreign(db.events, i, edits)
           fits == /\ i \in Rows(db.institutions) /\ WithContract(db, job[c].contract) \subseteq {i}
                   /\ Insertable(db.events, edits)
<1>1. IF fits
      THEN /\ \E name \in Namings(edits) :
                 db' = [db EXCEPT !.institutions[i] = job[c].contract,
                                  !.events = Taken(@, i, name) \o new]
           /\ history' = [history EXCEPT
                 !.adopted = @ \cup adopted,
                 !.stale = @ \cup
                     ({l \in Rows(db.links) : db.links[l].institution # i} \X adopted)]
      ELSE UNCHANGED <<db, history>>
  BY DEF UpdateInstitution
<1>2. i \in Nat /\ job[c].contract \in Contracts /\ edits \in Edits
  BY FormOfInstitution
<1> HIDE DEF fits
<1>3. CASE ~fits
  <2>1. db' = db
    BY <1>1, <1>3
  <2> QED BY <2>1, SoundTables, FollowsItself
<1>4. CASE fits
  <2>0. PICK name \in Namings(edits) :
           db' = [db EXCEPT !.institutions[i] = job[c].contract, !.events = Taken(@, i, name) \o new]
    BY <1>1, <1>4
  <2> DEFINE is == [db.institutions EXCEPT ![i] = job[c].contract]
             mid == [db EXCEPT !.institutions = is]
             es == Taken(db.events, i, name)
  <2>1. /\ is \in Table(Contracts) /\ Rows(is) = Rows(db.institutions)
        /\ DOMAIN is = DOMAIN db.institutions
    <3>1. db.institutions \in Table(Contracts) /\ Gone \notin Contracts /\ i \in Rows(db.institutions)
      BY <1>4, SoundTables, GoneIsNoRow DEF fits
    <3> QED BY <1>2, <3>1, RowChanged
  <2>2. mid \in Tables /\ mid.institutions = is /\ mid.events = db.events
    BY <2>1, SoundTables DEF Tables
  <2>3. Follows(db, mid)
    BY <2>1, SoundTables, InstitutionsChanged DEF Grown
  <2>4. name \in [Sent(edits) -> EventNames]
    BY DEF Namings
  <2>5. /\ es \in Table(EventRows) /\ DOMAIN es = DOMAIN db.events
        /\ \A e \in DOMAIN db.events \ Sent(edits) : es[e] = db.events[e]
        /\ \A e \in DOMAIN db.events \cap Sent(edits) : es[e].institution = i
        /\ \A e \in Rows(db.events) : e \in Rows(es) /\ es[e].deleted = db.events[e].deleted
    BY <1>2, <2>4, SoundTables, EventsTaken
  <2>6. new \in Seq({r \in EventRows : r.institution = i})
    <3>0. IsFiniteSet(DOMAIN edits) /\ \A k \in DOMAIN edits : edits[k].name \in EventNames
      BY <1>2, EditsListed
    <3>1. IsFiniteSet(blank)
      BY <3>0, FS_Subset
    <3>2. added \in [1 .. Cardinality(blank) -> blank] /\ Cardinality(blank) \in Nat
      BY <3>1, SetListed
    <3>a. \A k \in blank : edits[k].name \in EventNames
      BY <3>0
    <3> HIDE DEF added, blank
    <3>b. DOMAIN added = 1 .. Cardinality(blank)
      BY <3>2
    <3>3. \A n \in 1 .. Cardinality(blank) : edits[added[n]].name \in EventNames
      BY <3>2, <3>a
    <3>4. \A n \in 1 .. Cardinality(blank) : new[n] \in {r \in EventRows : r.institution = i}
      BY <1>2, <3>b, <3>3 DEF EventRows
    <3>5. new = [n \in 1 .. Cardinality(blank) |-> new[n]]
      BY <3>b
    <3> QED BY <3>2, <3>4, <3>5
  <2> HIDE DEF new
  <2>7. db' = [mid EXCEPT !.events = es \o new] /\ db'.events = es \o new
    BY <2>0, SoundTables DEF Tables
  <2>8. Rows(db.events) \subseteq DOMAIN db.events /\ Rows(es) \subseteq DOMAIN es
    BY DEF Rows
  <2> HIDE DEF is, mid, es
  <2>9. \A e \in Rows(es) : es[e].institution \in Rows(db.institutions)
    <3> SUFFICES ASSUME NEW e \in Rows(es) PROVE es[e].institution \in Rows(db.institutions)
      OBVIOUS
    <3>1. CASE e \in Sent(edits)
      BY <1>4, <2>5, <2>8, <3>1 DEF fits
    <3>2. CASE e \notin Sent(edits)
      <4>1. es[e] = db.events[e] /\ e \in Rows(db.events)
        BY <2>5, <2>8, <3>2 DEF Rows
      <4> QED BY <4>1, SoundTables DEF Referenced
    <3> QED BY <3>1, <3>2
  <2>10. /\ Follows(mid, [mid EXCEPT !.events = es \o new])
         /\ Rows(es) \subseteq Rows(es \o new)
         /\ \A e \in DOMAIN es : (es \o new)[e] = es[e]
    <3>1. Referenced(mid) /\ i \in Rows(mid.institutions)
      BY <1>4, <2>1, <2>2, <2>3 DEF Follows, fits
    <3>2. \A e \in Rows(es) : es[e].institution \in Rows(mid.institutions)
      BY <2>1, <2>2, <2>9
    <3>3. Rows(mid.events) \subseteq Rows(es) /\ DOMAIN es = DOMAIN mid.events
      BY <2>2, <2>5
    <3> QED BY <2>2, <2>5, <2>6, <3>1, <3>2, <3>3, EventsAdded
  <2>11. Follows(db, db')
    BY <2>3, <2>5, <2>7, <2>10, SoundTables, FollowsOn
  <2>12. \A e \in Rows(db.events) : db'.events[e].deleted = db.events[e].deleted
    BY <2>5, <2>7, <2>8, <2>10
  <2>13. ASSUME NEW e \in DOMAIN db.events \cap Rows(db'.events)
         PROVE  \/ e \in Rows(db.events) /\ db'.events[e].institution = db.events[e].institution
                \/ Adopted(e)
    <3>1. db'.events[e] = es[e] /\ es[e] # Gone
      BY <2>5, <2>7, <2>10 DEF Rows
    <3>2. CASE e \in adopted
      <4>1. /\ history'.adopted = history.adopted \cup adopted
            /\ history'.stale = history.stale \cup
                  ({l \in Rows(db.links) : db.links[l].institution # i} \X adopted)
        BY <1>1, <1>4 DEF TypeOK, Histories
      <4>2. e \in Rows(db.events) => db.events[e].institution # i
        BY <3>2 DEF Foreign
      <4> HIDE DEF adopted
      <4> QED BY <3>2, <4>1, <4>2 DEF Adopted
    <3>3. CASE e \notin adopted
      BY <2>5, <3>1, <3>3 DEF Foreign, Rows
    <3> QED BY <3>2, <3>3
  <2> QED BY <2>11, <2>12, <2>13
<1> QED BY <1>3, <1>4

LEMMA DeleteInstitutionFollows == ASSUME TypeOK, DeleteInstitution PROVE Follows(db, db')
  BY SoundTables, CascadeKeeps DEF DeleteInstitution

LEMMA LinksStripped ==
  ASSUME TypeOK, NEW e
  PROVE  /\ DOMAIN StripEvent(db, e).links = DOMAIN db.links
         /\ Rows(StripEvent(db, e).links) = Rows(db.links)
         /\ \A l \in Rows(db.links) :
               /\ StripEvent(db, e).links[l].product = db.links[l].product
               /\ StripEvent(db, e).links[l].institution = db.links[l].institution
               /\ (db.links[l].details = Null) => StripEvent(db, e).links[l].details = Null
               /\ (db.links[l].details # Null) => StripEvent(db, e).links[l].details =
                     {entry \in db.links[l].details : entry.id # e}
         /\ Follows(db, StripEvent(db, e))
<1> DEFINE t == db.links
           u == [l \in DOMAIN t |->
                   IF t[l] = Gone \/ t[l].details = Null THEN t[l]
                   ELSE [t[l] EXCEPT !.details = {entry \in t[l].details : entry.id # e}]]
<1>1. /\ t \in Table(LinkRows) /\ Gone \notin LinkRows
      /\ DOMAIN t = 1 .. Len(t) /\ Len(t) \in Nat /\ \A k \in Rows(t) : t[k] \in LinkRows
  BY SoundTables, GoneIsNoRow, RowsOfTable
<1>2. StripEvent(db, e) = [db EXCEPT !.links = u] /\ StripEvent(db, e).links = u
  <2>1. StripEvent(db, e) = [db EXCEPT !.links = u]
    BY DEF StripEvent
  <2> HIDE DEF u
  <2> QED BY <2>1, SoundTables DEF Tables
<1>3. DOMAIN u = DOMAIN t /\ \A l \in DOMAIN t : t[l] = Gone => u[l] = Gone
  OBVIOUS
<1>4. ASSUME NEW l \in Rows(t)
      PROVE  /\ u[l] \in LinkRows /\ u[l].product = t[l].product /\ u[l].institution = t[l].institution
             /\ t[l].details = Null => u[l].details = Null
             /\ t[l].details # Null => u[l].details = {entry \in t[l].details : entry.id # e}
  <2>1. l \in DOMAIN t /\ t[l] # Gone /\ t[l] \in LinkRows
    BY <1>1 DEF Rows
  <2>2. CASE t[l].details = Null
    <3>1. u[l] = t[l]
      BY <2>1, <2>2
    <3> HIDE DEF u
    <3> QED BY <2>1, <2>2, <3>1
  <2>3. CASE t[l].details # Null
    <3>1. u[l] = [t[l] EXCEPT !.details = {entry \in t[l].details : entry.id # e}]
      BY <2>1, <2>3
    <3>2. {entry \in t[l].details : entry.id # e} \in SUBSET Entries
      BY <2>1, <2>3 DEF LinkRows
    <3> HIDE DEF u
    <3>3. /\ u[l].product = t[l].product /\ u[l].institution = t[l].institution
          /\ u[l].details = {entry \in t[l].details : entry.id # e}
      BY <2>1, <3>1 DEF LinkRows
    <3>4. u[l] \in LinkRows
      BY <2>1, <3>1, <3>2 DEF LinkRows
    <3> QED BY <2>3, <3>3, <3>4
  <2> QED BY <2>2, <2>3
<1>5. u = [l \in 1 .. Len(t) |-> u[l]]
  BY <1>1
<1> HIDE DEF u
<1>6. Rows(u) = Rows(t)
  BY <1>1, <1>3, <1>4 DEF Rows
<1>7. u \in Table(LinkRows)
  <2>1. ASSUME NEW l \in DOMAIN t PROVE u[l] \in LinkRows \cup {Gone}
    <3>1. CASE t[l] = Gone
      BY <1>3, <3>1
    <3>2. CASE t[l] # Gone
      <4>1. l \in Rows(t)
        BY <3>2 DEF Rows
      <4> QED BY <1>4, <4>1
    <3> QED BY <3>1, <3>2
  <2>2. \A l \in 1 .. Len(t) : u[l] \in LinkRows \cup {Gone}
    BY <1>1, <2>1
  <2>3. u \in [1 .. Len(t) -> LinkRows \cup {Gone}]
    BY <1>5, <2>2, Zenon
  <2> QED BY <1>1, <2>3 DEF Table
<1>8. \A l \in Rows(u) :
         u[l].product \in Rows(db.products) /\ u[l].institution \in Rows(db.institutions)
  <2> TAKE l \in Rows(u)
  <2>1. /\ l \in Rows(t) /\ t[l].product \in Rows(db.products)
        /\ t[l].institution \in Rows(db.institutions)
    BY <1>6, SoundTables DEF Referenced
  <2> QED BY <1>4, <2>1
<1>9. Follows(db, [db EXCEPT !.links = u])
  <2>1. Grown(t, u)
    BY <1>3, <1>6 DEF Grown
  <2>2. \A l \in Rows(t) \cap Rows(u) : u[l].institution = t[l].institution
    BY <1>4
  <2> QED BY <1>7, <1>8, <2>1, <2>2, SoundTables, LinksChanged
<1> QED BY <1>2, <1>3, <1>4, <1>6, <1>9

LEMMA DropEventFollows ==
  ASSUME TypeOK, NEW c \in Clerks, DropEvent(c)
  PROVE  /\ Follows(db, db')
         /\ Rows(db'.events) = Rows(db.events)
         /\ \A e \in Rows(db.events) : db'.events[e].institution = db.events[e].institution
         /\ \A e \in Rows(db.events) \ {job[c].id} : db'.events[e] = db.events[e]
<1> DEFINE e == job[c].id
           t == db.events
           x == [t[e] EXCEPT !.deleted = TRUE]
           u == [t EXCEPT ![e] = x]
<1>1. db' = IF e \in Rows(t) THEN [db EXCEPT !.events[e].deleted = TRUE] ELSE db
  BY DEF DropEvent
<1>2. CASE e \notin Rows(t)
  BY <1>1, <1>2, SoundTables, FollowsItself
<1>3. CASE e \in Rows(t)
  <2>1. /\ t \in Table(EventRows) /\ Gone \notin EventRows
        /\ t[e] \in EventRows /\ Rows(t) \subseteq DOMAIN t
    BY <1>3, SoundTables, GoneIsNoRow, RowsOfTable
  <2>2. x \in EventRows /\ x.institution = t[e].institution
    BY <2>1 DEF EventRows
  <2>3. db' = [db EXCEPT !.events = u] /\ db'.events = u
    BY <1>1, <1>3, SoundTables DEF Tables
  <2> HIDE DEF x
  <2>4. /\ u \in Table(EventRows) /\ DOMAIN u = DOMAIN t /\ Rows(u) = Rows(t) /\ u[e] = x
        /\ \A j \in DOMAIN t \ {e} : u[j] = t[j]
    BY <1>3, <2>1, <2>2, RowChanged
  <2> HIDE DEF u
  <2>5. \A j \in Rows(t) : u[j].institution = t[j].institution
    BY <2>1, <2>2, <2>4
  <2>6. \A j \in Rows(u) : u[j].institution \in Rows(db.institutions)
    BY <2>4, <2>5, SoundTables DEF Referenced
  <2>7. Follows(db, [db EXCEPT !.events = u])
    BY <2>4, <2>6, SoundTables, EventsChanged
  <2> QED BY <2>1, <2>3, <2>4, <2>5, <2>7
<1> QED BY <1>2, <1>3

LEMMA StripDeletedEventFollows ==
  ASSUME TypeOK, NEW c \in Clerks, StripDeletedEvent(c) PROVE Follows(db, db')
  BY LinksStripped DEF StripDeletedEvent

LEMMA CreateProductFollows ==
  ASSUME TypeOK, NEW c \in Clerks, CreateProduct(c)
  PROVE  /\ Follows(db, db')
         /\ db'.products = Append(db.products, [name |-> Trim[job[c].name], flag |-> job[c].flag])
<1> DEFINE x == [name |-> Trim[job[c].name], flag |-> job[c].flag]
           t == Append(db.products, x)
<1>1. job[c].name \in ProductNames /\ job[c].flag \in ShopFlags
  BY DEF CreateProduct, At, TypeOK, Requests, Idle
<1>2. x \in ProductRows
  BY <1>1, TrimAssumption DEF ProductRows
<1>3. db' = [db EXCEPT !.products = t] /\ db'.products = t
  BY SoundTables DEF CreateProduct, Tables
<1> HIDE DEF x
<1>4. t \in Table(ProductRows) /\ Rows(db.products) \subseteq Rows(t)
  BY <1>2, SoundTables, GoneIsNoRow, RowInserted
<1> HIDE DEF t
<1>5. Follows(db, [db EXCEPT !.products = t])
  BY <1>4, SoundTables, ProductsChanged
<1> QED BY <1>3, <1>5 DEF t, x

LEMMA UpdateProductFollows ==
  ASSUME TypeOK, NEW c \in Clerks, UpdateProduct(c) PROVE Follows(db, db')
<1> DEFINE p == job[c].id
           x == [db.products[p] EXCEPT !.name = Trim[job[c].name]]
           t == [db.products EXCEPT ![p] = x]
<1>1. CASE p \in Rows(db.products)
  <2>1. job[c].name \in ProductNames
    BY DEF UpdateProduct, At, TypeOK, Requests, Idle
  <2>2. db.products[p] \in ProductRows
    BY <1>1, SoundTables, GoneIsNoRow, RowsOfTable
  <2>3. x \in ProductRows
    BY <2>1, <2>2, TrimAssumption DEF ProductRows
  <2>4. db' = [db EXCEPT !.products = t]
    BY <1>1, SoundTables DEF UpdateProduct, Tables
  <2> HIDE DEF x
  <2>5. t \in Table(ProductRows) /\ Rows(t) = Rows(db.products)
    BY <1>1, <2>3, SoundTables, GoneIsNoRow, RowChanged
  <2> HIDE DEF t
  <2> QED BY <2>4, <2>5, SoundTables, ProductsChanged
<1>2. CASE p \notin Rows(db.products)
  BY <1>2, SoundTables, FollowsItself DEF UpdateProduct
<1> QED BY <1>1, <1>2

LEMMA DeleteProductFollows == ASSUME TypeOK, DeleteProduct PROVE Follows(db, db')
  BY SoundTables, CascadeKeeps DEF DeleteProduct

(* A new link of a product and an institution that are there.              *)
LEMMA LinkAdded ==
  ASSUME NEW d \in Tables, Referenced(d), NEW x \in LinkRows,
         x.product \in Rows(d.products), x.institution \in Rows(d.institutions)
  PROVE  Follows(d, [d EXCEPT !.links = Append(@, x)])
<1> DEFINE t == Append(d.links, x)
           l == NextId(d.links)
<1>1. d.links \in Table(LinkRows) /\ Gone \notin LinkRows
  BY TablesOf, GoneIsNoRow
<1>2. l \notin DOMAIN d.links /\ Rows(d.links) \subseteq DOMAIN d.links
  BY <1>1, RowsOfTable
<1>3. /\ t \in Table(LinkRows) /\ DOMAIN t = DOMAIN d.links \cup {l} /\ Rows(t) = Rows(d.links) \cup {l}
      /\ t[l] = x /\ \A k \in DOMAIN d.links : t[k] = d.links[k]
  BY <1>1, RowInserted
<1> HIDE DEF t, l
<1>4. Grown(d.links, t)
  BY <1>2, <1>3 DEF Grown
<1>5. \A k \in Rows(d.links) \cap Rows(t) : t[k].institution = d.links[k].institution
  BY <1>2, <1>3
<1>6. \A k \in Rows(t) :
         t[k].product \in Rows(d.products) /\ t[k].institution \in Rows(d.institutions)
  BY <1>2, <1>3 DEF Referenced
<1>7. Follows(d, [d EXCEPT !.links = t])
  BY <1>3, <1>4, <1>5, <1>6, LinksChanged
<1> QED BY <1>7 DEF t

LEMMA CreateLinkFollows ==
  ASSUME TypeOK, NEW c \in Clerks, CreateLink(c) PROVE Follows(db, db')
<1> DEFINE p == job[c].product
           i == job[c].institution
           x == [product |-> p, institution |-> i, flag |-> job[c].flag, details |-> Null]
<1>1. p \in Nat /\ i \in Nat /\ job[c].flag \in ShopFlags
  BY DEF CreateLink, At, TypeOK, Requests, Idle
<1>2. x \in LinkRows
  BY <1>1 DEF LinkRows
<1>3. CASE db' = db
  BY <1>3, SoundTables, FollowsItself
<1>4. CASE /\ p \in Rows(db.products) /\ i \in Rows(db.institutions)
           /\ db' = [db EXCEPT !.links = Append(@, x)]
  BY <1>2, <1>4, SoundTables, LinkAdded
<1> QED BY <1>3, <1>4 DEF CreateLink

LEMMA UpdateLinkFollows ==
  ASSUME TypeOK, NEW c \in Clerks, UpdateLink(c) PROVE Follows(db, db')
<1> DEFINE l == job[c].id
<1>1. CASE l \notin Rows(db.links)
  BY <1>1, SoundTables, FollowsItself DEF UpdateLink
<1>2. CASE l \in Rows(db.links)
  <2>1. PICK sent \in {job[c].details, Null} : db' = [db EXCEPT !.links[l].details = sent]
    BY <1>2 DEF UpdateLink
  <2> DEFINE x == [db.links[l] EXCEPT !.details = sent]
             t == [db.links EXCEPT ![l] = x]
  <2>2. /\ db.links \in Table(LinkRows) /\ Gone \notin LinkRows
        /\ db.links[l] \in LinkRows /\ Rows(db.links) \subseteq DOMAIN db.links
    BY <1>2, SoundTables, GoneIsNoRow, RowsOfTable
  <2>3. At(c, "updateLink") /\ job[c].details \in SUBSET Entries
    BY DEF UpdateLink, At, TypeOK, Requests, Idle
  <2>4. /\ x \in LinkRows /\ x.product = db.links[l].product
        /\ x.institution = db.links[l].institution
    BY <2>2, <2>3 DEF LinkRows
  <2>5. db' = [db EXCEPT !.links = t]
    BY <2>1, SoundTables DEF Tables
  <2> HIDE DEF x
  <2>6. /\ t \in Table(LinkRows) /\ DOMAIN t = DOMAIN db.links /\ Rows(t) = Rows(db.links) /\ t[l] = x
        /\ \A k \in DOMAIN db.links \ {l} : t[k] = db.links[k]
    BY <1>2, <2>2, <2>4, RowChanged
  <2> HIDE DEF t
  <2>7. Grown(db.links, t) /\ \A k \in Rows(db.links) \cap Rows(t) : t[k].institution = db.links[k].institution
    BY <2>2, <2>4, <2>6 DEF Grown
  <2>8. \A k \in Rows(t) :
           t[k].product \in Rows(db.products) /\ t[k].institution \in Rows(db.institutions)
    BY <1>2, <2>2, <2>4, <2>6, SoundTables DEF Referenced
  <2> QED BY <2>5, <2>6, <2>7, <2>8, SoundTables, LinksChanged
<1> QED BY <1>1, <1>2

LEMMA DeleteLinkFollows == ASSUME TypeOK, DeleteLink PROVE Follows(db, db')
<1>1. PICK l \in Rows(db.links) : db' = [db EXCEPT !.links = Erase(@, {l})]
  BY DEF DeleteLink
<1> DEFINE t == Erase(db.links, {l})
<1>2. db.links \in Table(LinkRows) /\ Gone \notin LinkRows
  BY SoundTables, GoneIsNoRow
<1>3. /\ t \in Table(LinkRows) /\ DOMAIN t = DOMAIN db.links /\ Rows(t) = Rows(db.links) \ {l}
      /\ \A k \in Rows(db.links) \ {l} : t[k] = db.links[k]
  BY <1>2, RowsErased
<1>4. db' = [db EXCEPT !.links = t]
  BY <1>1, SoundTables DEF Tables
<1> HIDE DEF t
<1>5. Grown(db.links, t) /\ \A k \in Rows(db.links) \cap Rows(t) : t[k].institution = db.links[k].institution
  BY <1>3 DEF Grown
<1>6. \A k \in Rows(t) :
         t[k].product \in Rows(db.products) /\ t[k].institution \in Rows(db.institutions)
  BY <1>3, SoundTables DEF Referenced
<1> QED BY <1>3, <1>4, <1>5, <1>6, SoundTables, LinksChanged

(* A new user of an institution that is there.                             *)
LEMMA UserAdded ==
  ASSUME NEW d \in Tables, Referenced(d), NEW x \in UserRows, x.institution \in Rows(d.institutions)
  PROVE  Follows(d, [d EXCEPT !.users = Append(@, x)])
<1> DEFINE t == Append(d.users, x)
           u == NextId(d.users)
<1>1. d.users \in Table(UserRows) /\ Gone \notin UserRows
  BY TablesOf, GoneIsNoRow
<1>2. u \notin DOMAIN d.users /\ Rows(d.users) \subseteq DOMAIN d.users
  BY <1>1, RowsOfTable
<1>3. /\ t \in Table(UserRows) /\ DOMAIN t = DOMAIN d.users \cup {u} /\ Rows(t) = Rows(d.users) \cup {u}
      /\ t[u] = x /\ \A k \in DOMAIN d.users : t[k] = d.users[k]
  BY <1>1, RowInserted
<1> HIDE DEF t, u
<1>4. Grown(d.users, t) /\ Rows(d.users) \subseteq Rows(t)
  BY <1>2, <1>3 DEF Grown
<1>5. \A k \in Rows(t) : t[k].institution \in Rows(d.institutions)
  BY <1>2, <1>3 DEF Referenced
<1>6. Follows(d, [d EXCEPT !.users = t])
  BY <1>3, <1>4, <1>5, UsersChanged
<1> QED BY <1>6 DEF t

LEMMA UserWritten ==
  ASSUME NEW d \in Tables, Referenced(d), NEW u \in Rows(d.users), NEW x \in UserRows,
         x.institution \in Rows(d.institutions)
  PROVE  Follows(d, [d EXCEPT !.users[u] = x])
<1> DEFINE t == [d.users EXCEPT ![u] = x]
<1>1. d.users \in Table(UserRows) /\ Gone \notin UserRows /\ Rows(d.users) \subseteq DOMAIN d.users
  BY TablesOf, GoneIsNoRow, RowsOfTable
<1>2. /\ t \in Table(UserRows) /\ DOMAIN t = DOMAIN d.users /\ Rows(t) = Rows(d.users) /\ t[u] = x
      /\ \A k \in DOMAIN d.users \ {u} : t[k] = d.users[k]
  BY <1>1, RowChanged
<1>3. [d EXCEPT !.users[u] = x] = [d EXCEPT !.users = t]
  BY DEF Tables
<1> HIDE DEF t
<1>4. Grown(d.users, t)
  BY <1>2 DEF Grown
<1>5. \A k \in Rows(t) : t[k].institution \in Rows(d.institutions)
  BY <1>1, <1>2 DEF Referenced
<1> QED BY <1>2, <1>3, <1>4, <1>5, UsersChanged

LEMMA CreateUserFollows ==
  ASSUME TypeOK, NEW c \in Clerks, CreateUser(c) PROVE Follows(db, db')
<1>1. job[c].row \in UserRows
  BY DEF CreateUser, At, TypeOK, Requests, Idle
<1>2. CASE UserFits(db, NextId(db.users), job[c].row)
  BY <1>1, <1>2, SoundTables, UserAdded DEF CreateUser, UserFits
<1>3. CASE ~UserFits(db, NextId(db.users), job[c].row)
  BY <1>3, SoundTables, FollowsItself DEF CreateUser
<1> QED BY <1>2, <1>3

LEMMA UpdateUserFollows ==
  ASSUME TypeOK, NEW c \in Clerks, UpdateUser(c) PROVE Follows(db, db')
<1>1. job[c].row \in UserRows
  BY DEF UpdateUser, At, TypeOK, Requests, Idle
<1>2. CASE job[c].id \in Rows(db.users) /\ UserFits(db, job[c].id, job[c].row)
  BY <1>1, <1>2, SoundTables, UserWritten DEF UpdateUser, UserFits
<1>3. CASE ~(job[c].id \in Rows(db.users) /\ UserFits(db, job[c].id, job[c].row))
  BY <1>3, SoundTables, FollowsItself DEF UpdateUser
<1> QED BY <1>2, <1>3

LEMMA UpdateProfileFollows ==
  ASSUME TypeOK, NEW c \in Clerks, UpdateProfile(c) PROVE Follows(db, db')
<1> DEFINE u == job[c].id
           x == [db.users[u] EXCEPT !.email = job[c].email]
<1>1. job[c].email \in Emails
  BY DEF UpdateProfile, At, TypeOK, Requests, Idle
<1>2. CASE u \in Rows(db.users) /\ db' = [db EXCEPT !.users[u].email = job[c].email]
  <2>1. db.users[u] \in UserRows /\ db.users[u].institution \in Rows(db.institutions)
    BY <1>2, SoundTables, GoneIsNoRow, RowsOfTable DEF Referenced
  <2>2. x \in UserRows /\ x.institution \in Rows(db.institutions)
    BY <1>1, <2>1 DEF UserRows
  <2>3. db' = [db EXCEPT !.users[u] = x]
    BY <1>2, SoundTables DEF Tables
  <2> HIDE DEF x
  <2> QED BY <1>2, <2>2, <2>3, SoundTables, UserWritten
<1>3. CASE db' = db
  BY <1>3, SoundTables, FollowsItself
<1> QED BY <1>2, <1>3 DEF UpdateProfile

LEMMA DeleteUserFollows ==
  ASSUME TypeOK, NEW c \in Clerks, DeleteUser(c) PROVE Follows(db, db')
<1>1. CASE db' = db
  BY <1>1, SoundTables, FollowsItself
<1>2. CASE Deletable(db, {}, {job[c].id}, {}) /\ db' = Without(db, {}, {job[c].id}, {})
  BY <1>2, SoundTables, CascadeKeeps
<1> QED BY <1>1, <1>2 DEF DeleteUser

LEMMA AddPhotoFollows ==
  ASSUME TypeOK, NEW c \in Clerks, AddPhoto(c) PROVE Follows(db, db')
<1> DEFINE u == job[c].user
           e == job[c].event
           x == [user |-> u, event |-> e, deleted |-> FALSE]
           t == Append(db.photos, x)
           f == NextId(db.photos)
<1>1. CASE ~(u \in Rows(db.users) /\ e \in Rows(db.events))
  BY <1>1, SoundTables, FollowsItself DEF AddPhoto
<1>2. CASE u \in Rows(db.users) /\ e \in Rows(db.events)
  <2>1. u \in Nat /\ e \in Nat
    BY <1>2, SoundTables, GoneIsNoRow, RowsOfTable
  <2>2. x \in PhotoRows
    BY <2>1 DEF PhotoRows
  <2>3. db' = [db EXCEPT !.photos = t]
    BY <1>2, SoundTables DEF AddPhoto, Tables
  <2>4. /\ db.photos \in Table(PhotoRows) /\ Gone \notin PhotoRows
        /\ f \notin DOMAIN db.photos /\ Rows(db.photos) \subseteq DOMAIN db.photos
    BY SoundTables, GoneIsNoRow, RowsOfTable
  <2>5. x.user = u /\ x.event = e
    OBVIOUS
  <2> HIDE DEF x
  <2>6. /\ t \in Table(PhotoRows) /\ Rows(t) = Rows(db.photos) \cup {f}
        /\ t[f] = x /\ \A k \in DOMAIN db.photos : t[k] = db.photos[k]
    BY <2>2, <2>4, RowInserted
  <2> HIDE DEF t, f
  <2>7. \A k \in Rows(t) : t[k].user \in Rows(db.users) /\ t[k].event \in Rows(db.events)
    BY <1>2, <2>4, <2>5, <2>6, SoundTables DEF Referenced
  <2>8. Rows(db.photos) \subseteq Rows(t)
    BY <2>6
  <2> QED BY <2>3, <2>6, <2>7, <2>8, SoundTables, PhotosChanged
<1> QED BY <1>1, <1>2

LEMMA DeletePhotoFollows == ASSUME TypeOK, DeletePhoto PROVE Follows(db, db')
<1>1. PICK f \in Rows(db.photos) : db' = [db EXCEPT !.photos[f].deleted = TRUE]
  BY DEF DeletePhoto
<1> DEFINE x == [db.photos[f] EXCEPT !.deleted = TRUE]
           t == [db.photos EXCEPT ![f] = x]
<1>2. /\ db.photos \in Table(PhotoRows) /\ Gone \notin PhotoRows
      /\ db.photos[f] \in PhotoRows /\ Rows(db.photos) \subseteq DOMAIN db.photos
  BY SoundTables, GoneIsNoRow, RowsOfTable
<1>3. x \in PhotoRows /\ x.user = db.photos[f].user /\ x.event = db.photos[f].event
  BY <1>2 DEF PhotoRows
<1>4. db' = [db EXCEPT !.photos = t]
  BY <1>1, SoundTables DEF Tables
<1> HIDE DEF x
<1>5. /\ t \in Table(PhotoRows) /\ Rows(t) = Rows(db.photos) /\ t[f] = x
      /\ \A k \in DOMAIN db.photos \ {f} : t[k] = db.photos[k]
  BY <1>2, <1>3, RowChanged
<1> HIDE DEF t
<1>6. \A k \in Rows(t) : t[k].user \in Rows(db.users) /\ t[k].event \in Rows(db.events)
  BY <1>2, <1>3, <1>5, SoundTables DEF Referenced
<1>7. Rows(db.photos) \subseteq Rows(t)
  BY <1>5
<1> QED BY <1>4, <1>5, <1>6, <1>7, SoundTables, PhotosChanged

LEMMA SellPhotoFollows == ASSUME TypeOK, SellPhoto PROVE Follows(db, db')
<1>1. PICK u \in Rows(db.users), l \in Rows(db.links), f \in Rows(db.photos) :
         db' = [db EXCEPT !.lines = @ \cup {[user |-> u, product |-> db.links[l].product, photo |-> f]}]
  BY DEF SellPhoto
<1>2. db.links[l].product \in Rows(db.products)
  BY SoundTables DEF Referenced
<1> QED BY <1>1, <1>2, SoundTables, LineAdded

(* What the script has in hand when it comes to a row.                     *)
LEMMA SeedAtRow ==
  ASSUME TypeOK, seed.at > 0
  PROVE  /\ seed.at \in 1 .. Len(SeedRows) /\ DOMAIN seed.ids = 1 .. seed.at - 1
         /\ Row.table \in SeedKinds
         /\ Row.table # "institutions" => seed.ids[1] \in Nat
         /\ Row.table = "events" => Row.k \in DOMAIN SeedEvents
         /\ Row.table = "users" => Row.k \in DOMAIN SeedUsers
         /\ Row.table = "products" => Row.k \in DOMAIN SeedProducts
         /\ Row.table = "links" =>
               /\ Row.k \in DOMAIN SeedProducts /\ ProductId(Row.k) \in Nat
               /\ \A k \in DOMAIN SeedEvents : 1 + k \in DOMAIN seed.ids
<1> DEFINE e == Len(SeedEvents)
           u == Len(SeedUsers)
           p == Len(SeedProducts)
<1>1. /\ seed.at \in 1 .. Len(SeedRows) /\ seed.ids \in Seq(Nat) /\ Len(seed.ids) = seed.at - 1
  BY SeedRowsPlaced DEF TypeOK
<1>2. DOMAIN seed.ids = 1 .. seed.at - 1 /\ \A j \in 1 .. seed.at - 1 : seed.ids[j] \in Nat
  BY <1>1
<1>3. /\ e \in Nat /\ u \in Nat /\ p \in Nat
      /\ DOMAIN SeedEvents = 1 .. e /\ DOMAIN SeedUsers = 1 .. u /\ DOMAIN SeedProducts = 1 .. p
  BY CatalogueAssumption
<1>4. \/ Row.table = "institutions" /\ seed.at = 1
      \/ Row.table = "events" /\ Row.k \in 1 .. e /\ seed.at = 1 + Row.k
      \/ Row.table = "users" /\ Row.k \in 1 .. u /\ seed.at = 1 + e + Row.k
      \/ Row.table = "products" /\ Row.k \in 1 .. p /\ seed.at = 1 + e + u + Row.k
      \/ Row.table = "links" /\ Row.k \in 1 .. p /\ seed.at = 1 + e + u + p + Row.k
  BY <1>1, KindOfSeedRow DEF Row
<1> HIDE DEF e, u, p
<1>6. CASE Row.table = "links"
  <2>1. Row.k \in 1 .. p /\ seed.at = 1 + e + u + p + Row.k
    BY <1>4, <1>6
  <2>2. \A k \in 1 .. e : 1 + k \in 1 .. seed.at - 1
    BY <1>3, <2>1
  <2>3. 1 + e + u + Row.k \in 1 .. seed.at - 1 /\ 1 \in 1 .. seed.at - 1
    BY <1>3, <2>1
  <2>4. ProductId(Row.k) \in Nat
    BY <1>2, <2>3 DEF ProductId, e, u
  <2> QED BY <1>1, <1>2, <1>3, <1>6, <2>1, <2>2, <2>3, <2>4, Zenon DEF SeedKinds
<1>7. CASE Row.table # "links"
  <2>1. Row.table # "institutions" => 1 \in 1 .. seed.at - 1
    BY <1>3, <1>4, <1>7
  <2> QED BY <1>1, <1>2, <1>3, <1>4, <1>7, <2>1, Zenon DEF SeedKinds
<1> QED BY <1>6, <1>7

LEMMA EventAdded ==
  ASSUME NEW d \in Tables, Referenced(d), NEW i \in Rows(d.institutions), NEW x \in EventRows,
         x.institution = i
  PROVE  Follows(d, [d EXCEPT !.events = Append(@, x)])
<1>1. <<x>> \in Seq({r \in EventRows : r.institution = i})
  OBVIOUS
<1>2. d.events \in Table(EventRows)
  BY TablesOf
<1>3. Append(d.events, x) = d.events \o <<x>>
  BY <1>2, AppendIsConcat DEF Table
<1>4. Follows(d, [d EXCEPT !.events = d.events \o <<x>>])
  BY <1>1, <1>2, EventsAdded DEF Referenced
<1> QED BY <1>3, <1>4

LEMMA SeedDetailsStored ==
  ASSUME TypeOK, seed.at > 0, Row.table = "links", NEW flag
  PROVE  SeedDetails(flag) \in SUBSET Entries
<1>1. ASSUME NEW k \in DOMAIN SeedEvents PROVE EventId(k) \in Nat /\ SeedEvents[k] \in EventNames
  <2>1. 1 + k \in DOMAIN seed.ids /\ seed.ids \in Seq(Nat)
    BY SeedAtRow DEF TypeOK
  <2>2. SeedEvents[k] \in EventNames
    BY CatalogueAssumption
  <2> QED BY <2>1, <2>2 DEF EventId
<1>2. \A entry \in SeedDetails(flag) : \E k \in DOMAIN SeedEvents :
         entry = [id |-> EventId(k), name |-> SeedEvents[k]]
  BY DEF SeedDetails
<1> QED BY <1>1, <1>2 DEF Entries

LEMMA ElementsOf == ASSUME NEW S, NEW s \in Seq(S), NEW k \in DOMAIN s PROVE s[k] \in S
  OBVIOUS

LEMMA SeedRowsTyped ==
  /\ \A k \in DOMAIN SeedEvents : SeedEvents[k] \in EventNames
  /\ \A k \in DOMAIN SeedUsers : SeedUsers[k] \in [email : Emails, identifier : Identifiers]
  /\ \A k \in DOMAIN SeedProducts : SeedProducts[k] \in ProductRows
<1>1. /\ SeedEvents \in Seq(EventNames)
      /\ SeedUsers \in Seq([email : Emails, identifier : Identifiers])
      /\ SeedProducts \in Seq(ProductRows)
  BY CatalogueAssumption
<1> QED BY <1>1, ElementsOf, Zenon

LEMMA SeedSaveFollows == ASSUME TypeOK, SeedSave PROVE Follows(db, db')
<1>1. CASE db' = db
  BY <1>1, SoundTables, FollowsItself
<1>2. CASE SeedFits /\ db' = [db EXCEPT ![Row.table] = Append(@, NewRow)]
  <2>1. seed.at > 0
    BY DEF SeedSave
  <2>2. CASE Row.table = "institutions"
    <3> DEFINE t == Append(db.institutions, SeedContract)
    <3>1. db' = [db EXCEPT !.institutions = t]
      BY <1>2, <2>2 DEF NewRow
    <3>2. db.institutions \in Table(Contracts) /\ Gone \notin Contracts /\ SeedContract \in Contracts
      BY SoundTables, GoneIsNoRow, CatalogueAssumption
    <3>3. NextId(db.institutions) \notin DOMAIN db.institutions
      BY <3>2, RowsOfTable
    <3>4. /\ t \in Table(Contracts)
          /\ DOMAIN t = DOMAIN db.institutions \cup {NextId(db.institutions)}
          /\ Rows(t) = Rows(db.institutions) \cup {NextId(db.institutions)}
      BY <3>2, RowInserted
    <3> HIDE DEF t
    <3>5. Grown(db.institutions, t)
      BY <3>3, <3>4 DEF Grown
    <3> QED BY <3>1, <3>4, <3>5, SoundTables, InstitutionsChanged
  <2>3. CASE Row.table = "events"
    <3> DEFINE x == [institution |-> SeedInstitution, name |-> SeedEvents[Row.k], deleted |-> FALSE]
    <3>1. SeedInstitution \in Rows(db.institutions) /\ Row.k \in DOMAIN SeedEvents /\ SeedInstitution \in Nat
      BY <1>2, <2>1, <2>3, SeedAtRow DEF SeedFits, SeedInstitution
    <3>2. SeedEvents[Row.k] \in EventNames
      BY <3>1, SeedRowsTyped
    <3>3. x \in EventRows /\ x.institution = SeedInstitution
      BY <3>1, <3>2 DEF EventRows
    <3>4. db' = [db EXCEPT !.events = Append(@, x)]
      BY <1>2, <2>3 DEF NewRow
    <3> HIDE DEF x
    <3> QED BY <3>1, <3>3, <3>4, SoundTables, EventAdded
  <2>4. CASE Row.table = "users"
    <3> DEFINE x == [institution |-> SeedInstitution, email |-> SeedUsers[Row.k].email,
                     identifier |-> SeedUsers[Row.k].identifier, status |-> "active"]
    <3>1. SeedInstitution \in Rows(db.institutions) /\ Row.k \in DOMAIN SeedUsers /\ SeedInstitution \in Nat
      BY <1>2, <2>1, <2>4, SeedAtRow DEF SeedFits, SeedInstitution
    <3>2. SeedUsers[Row.k] \in [email : Emails, identifier : Identifiers]
      BY <3>1, SeedRowsTyped, Zenon
    <3>3. x \in UserRows /\ x.institution = SeedInstitution
      BY <3>1, <3>2 DEF UserRows, Statuses
    <3>4. db' = [db EXCEPT !.users = Append(@, x)]
      BY <1>2, <2>4 DEF NewRow
    <3> HIDE DEF x
    <3> QED BY <3>1, <3>3, <3>4, SoundTables, UserAdded
  <2>5. CASE Row.table = "products"
    <3> DEFINE t == Append(db.products, SeedProducts[Row.k])
    <3>1. SeedProducts[Row.k] \in ProductRows
      BY <2>1, <2>5, SeedAtRow, SeedRowsTyped
    <3>2. db' = [db EXCEPT !.products = t]
      BY <1>2, <2>5 DEF NewRow
    <3>3. t \in Table(ProductRows) /\ Rows(db.products) \subseteq Rows(t)
      BY <3>1, SoundTables, GoneIsNoRow, RowInserted
    <3> HIDE DEF t
    <3> QED BY <3>2, <3>3, SoundTables, ProductsChanged
  <2>6. CASE Row.table = "links"
    <3> DEFINE flag == SeedProducts[Row.k].flag
               x == [product |-> ProductId(Row.k), institution |-> SeedInstitution,
                     flag |-> flag, details |-> SeedDetails(flag)]
    <3>1. /\ SeedInstitution \in Rows(db.institutions) /\ ProductId(Row.k) \in Rows(db.products)
          /\ SeedInstitution \in Nat /\ ProductId(Row.k) \in Nat /\ Row.k \in DOMAIN SeedProducts
      BY <1>2, <2>1, <2>6, SeedAtRow DEF SeedFits, SeedInstitution
    <3>2. flag \in ShopFlags
      <4>1. SeedProducts[Row.k] \in ProductRows
        BY <3>1, SeedRowsTyped
      <4> QED BY <4>1 DEF ProductRows
    <3>3. db' = [db EXCEPT !.links = Append(@, x)]
      BY <1>2, <2>6 DEF NewRow
    <3> HIDE DEF flag
    <3>4. SeedDetails(flag) \in SUBSET Entries
      BY <2>1, <2>6, SeedDetailsStored
    <3>5. x \in LinkRows /\ x.product = ProductId(Row.k) /\ x.institution = SeedInstitution
      BY <3>1, <3>2, <3>4 DEF LinkRows
    <3> HIDE DEF x
    <3> QED BY <3>1, <3>3, <3>4, <3>5, SoundTables, LinkAdded
  <2> QED BY <2>1, <2>2, <2>3, <2>4, <2>5, <2>6, SeedAtRow DEF SeedKinds
<1> QED BY <1>1, <1>2 DEF SeedSave

-----------------------------------------------------------------------------
(* The requests and the script: what they have in hand stays right.        *)

LEMMA NextFollows == ASSUME TypeOK, [Next]_vars PROVE Follows(db, db')
<1>1. CASE db' = db
  BY <1>1, SoundTables, FollowsItself
<1>2. CASE InstitutionNext
  <2>1. ASSUME NEW c \in Clerks,
               OpenInstitution(c) \/ BeginDeleteEvent(c) \/ Abandon(c)
        PROVE  db' = db
    BY <2>1 DEF OpenInstitution, BeginDeleteEvent, Abandon, Begin
  <2> QED
    BY <1>1, <1>2, <2>1, CreateInstitutionFollows, MakeUpIdFollows, DeleteInstitutionFollows, UpdateInstitutionFollows,
       StripDeletedEventFollows, DropEventFollows DEF InstitutionNext
<1>3. CASE ProductNext
  <2>1. ASSUME NEW c \in Clerks,
               BeginCreateProduct(c) \/ BeginUpdateProduct(c) \/ BeginCreateLink(c) \/ OpenLink(c)
        PROVE  db' = db
    BY <2>1 DEF BeginCreateProduct, BeginUpdateProduct, BeginCreateLink, OpenLink, Begin
  <2> QED
    BY <1>1, <1>3, <2>1, DeleteProductFollows, DeleteLinkFollows, CreateProductFollows,
       UpdateProductFollows, CreateLinkFollows, UpdateLinkFollows DEF ProductNext
<1>4. CASE StudentNext
  <2>1. ASSUME NEW c \in Clerks,
               \/ BeginCreateUser(c) \/ BeginUpdateUser(c) \/ BeginUpdateProfile(c)
               \/ BeginDeleteUser(c) \/ BeginAddPhotos(c)
        PROVE  db' = db
    BY <2>1 DEF BeginCreateUser, BeginUpdateUser, BeginUpdateProfile, BeginDeleteUser, BeginAddPhotos, Begin
  <2> QED
    BY <1>1, <1>4, <2>1, DeletePhotoFollows, SellPhotoFollows, CreateUserFollows, UpdateUserFollows,
       UpdateProfileFollows, DeleteUserFollows, AddPhotoFollows DEF StudentNext
<1>5. CASE SeedNext
  BY <1>1, <1>5, SeedSaveFollows DEF SeedNext, SeedStart, SeedFind, SeedStop, deskVars
<1> QED BY <1>1, <1>2, <1>3, <1>4, <1>5 DEF Next, vars, deskVars

LEMMA JobHeld ==
  ASSUME TypeOK, NEW c, NEW r \in Requests, job' = [job EXCEPT ![c] = r]
  PROVE  job' \in [Clerks -> Requests]
  BY DEF TypeOK

LEMMA Finished == ASSUME TypeOK, NEW c \in Clerks, Finish(c) PROVE job' \in [Clerks -> Requests]
<1>1. Idle \in Requests
  BY DEF Requests
<1> QED BY <1>1, JobHeld DEF Finish

LEMMA InstitutionForms ==
  ASSUME TypeOK, NEW c \in Clerks, OpenInstitution(c) PROVE job' \in [Clerks -> Requests]
<1> DEFINE S == [id : DOMAIN db.events \cup {Null}, name : EventNames]
<1>1. PICK i \in Rows(db.institutions), contract \in Contracts, edits \in BoundedSeq(S, MaxEdits) :
         Begin(c, [op |-> "updateInstitution", id |-> i, contract |-> contract, edits |-> edits])
  BY DEF OpenInstitution
<1> DEFINE r == [op |-> "updateInstitution", id |-> i, contract |-> contract, edits |-> edits]
<1>2. i \in Nat /\ DOMAIN db.events \subseteq Nat
  BY SoundTables, GoneIsNoRow, RowsOfTable
<1> DEFINE T == [id : Nat \cup {Null}, name : EventNames]
<1>3. S \subseteq T
  BY <1>2
<1>4. PICK m \in Nat : edits \in [1 .. m -> S]
  <2> HIDE DEF S
  <2>1. edits \in UNION {[1 .. m -> S] : m \in 0 .. MaxEdits}
    BY DEF BoundedSeq, SeqOf
  <2>2. PICK m \in 0 .. MaxEdits : edits \in [1 .. m -> S]
    BY <2>1
  <2> QED BY <2>2
<1>5. edits \in Edits
  <2> HIDE DEF S, T
  <2>1. edits \in [1 .. m -> T]
    BY <1>3, <1>4
  <2>2. edits \in Seq(T)
    BY <2>1
  <2> QED BY <2>2 DEF Edits, T
<1> HIDE DEF S, T
<1>6. r \in Requests
  BY <1>2, <1>5 DEF Requests
<1>7. job' = [job EXCEPT ![c] = r]
  BY <1>1 DEF Begin
<1> HIDE DEF r
<1> QED BY <1>6, <1>7, JobHeld

LEMMA LinkForms ==
  ASSUME TypeOK, NEW c \in Clerks, OpenLink(c) PROVE job' \in [Clerks -> Requests]
<1>1. PICK l \in Rows(db.links), details \in SUBSET [id : DOMAIN db.events, name : EventNames] :
         Begin(c, [op |-> "updateLink", id |-> l, details |-> details])
  BY DEF OpenLink
<1> DEFINE r == [op |-> "updateLink", id |-> l, details |-> details]
<1>2. l \in Nat /\ DOMAIN db.events \subseteq Nat
  BY SoundTables, GoneIsNoRow, RowsOfTable
<1>3. details \in SUBSET Entries
  BY <1>2 DEF Entries
<1>4. r \in Requests
  BY <1>2, <1>3 DEF Requests
<1>5. job' = [job EXCEPT ![c] = r]
  BY <1>1 DEF Begin
<1> HIDE DEF r
<1> QED BY <1>4, <1>5, JobHeld

LEMMA NextForms == ASSUME TypeOK, [Next]_vars PROVE job' \in [Clerks -> Requests]
<1> DEFINE Forms == job \in [Clerks -> Requests]
<1>2. CASE job' = job
  BY <1>2 DEF TypeOK
<1>3. ASSUME NEW c \in Clerks, Finish(c) PROVE Forms'
  BY <1>3, Finished
<1>4. ASSUME NEW c \in Clerks, NEW r \in Requests, job' = [job EXCEPT ![c] = r] PROVE Forms'
  BY <1>4, JobHeld
<1> HIDE DEF Forms
<1>5. /\ Rows(db.institutions) \subseteq Nat /\ Rows(db.events) \subseteq Nat
      /\ Rows(db.products) \subseteq Nat /\ Rows(db.users) \subseteq Nat
  <2>1. /\ db.institutions \in Table(Contracts) /\ Gone \notin Contracts
        /\ db.events \in Table(EventRows) /\ Gone \notin EventRows
        /\ db.products \in Table(ProductRows) /\ Gone \notin ProductRows
        /\ db.users \in Table(UserRows) /\ Gone \notin UserRows
    BY SoundTables, GoneIsNoRow
  <2> QED BY <2>1, RowsOfTable
<1>6. CASE InstitutionNext
  <2>1. ASSUME NEW c \in Clerks, BeginDeleteEvent(c) PROVE Forms'
    <3>1. PICK e \in Rows(db.events) : Begin(c, [op |-> "stripEvent", id |-> e])
      BY <2>1 DEF BeginDeleteEvent
    <3>2. [op |-> "stripEvent", id |-> e] \in Requests
      BY <1>5 DEF Requests
    <3> QED BY <1>4, <3>1, <3>2 DEF Begin
  <2>2. ASSUME NEW c \in Clerks, StripDeletedEvent(c) PROVE Forms'
    <3> DEFINE r == [job[c] EXCEPT !.op = "dropEvent"]
    <3>1. job[c].id \in Nat /\ job[c] = [op |-> "stripEvent", id |-> job[c].id]
      BY <2>2 DEF StripDeletedEvent, At, TypeOK, Requests, Idle
    <3>2. r = [op |-> "dropEvent", id |-> job[c].id]
      BY <3>1
    <3>3. job' = [job EXCEPT ![c] = r]
      BY <2>2 DEF StripDeletedEvent
    <3> HIDE DEF r
    <3>4. r \in Requests /\ r.op = "dropEvent"
      BY <3>1, <3>2 DEF Requests
    <3> QED BY <1>4, <3>3, <3>4
  <2> QED
    BY <1>2, <1>3, <1>6, <2>1, <2>2, InstitutionForms
    DEF Forms, InstitutionNext, CreateInstitution, MakeUpId, DeleteInstitution, AtOnce, UpdateInstitution, DropEvent, Abandon
<1>7. CASE ProductNext
  <2>1. ASSUME NEW c \in Clerks, BeginCreateProduct(c) PROVE Forms'
    <3>1. PICK name \in ProductNames, flag \in ShopFlags :
             Begin(c, [op |-> "createProduct", name |-> name, flag |-> flag, alone |-> TRUE])
      BY <2>1 DEF BeginCreateProduct
    <3>2. [op |-> "createProduct", name |-> name, flag |-> flag, alone |-> TRUE] \in Requests
      BY DEF Requests
    <3> QED BY <1>4, <3>1, <3>2 DEF Begin
  <2>2. ASSUME NEW c \in Clerks, BeginUpdateProduct(c) PROVE Forms'
    <3>1. PICK p \in Rows(db.products), name \in ProductNames :
             Begin(c, [op |-> "updateProduct", id |-> p, name |-> name,
                       alone |-> Named(db, name) \subseteq {p}])
      BY <2>2 DEF BeginUpdateProduct
    <3>2. [op |-> "updateProduct", id |-> p, name |-> name, alone |-> Named(db, name) \subseteq {p}] \in Requests
      <4>1. p \in Nat /\ (Named(db, name) \subseteq {p}) \in BOOLEAN
        BY <1>5
      <4> QED BY <4>1 DEF Requests
    <3> QED BY <1>4, <3>1, <3>2 DEF Begin
  <2>3. ASSUME NEW c \in Clerks, BeginCreateLink(c) PROVE Forms'
    <3>1. PICK p \in Rows(db.products), i \in Rows(db.institutions) :
             Begin(c, [op |-> "createLink", product |-> p, institution |-> i,
                       flag |-> db.products[p].flag])
      BY <2>3 DEF BeginCreateLink
    <3>2. p \in Nat /\ i \in Nat /\ db.products[p].flag \in ShopFlags
      <4>1. db.products[p] \in ProductRows
        BY SoundTables, GoneIsNoRow, RowsOfTable
      <4> QED BY <1>5, <4>1 DEF ProductRows
    <3>3. [op |-> "createLink", product |-> p, institution |-> i, flag |-> db.products[p].flag] \in Requests
      BY <3>2 DEF Requests
    <3> QED BY <1>4, <3>1, <3>3 DEF Begin
  <2>4. ASSUME NEW c \in Clerks, CreateProduct(c) \/ UpdateProduct(c) \/ CreateLink(c) \/ UpdateLink(c)
        PROVE  Finish(c)
    BY <2>4 DEF CreateProduct, UpdateProduct, CreateLink, UpdateLink
  <2> QED
    BY <1>2, <1>3, <1>7, <2>1, <2>2, <2>3, <2>4, LinkForms
    DEF Forms, ProductNext, DeleteProduct, DeleteLink, AtOnce
<1>8. CASE StudentNext
  <2>1. ASSUME NEW c \in Clerks, BeginCreateUser(c) PROVE Forms'
    <3>1. PICK i \in Rows(db.institutions), email \in Emails, identifier \in Identifiers :
             Begin(c, [op |-> "createUser", row |-> [institution |-> i, email |-> email,
                                                     identifier |-> identifier, status |-> "active"]])
      BY <2>1 DEF BeginCreateUser
    <3>2. [institution |-> i, email |-> email, identifier |-> identifier, status |-> "active"] \in UserRows
      BY <1>5 DEF UserRows, Statuses
    <3>3. [op |-> "createUser", row |-> [institution |-> i, email |-> email,
                                         identifier |-> identifier, status |-> "active"]] \in Requests
      BY <3>2 DEF Requests
    <3> QED BY <1>4, <3>1, <3>3 DEF Begin
  <2>2. ASSUME NEW c \in Clerks, BeginUpdateUser(c) PROVE Forms'
    <3>1. PICK u \in Rows(db.users), i \in Rows(db.institutions), email \in Emails,
               identifier \in Identifiers, status \in Statuses :
             Begin(c, [op |-> "updateUser", id |-> u, row |-> [institution |-> i, email |-> email,
                                                   identifier |-> identifier, status |-> status]])
      BY <2>2 DEF BeginUpdateUser
    <3> DEFINE row == [institution |-> i, email |-> email, identifier |-> identifier, status |-> status]
    <3>2. row \in UserRows /\ u \in Nat
      BY <1>5 DEF UserRows
    <3> HIDE DEF row
    <3>3. [op |-> "updateUser", id |-> u, row |-> row] \in Requests
      BY <3>2 DEF Requests
    <3> QED BY <1>4, <3>1, <3>3 DEF Begin, row
  <2>3. ASSUME NEW c \in Clerks, BeginUpdateProfile(c) PROVE Forms'
    <3>1. PICK u \in Rows(db.users), email \in Emails :
             Begin(c, [op |-> "updateProfile", id |-> u, email |-> email])
      BY <2>3 DEF BeginUpdateProfile
    <3>2. [op |-> "updateProfile", id |-> u, email |-> email] \in Requests
      BY <1>5 DEF Requests
    <3> QED BY <1>4, <3>1, <3>2 DEF Begin
  <2>4. ASSUME NEW c \in Clerks, BeginDeleteUser(c) PROVE Forms'
    <3>1. PICK u \in Rows(db.users) : Begin(c, [op |-> "deleteUser", id |-> u])
      BY <2>4 DEF BeginDeleteUser
    <3>2. [op |-> "deleteUser", id |-> u] \in Requests
      BY <1>5 DEF Requests
    <3> QED BY <1>4, <3>1, <3>2 DEF Begin
  <2>5. ASSUME NEW c \in Clerks, BeginAddPhotos(c) PROVE Forms'
    <3>1. PICK u \in Rows(db.users), e \in Rows(db.events), files \in 1 .. MaxPhotos :
             Begin(c, [op |-> "addPhotos", user |-> u, event |-> e, files |-> files])
      BY <2>5 DEF BeginAddPhotos
    <3>2. files \in Nat \ {0}
      BY <3>1
    <3>3. [op |-> "addPhotos", user |-> u, event |-> e, files |-> files] \in Requests
      BY <1>5, <3>2 DEF Requests
    <3> QED BY <1>4, <3>1, <3>3 DEF Begin
  <2>6. ASSUME NEW c \in Clerks, AddPhoto(c) PROVE Forms'
    <3>0. job[c] \in [op : {"addPhotos"}, user : Nat, event : Nat, files : Nat \ {0}]
      BY <2>6 DEF AddPhoto, At, TypeOK, Requests, Idle
    <3>1. PICK u \in Nat, e \in Nat, n \in Nat \ {0} :
             job[c] = [op |-> "addPhotos", user |-> u, event |-> e, files |-> n]
      BY <3>0
    <3>2. CASE Finish(c)
      BY <1>3, <3>2
    <3>3. CASE job' = [job EXCEPT ![c] = Idle]
      <4>1. Idle \in Requests /\ Idle.op = "idle"
        BY DEF Requests, Idle
      <4> QED BY <1>4, <3>3, <4>1
    <3>4. CASE n # 1 /\ job' = [job EXCEPT ![c] = [job[c] EXCEPT !.files = @ - 1]]
      <4> DEFINE r == [job[c] EXCEPT !.files = @ - 1]
      <4>1. r = [op |-> "addPhotos", user |-> u, event |-> e, files |-> n - 1] /\ n - 1 \in Nat \ {0}
        BY <3>1, <3>4
      <4> HIDE DEF r
      <4>2. r \in Requests /\ r.op = "addPhotos"
        BY <4>1 DEF Requests
      <4> QED BY <1>4, <3>4, <4>2 DEF r
    <3> QED BY <2>6, <3>1, <3>2, <3>3, <3>4 DEF AddPhoto
  <2>7. ASSUME NEW c \in Clerks, CreateUser(c) \/ UpdateUser(c) \/ UpdateProfile(c) \/ DeleteUser(c)
        PROVE  Finish(c)
    BY <2>7 DEF CreateUser, UpdateUser, UpdateProfile, DeleteUser
  <2>8. ASSUME DeletePhoto \/ SellPhoto PROVE job' = job
    BY <2>8 DEF DeletePhoto, SellPhoto, AtOnce
  <2>9. CASE \E c \in Clerks :
               CreateUser(c) \/ UpdateUser(c) \/ UpdateProfile(c) \/ DeleteUser(c)
    BY <1>3, <2>7, <2>9 DEF Forms
  <2> QED
    BY <1>2, <1>8, <2>1, <2>2, <2>3, <2>4, <2>5, <2>6, <2>8, <2>9
    DEF Forms, StudentNext
<1>9. CASE SeedNext
  BY <1>2, <1>9 DEF SeedNext, SeedStart, SeedFind, SeedSave, SeedStop, deskVars
<1> QED BY <1>2, <1>6, <1>7, <1>8, <1>9 DEF Forms, Next, vars, deskVars

LEMMA JudgedPairs ==
  ASSUME NEW pairs \in SUBSET (Nat \X Nat), NEW k \in Nat, NEW t, Rows(t) \subseteq Nat, NEW checked
  PROVE  Judged(pairs, k, t, checked) \in SUBSET (Nat \X Nat)
  BY DEF Judged

LEMMA TableIds ==
  ASSUME TypeOK
  PROVE  /\ Rows(db.users) \subseteq Nat /\ Rows(db.products) \subseteq Nat /\ Rows(db.links) \subseteq Nat
         /\ DOMAIN db.events \subseteq Nat
         /\ NextId(db.users) \in Nat /\ NextId(db.products) \in Nat /\ NextId(db.links) \in Nat
         /\ NextId(db.institutions) \in Nat /\ NextId(db.events) \in Nat
<1>1. /\ db.institutions \in Table(Contracts) /\ Gone \notin Contracts
      /\ db.events \in Table(EventRows) /\ Gone \notin EventRows
      /\ db.products \in Table(ProductRows) /\ Gone \notin ProductRows
      /\ db.links \in Table(LinkRows) /\ Gone \notin LinkRows
      /\ db.users \in Table(UserRows) /\ Gone \notin UserRows
  BY SoundTables, GoneIsNoRow
<1>2. DOMAIN db.events \subseteq Nat
  BY <1>1, RowsOfTable
<1> QED BY <1>1, <1>2, RowsOfTable

LEMMA UpdateInstitutionWrites ==
  ASSUME NEW c, UpdateInstitution(c)
  PROVE  db' = db \/ \E is, es : db' = [db EXCEPT !.institutions = is, !.events = es]
<1> DEFINE edits == job[c].edits
           added == SetToSeq({k \in DOMAIN edits : edits[k].id = Null})
           new == [n \in DOMAIN added |->
                     [institution |-> job[c].id, name |-> edits[added[n]].name, deleted |-> FALSE]]
<1>1. \/ \E name \in Namings(edits) :
           db' = [db EXCEPT !.institutions[job[c].id] = job[c].contract,
                            !.events = Taken(@, job[c].id, name) \o new]
      \/ db' = db
  BY DEF UpdateInstitution
<1> HIDE DEF new
<1>2. ASSUME NEW name \in Namings(edits),
             db' = [db EXCEPT !.institutions[job[c].id] = job[c].contract,
                              !.events = Taken(@, job[c].id, name) \o new]
      PROVE  \E is, es : db' = [db EXCEPT !.institutions = is, !.events = es]
  <2>1. db' = [db EXCEPT !.institutions = [db.institutions EXCEPT ![job[c].id] = job[c].contract],
                         !.events = Taken(db.events, job[c].id, name) \o new]
    BY <1>2
  <2> QED BY <2>1
<1> QED BY <1>1, <1>2

(* A form of an institution only adds to what is told apart.               *)
LEMMA UpdateInstitutionMarks ==
  ASSUME TypeOK, NEW c \in Clerks, UpdateInstitution(c)
  PROVE  \E A \in SUBSET Nat, S \in SUBSET (Nat \X Nat) :
            history' = [history EXCEPT !.adopted = @ \cup A, !.stale = @ \cup S]
<1> DEFINE edits == job[c].edits
           adopted == Foreign(db.events, job[c].id, edits)
           more == {l \in Rows(db.links) : db.links[l].institution # job[c].id} \X adopted
<1>1. \/ history' = [history EXCEPT !.adopted = @ \cup adopted, !.stale = @ \cup more]
      \/ history' = history
  BY DEF UpdateInstitution
<1>2. edits \in Edits
  BY FormOfInstitution
<1> HIDE DEF edits
<1>3. \A k \in DOMAIN edits : edits[k].id \in Nat \cup {Null}
  BY <1>2, EditsListed
<1>4. adopted \subseteq Nat
  BY <1>3 DEF Foreign, Sent
<1> HIDE DEF adopted
<1>5. more \subseteq Nat \X Nat
  BY <1>4, TableIds
<1> HIDE DEF more
<1>6. history \in Histories
  BY DEF TypeOK
<1>7. history = [history EXCEPT !.adopted = @ \cup {}, !.stale = @ \cup {}]
  BY <1>6 DEF Histories
<1> QED BY <1>1, <1>4, <1>5, <1>7

LEMMA HistoryKept == ASSUME TypeOK, [Next]_vars PROVE history' \in Histories
<1>1. history \in Histories
  BY DEF TypeOK
<1>2. CASE history' = history
  BY <1>1, <1>2
<1>3. ASSUME NEW p \in Nat, NEW checked,
             history' = [history EXCEPT !.products = Judged(@, p, db.products, checked)]
      PROVE  history' \in Histories
  <2>1. Judged(history.products, p, db.products, checked) \in SUBSET (Nat \X Nat)
    BY <1>1, TableIds, JudgedPairs DEF Histories
  <2> QED BY <1>1, <1>3, <2>1 DEF Histories
<1>4. ASSUME NEW u \in Nat, NEW checked, NEW moved,
             moved \in {history.moved, history.moved \cup {u}},
             history' = [history EXCEPT !.users = Judged(@, u, db.users, checked), !.moved = moved]
      PROVE  history' \in Histories
  <2>1. Judged(history.users, u, db.users, checked) \in SUBSET (Nat \X Nat)
    BY <1>1, TableIds, JudgedPairs DEF Histories
  <2>2. moved \in SUBSET Nat
    BY <1>1, <1>4 DEF Histories
  <2> QED BY <1>1, <1>4, <2>1, <2>2 DEF Histories
<1>5. ASSUME NEW u \in Nat, NEW valid, UserSaved(u, valid) PROVE history' \in Histories
  <2> DEFINE moved == IF /\ u \in Rows(db.users)
                         /\ db'.users[u].institution # db.users[u].institution
                      THEN history.moved \cup {u} ELSE history.moved
  <2>1. history' = [history EXCEPT !.users = Judged(@, u, db.users, valid), !.moved = moved]
    BY <1>5 DEF UserSaved
  <2>2. moved \in {history.moved, history.moved \cup {u}}
    OBVIOUS
  <2> HIDE DEF moved
  <2> QED BY <1>4, <2>1, <2>2
<1>6. ASSUME NEW c \in Clerks, CreateProduct(c) PROVE history' \in Histories
  BY <1>3, <1>6, TableIds DEF CreateProduct, NameSaved
<1>7. ASSUME NEW c \in Clerks, UpdateProduct(c) PROVE history' \in Histories
  BY <1>2, <1>3, <1>7, TableIds DEF UpdateProduct, NameSaved
<1>8. ASSUME NEW c \in Clerks, CreateUser(c) PROVE history' \in Histories
  BY <1>2, <1>5, <1>8, TableIds DEF CreateUser
<1>9. ASSUME NEW c \in Clerks, UpdateUser(c) PROVE history' \in Histories
  BY <1>2, <1>5, <1>9, TableIds DEF UpdateUser
<1>10. ASSUME NEW c \in Clerks, UpdateLink(c) PROVE history' \in Histories
  <2> DEFINE l == job[c].id
  <2>1. CASE l \notin Rows(db.links)
    BY <1>2, <1>10, <2>1 DEF UpdateLink
  <2>2. CASE l \in Rows(db.links)
    <3>1. PICK sent \in {job[c].details, Null} :
             history' = [history EXCEPT !.stale =
                     {x \in @ : x[1] # l} \cup
                     IF sent = Null THEN {}
                     ELSE {<<l, x.id>> : x \in {y \in sent : ~Lasting(y.id, db.links[l].institution)}}]
      BY <1>10, <2>2 DEF UpdateLink
    <3> DEFINE stale == {x \in history.stale : x[1] # l} \cup
                     IF sent = Null THEN {}
                     ELSE {<<l, x.id>> : x \in {y \in sent : ~Lasting(y.id, db.links[l].institution)}}
    <3>2. l \in Nat /\ job[c].details \in SUBSET Entries
      BY <1>10 DEF UpdateLink, At, TypeOK, Requests, Idle
    <3>3. stale \in SUBSET (Nat \X Nat)
      BY <1>1, <3>2 DEF Histories, Entries
    <3>4. history' = [history EXCEPT !.stale = stale]
      BY <3>1
    <3> HIDE DEF stale
    <3> QED BY <1>1, <3>3, <3>4 DEF Histories
  <2> QED BY <2>1, <2>2
<1>11. CASE SeedSave
  <2>1. CASE history' = SeedHistory(NextId(db[Row.table]))
    <3>1. CASE Row.table = "users"
      <4>1. history' = [history EXCEPT !.users = Judged(@, NextId(db.users), db.users, FALSE),
                                       !.moved = history.moved]
        BY <1>1, <2>1, <3>1 DEF SeedHistory, Histories
      <4> QED BY <1>4, <4>1, TableIds
    <3>2. CASE Row.table = "products"
      BY <1>3, <2>1, <3>2, TableIds DEF SeedHistory
    <3>3. CASE Row.table = "links"
      <4>1. NewRow.details = SeedDetails(SeedProducts[Row.k].flag)
        BY <3>3 DEF NewRow
      <4>2. NewRow.details \in SUBSET Entries
        BY <1>11, <3>3, <4>1, SeedDetailsStored DEF SeedSave
      <4> DEFINE more == {<<NextId(db.links), x.id>> :
                        x \in {y \in NewRow.details : ~Lasting(y.id, SeedInstitution)}}
      <4>3. more \in SUBSET (Nat \X Nat)
        BY <4>2, TableIds DEF Entries
      <4>4. history' = [history EXCEPT !.stale = @ \cup more]
        BY <2>1, <3>3 DEF SeedHistory
      <4> HIDE DEF more
      <4> QED BY <1>1, <4>3, <4>4 DEF Histories
    <3>4. CASE Row.table \notin {"users", "products", "links"}
      BY <1>2, <2>1, <3>4 DEF SeedHistory
    <3> QED BY <3>1, <3>2, <3>3, <3>4
  <2> QED BY <1>2, <1>11, <2>1 DEF SeedSave
<1>16. ASSUME NEW c \in Clerks, UpdateInstitution(c) PROVE history' \in Histories
  <2>1. PICK A \in SUBSET Nat, S \in SUBSET (Nat \X Nat) :
           history' = [history EXCEPT !.adopted = @ \cup A, !.stale = @ \cup S]
    BY <1>16, UpdateInstitutionMarks
  <2> QED BY <1>1, <2>1 DEF Histories
<1>12. CASE InstitutionNext
  BY <1>2, <1>12, <1>16
  DEF InstitutionNext, CreateInstitution, MakeUpId, DeleteInstitution, OpenInstitution,
      BeginDeleteEvent, StripDeletedEvent, DropEvent, Abandon, Begin
<1>13. CASE ProductNext
  BY <1>2, <1>6, <1>7, <1>10, <1>13
  DEF ProductNext, DeleteProduct, DeleteLink, BeginCreateProduct, BeginUpdateProduct, BeginCreateLink,
      CreateLink, OpenLink, Begin
<1>14. CASE StudentNext
  BY <1>2, <1>8, <1>9, <1>14
  DEF StudentNext, DeletePhoto, SellPhoto, BeginCreateUser, BeginUpdateUser, BeginUpdateProfile,
      UpdateProfile, BeginDeleteUser, DeleteUser, BeginAddPhotos, AddPhoto, Begin
<1>15. CASE SeedNext
  BY <1>2, <1>11, <1>15 DEF SeedNext, SeedStart, SeedFind, SeedStop, deskVars
<1> QED BY <1>2, <1>12, <1>13, <1>14, <1>15 DEF Next, vars, deskVars

SeedSound ==
  /\ seed \in [runs : Nat, at : 0 .. Len(SeedRows), missing : BOOLEAN, ids : Seq(Nat), done : BOOLEAN]
  /\ IF seed.at = 0 THEN seed.ids = << >> ELSE Len(seed.ids) = seed.at - 1

LEMMA SeedStays ==
  ASSUME seed'.at \in 0 .. Len(SeedRows), seed'.ids = seed.ids,
         seed' \in [runs : Nat, at : Nat, missing : BOOLEAN, ids : Seq(Nat), done : BOOLEAN],
         IF seed'.at = 0 THEN seed.ids = << >> ELSE Len(seed.ids) = seed'.at - 1
  PROVE  SeedSound'
  BY DEF SeedSound

LEMMA SeedEnded ==
  ASSUME TypeOK, NEW done \in BOOLEAN, seed' = Ended(seed.runs, done) PROVE SeedSound'
<1>1. Len(SeedRows) \in Nat /\ seed.runs \in Nat
  BY SeedRowsPlaced DEF TypeOK
<1>2. seed' \in [runs : Nat, at : 0 .. Len(SeedRows), missing : BOOLEAN, ids : Seq(Nat), done : BOOLEAN]
  BY <1>1 DEF Ended
<1>3. seed'.at = 0 /\ seed'.ids = << >>
  BY DEF Ended
<1> QED BY <1>2, <1>3 DEF SeedSound

LEMMA SeedAdvanced ==
  ASSUME TypeOK, seed.at > 0, NEW id \in Nat, Advance(id)
  PROVE  SeedSound'
<1>1. /\ seed.at \in 1 .. Len(SeedRows) /\ seed.ids \in Seq(Nat) /\ Len(seed.ids) = seed.at - 1
      /\ seed \in [runs : Nat, at : 0 .. Len(SeedRows), missing : BOOLEAN, ids : Seq(Nat), done : BOOLEAN]
      /\ Len(SeedRows) \in Nat
  BY SeedRowsPlaced DEF TypeOK
<1>2. CASE seed.at = Len(SeedRows)
  BY <1>2, SeedEnded DEF Advance
<1>3. CASE seed.at # Len(SeedRows)
  <2> DEFINE ids == Append(seed.ids, id)
  <2>1. seed' = [seed EXCEPT !.at = @ + 1, !.missing = FALSE, !.ids = ids]
    BY <1>3 DEF Advance
  <2>2. ids \in Seq(Nat) /\ Len(ids) = seed.at
    BY <1>1
  <2> HIDE DEF ids
  <2>3. /\ seed' \in [runs : Nat, at : 0 .. Len(SeedRows), missing : BOOLEAN, ids : Seq(Nat), done : BOOLEAN]
        /\ seed'.at = seed.at + 1 /\ seed'.ids = ids
    <3>1. PICK at : at = seed.at + 1
      OBVIOUS
    <3>2. at \in 0 .. Len(SeedRows)
      BY <1>1, <1>3, <3>1
    <3>3. seed' = [seed EXCEPT !.at = at, !.missing = FALSE, !.ids = ids] /\ ids \in Seq(Nat)
      BY <2>1, <2>2, <3>1
    <3> QED BY <1>1, <3>1, <3>2, <3>3
  <2>4. seed'.at # 0 /\ Len(seed'.ids) = seed'.at - 1
    BY <1>1, <2>2, <2>3
  <2> QED BY <2>3, <2>4 DEF SeedSound
<1> QED BY <1>2, <1>3

LEMMA FoundIds == ASSUME TypeOK, seed.at > 0, NEW id \in Found PROVE id \in Nat
<1>1. Row.table \in SeedKinds
  BY SeedAtRow
<1>2. CASE Row.table = "institutions"
  <2>1. id \in Rows(db.institutions)
    BY <1>2 DEF Found, WithContract
  <2>2. db.institutions \in Table(Contracts) /\ Gone \notin Contracts
    BY SoundTables, GoneIsNoRow
  <2> QED BY <2>1, <2>2, RowsOfTable
<1>3. CASE Row.table = "events"
  <2>1. id \in DOMAIN db.events
    BY <1>3 DEF Found, LiveEvents, Rows
  <2> QED BY <2>1, TableIds
<1>4. CASE Row.table = "users"
  BY <1>4, TableIds DEF Found, WithEmail
<1>5. CASE Row.table = "products"
  BY <1>5, TableIds DEF Found, Named
<1>6. CASE Row.table = "links"
  BY <1>6, TableIds DEF Found, LinksOf
<1> QED BY <1>1, <1>2, <1>3, <1>4, <1>5, <1>6 DEF SeedKinds

LEMMA SeedFindSound == ASSUME TypeOK, SeedFind PROVE SeedSound'
<1>1. seed.at > 0
  BY DEF SeedFind
<1>2. CASE seed' = [seed EXCEPT !.missing = TRUE]
  <2>1. /\ seed \in [runs : Nat, at : 0 .. Len(SeedRows), missing : BOOLEAN, ids : Seq(Nat), done : BOOLEAN]
        /\ Len(SeedRows) \in Nat /\ Len(seed.ids) = seed.at - 1
    BY <1>1, SeedRowsPlaced DEF TypeOK
  <2>2. /\ seed'.at = seed.at /\ seed'.ids = seed.ids
        /\ seed' \in [runs : Nat, at : Nat, missing : BOOLEAN, ids : Seq(Nat), done : BOOLEAN]
    <3>1. seed \in [runs : Nat, at : Nat, missing : BOOLEAN, ids : Seq(Nat), done : BOOLEAN]
      BY <2>1
    <3> QED BY <1>2, <3>1
  <2> QED BY <1>1, <2>1, <2>2, SeedStays
<1>3. ASSUME NEW id \in Found, Advance(id) PROVE SeedSound'
  BY <1>1, <1>3, FoundIds, SeedAdvanced
<1> QED BY <1>2, <1>3 DEF SeedFind

LEMMA SeedSaveSound == ASSUME TypeOK, SeedSave PROVE SeedSound'
<1>1. seed.at > 0
  BY DEF SeedSave
<1>2. CASE seed' = Ended(seed.runs, seed.done)
  BY <1>2, SeedEnded DEF TypeOK
<1>3. CASE Advance(NextId(db[Row.table]))
  <2>1. Row.table \in SeedKinds
    BY <1>1, SeedAtRow
  <2>2. NextId(db[Row.table]) \in Nat
    BY <2>1, TableIds DEF SeedKinds
  <2> QED BY <1>1, <1>3, <2>2, SeedAdvanced
<1> QED BY <1>2, <1>3 DEF SeedSave

LEMMA NextSeed == ASSUME TypeOK, [Next]_vars PROVE SeedSound'
<1>2. /\ seed \in [runs : Nat, at : 0 .. Len(SeedRows), missing : BOOLEAN, ids : Seq(Nat), done : BOOLEAN]
      /\ Len(SeedRows) \in Nat /\ Len(SeedRows) > 0
      /\ IF seed.at = 0 THEN seed.ids = << >> ELSE Len(seed.ids) = seed.at - 1
  BY SeedRowsPlaced DEF TypeOK
<1>3. CASE seed' = seed
  <2>1. /\ seed'.at \in 0 .. Len(SeedRows) /\ seed'.ids = seed.ids
        /\ seed' \in [runs : Nat, at : Nat, missing : BOOLEAN, ids : Seq(Nat), done : BOOLEAN]
        /\ IF seed'.at = 0 THEN seed.ids = << >> ELSE Len(seed.ids) = seed'.at - 1
    BY <1>2, <1>3
  <2> QED BY <2>1, SeedStays
<1>4. CASE SeedStart
  <2>1. seed.at = 0 /\ seed.ids = << >> /\ seed' = [seed EXCEPT !.at = 1, !.runs = @ + 1]
    BY <1>2, <1>4 DEF SeedStart
  <2>2. /\ seed'.at = 1 /\ seed'.ids = seed.ids
        /\ seed' \in [runs : Nat, at : Nat, missing : BOOLEAN, ids : Seq(Nat), done : BOOLEAN]
    <3>1. seed \in [runs : Nat, at : Nat, missing : BOOLEAN, ids : Seq(Nat), done : BOOLEAN]
      BY <1>2
    <3>2. PICK runs \in Nat : runs = seed.runs + 1
      BY <3>1
    <3>3. seed' = [seed EXCEPT !.at = 1, !.runs = runs]
      BY <2>1, <3>2
    <3> QED BY <3>1, <3>3
  <2>3. Len(seed.ids) = seed'.at - 1 /\ seed'.at \in 0 .. Len(SeedRows)
    BY <1>2, <2>1, <2>2
  <2> QED BY <2>2, <2>3, SeedStays
<1>5. CASE SeedStop
  BY <1>2, <1>5, SeedEnded DEF SeedStop
<1> QED
  BY <1>3, <1>4, <1>5, SeedFindSound, SeedSaveSound DEF Next, SeedNext, vars

LEMMA JobsCount == ASSUME [Next]_vars PROVE jobs' = jobs \/ jobs' = jobs + 1
<1>1. CASE InstitutionNext
  BY <1>1 DEF InstitutionNext, CreateInstitution, MakeUpId, DeleteInstitution, OpenInstitution, UpdateInstitution,
     BeginDeleteEvent, StripDeletedEvent, DropEvent, Abandon, Begin, AtOnce, Finish
<1>2. CASE ProductNext
  BY <1>2 DEF ProductNext, DeleteProduct, DeleteLink, BeginCreateProduct, CreateProduct, BeginUpdateProduct,
     UpdateProduct, BeginCreateLink, CreateLink, OpenLink, UpdateLink, Begin, AtOnce, Finish
<1>3. CASE StudentNext
  BY <1>3 DEF StudentNext, DeletePhoto, SellPhoto, BeginCreateUser, CreateUser, BeginUpdateUser, UpdateUser,
     BeginUpdateProfile, UpdateProfile, BeginDeleteUser, DeleteUser, BeginAddPhotos, AddPhoto, Begin, AtOnce, Finish
<1>4. CASE SeedNext
  BY <1>4 DEF SeedNext, SeedStart, SeedFind, SeedSave, SeedStop, deskVars
<1> QED BY <1>1, <1>2, <1>3, <1>4 DEF Next, vars, deskVars

LEMMA NextJobs == ASSUME TypeOK, [Next]_vars PROVE jobs' \in Nat
  BY JobsCount DEF TypeOK

LEMMA InitTyped == Init => TypeOK
<1> SUFFICES ASSUME Init PROVE TypeOK
  OBVIOUS
<1>1. /\ db = EmptyDb /\ job = [c \in Clerks |-> Idle] /\ jobs = 0 /\ history = NoHistory
      /\ seed = Ended(0, FALSE)
  BY DEF Init, DeskInit, SeedInit
<1>2. EmptyDb \in Tables
  BY DEF EmptyDb, Tables, Table
<1>3. Rows(<< >>) = {}
  BY DEF Rows
<1>4. Referenced(EmptyDb)
  BY <1>3 DEF Referenced, EmptyDb
<1>5. job \in [Clerks -> Requests]
  BY <1>1 DEF Requests
<1>6. history \in Histories
  BY <1>1 DEF NoHistory, Histories
<1>7. /\ seed \in [runs : Nat, at : 0 .. Len(SeedRows), missing : BOOLEAN, ids : Seq(Nat), done : BOOLEAN]
      /\ seed.at = 0 /\ seed.ids = << >>
  BY <1>1, SeedRowsPlaced DEF Ended
<1> QED BY <1>1, <1>2, <1>4, <1>5, <1>6, <1>7 DEF TypeOK

LEMMA NextTyped == TypeOK /\ [Next]_vars => TypeOK'
<1> SUFFICES ASSUME TypeOK, [Next]_vars PROVE TypeOK'
  OBVIOUS
<1>1. db' \in Tables /\ Referenced(db')
  BY NextFollows DEF Follows
<1>2. job' \in [Clerks -> Requests] /\ jobs' \in Nat /\ history' \in Histories /\ SeedSound'
  BY NextForms, NextJobs, HistoryKept, NextSeed
<1> QED BY <1>1, <1>2 DEF TypeOK, SeedSound

(* The rows, requests and marks are typed, and no row refers to one that   *)
(* is not there, however the deletions and cascades overlap the saves.     *)
THEOREM CatalogueTyped == Spec => []TypeOK
  BY InitTyped, NextTyped, PTL DEF Spec

LEMMA RowsAreTyped ==
  ASSUME TypeOK
  PROVE  /\ \A i \in Rows(db.institutions) : db.institutions[i] \in Contracts
         /\ \A e \in Rows(db.events) : db.events[e] \in EventRows
         /\ \A p \in Rows(db.products) : db.products[p] \in ProductRows
         /\ \A l \in Rows(db.links) : db.links[l] \in LinkRows
         /\ \A u \in Rows(db.users) : db.users[u] \in UserRows
         /\ \A f \in Rows(db.photos) : db.photos[f] \in PhotoRows
<1>1. /\ db.institutions \in Table(Contracts) /\ Gone \notin Contracts
      /\ db.events \in Table(EventRows) /\ Gone \notin EventRows
      /\ db.products \in Table(ProductRows) /\ Gone \notin ProductRows
  BY SoundTables, GoneIsNoRow
<1>2. /\ db.links \in Table(LinkRows) /\ Gone \notin LinkRows
      /\ db.users \in Table(UserRows) /\ Gone \notin UserRows
      /\ db.photos \in Table(PhotoRows) /\ Gone \notin PhotoRows
  BY SoundTables, GoneIsNoRow
<1>3. /\ \A i \in Rows(db.institutions) : db.institutions[i] \in Contracts
      /\ \A e \in Rows(db.events) : db.events[e] \in EventRows
      /\ \A p \in Rows(db.products) : db.products[p] \in ProductRows
  BY <1>1, RowsOfTable
<1>4. /\ \A l \in Rows(db.links) : db.links[l] \in LinkRows
      /\ \A u \in Rows(db.users) : db.users[u] \in UserRows
      /\ \A f \in Rows(db.photos) : db.photos[f] \in PhotoRows
  BY <1>2, RowsOfTable
<1> QED BY <1>3, <1>4

-----------------------------------------------------------------------------
(* Order lines.                                                            *)

NothingSoldLost(d, new) ==
  /\ d.lines \subseteq new.lines
  /\ Rows(d.photos) \subseteq Rows(new.photos) /\ Rows(d.products) \subseteq Rows(new.products)

SoldKept(d, new) ==
  \A x \in d.lines :
     x \notin new.lines \/ x.photo \notin Rows(new.photos) \/ x.product \notin Rows(new.products)
        => x.user \notin Rows(new.users)

LEMMA NothingLost == ASSUME NEW d, Referenced(d), NEW new, NothingSoldLost(d, new) PROVE SoldKept(d, new)
  BY DEF Referenced, NothingSoldLost, SoldKept

LEMMA CascadeKeepsSold ==
  ASSUME NEW d \in Tables, Referenced(d), NEW is, NEW us, NEW ps, Deletable(d, is, us, ps)
  PROVE  SoldKept(d, Without(d, is, us, ps))
<1> DEFINE new == Without(d, is, us, ps)
<1>1. /\ Rows(new.photos) = Rows(d.photos) \ PhotosLost(d, is, us)
      /\ Rows(new.products) = Rows(d.products) \ ps
      /\ Rows(new.users) = Rows(d.users) \ UsersLost(d, is, us)
  BY TablesOf, GoneIsNoRow, RowsErased DEF Without
<1>2. new.lines = LinesKept(d, is, us)
  BY DEF Without
<1> HIDE DEF new
<1>3. SoldKept(d, new)
  BY <1>1, <1>2 DEF Referenced, Deletable, LinesKept, SoldKept
<1> QED BY <1>3 DEF new

LEMMA ColumnsKept ==
  ASSUME NEW d \in Tables, NEW new,
         new.lines = d.lines, new.photos = d.photos, new.products = d.products
  PROVE  NothingSoldLost(d, new)
  BY DEF NothingSoldLost

LEMMA RowsStay == ASSUME NEW S, NEW t \in Table(S), NEW x PROVE Rows(t) \subseteq Rows(Append(t, x))
<1>1. /\ Len(t) \in Nat /\ DOMAIN t = 1 .. Len(t) /\ DOMAIN Append(t, x) = 1 .. Len(t) + 1
      /\ \A k \in 1 .. Len(t) : Append(t, x)[k] = t[k]
  BY DEF Table
<1> QED BY <1>1 DEF Rows

LEMMA InstitutionKeepsSold == ASSUME TypeOK, InstitutionNext PROVE SoldKept(db, db')
<1>1. ASSUME db'.lines = db.lines, db'.photos = db.photos, db'.products = db.products
      PROVE  SoldKept(db, db')
  BY <1>1, SoundTables, ColumnsKept, NothingLost
<1>2. CASE CreateInstitution \/ MakeUpId
  BY <1>1, <1>2, SoundTables DEF CreateInstitution, MakeUpId, Tables
<1>3. CASE DeleteInstitution
  BY <1>3, SoundTables, CascadeKeepsSold DEF DeleteInstitution
<1>4. ASSUME NEW c \in Clerks, OpenInstitution(c) \/ BeginDeleteEvent(c) \/ Abandon(c)
      PROVE  db' = db
  BY <1>4 DEF OpenInstitution, BeginDeleteEvent, Abandon, Begin
<1>5. ASSUME NEW c \in Clerks, UpdateInstitution(c) PROVE SoldKept(db, db')
  BY <1>1, <1>5, SoundTables DEF UpdateInstitution, Tables
<1>6. ASSUME NEW c \in Clerks, StripDeletedEvent(c) PROVE SoldKept(db, db')
  BY <1>1, <1>6, SoundTables DEF StripDeletedEvent, StripEvent, Tables
<1>7. ASSUME NEW c \in Clerks, DropEvent(c) PROVE SoldKept(db, db')
  BY <1>1, <1>7, SoundTables DEF DropEvent, Tables
<1> QED BY <1>1, <1>2, <1>3, <1>4, <1>5, <1>6, <1>7 DEF InstitutionNext

LEMMA ProductKeepsSold == ASSUME TypeOK, ProductNext PROVE SoldKept(db, db')
<1>1. ASSUME db'.lines = db.lines, db'.photos = db.photos, db'.products = db.products
      PROVE  SoldKept(db, db')
  BY <1>1, SoundTables, ColumnsKept, NothingLost
<1>2. ASSUME db'.lines = db.lines, db'.photos = db.photos, Rows(db.products) \subseteq Rows(db'.products)
      PROVE  SoldKept(db, db')
  BY <1>2, SoundTables, NothingLost DEF NothingSoldLost
<1>3. CASE DeleteProduct
  BY <1>3, SoundTables, CascadeKeepsSold DEF DeleteProduct
<1>4. CASE DeleteLink
  BY <1>1, <1>4, SoundTables DEF DeleteLink, Tables
<1>5. ASSUME NEW c \in Clerks, BeginCreateProduct(c) \/ BeginUpdateProduct(c) \/ BeginCreateLink(c) \/ OpenLink(c)
      PROVE  db' = db
  BY <1>5 DEF BeginCreateProduct, BeginUpdateProduct, BeginCreateLink, OpenLink, Begin
<1>6. ASSUME NEW c \in Clerks, CreateProduct(c) PROVE SoldKept(db, db')
  <2>1. db'.lines = db.lines /\ db'.photos = db.photos
    BY <1>6, SoundTables DEF CreateProduct, Tables
  <2>2. Rows(db.products) \subseteq Rows(db'.products)
    BY <1>6, CreateProductFollows, SoundTables, RowsStay
  <2> QED BY <1>2, <2>1, <2>2
<1>7. ASSUME NEW c \in Clerks, UpdateProduct(c) PROVE SoldKept(db, db')
  <2> DEFINE p == job[c].id
             x == [db.products[p] EXCEPT !.name = Trim[job[c].name]]
  <2>1. CASE p \in Rows(db.products)
    <3>1. /\ db'.products = [db.products EXCEPT ![p] = x]
          /\ db'.lines = db.lines /\ db'.photos = db.photos
      BY <1>7, <2>1, SoundTables DEF UpdateProduct, Tables
    <3>2. job[c].name \in ProductNames /\ db.products[p] \in ProductRows
      BY <1>7, <2>1, RowsAreTyped DEF UpdateProduct, At, TypeOK, Requests, Idle
    <3>3. x \in ProductRows
      BY <3>2, TrimAssumption DEF ProductRows
    <3> HIDE DEF x
    <3>4. Rows(db'.products) = Rows(db.products)
      BY <2>1, <3>1, <3>3, SoundTables, GoneIsNoRow, RowChanged
    <3> QED BY <1>2, <3>1, <3>4
  <2>2. CASE p \notin Rows(db.products)
    BY <1>1, <1>7, <2>2 DEF UpdateProduct
  <2> QED BY <2>1, <2>2
<1>8. ASSUME NEW c \in Clerks, CreateLink(c) PROVE SoldKept(db, db')
  BY <1>1, <1>8, SoundTables DEF CreateLink, Tables
<1>9. ASSUME NEW c \in Clerks, UpdateLink(c) PROVE SoldKept(db, db')
  BY <1>1, <1>9, SoundTables DEF UpdateLink, Tables
<1> QED BY <1>1, <1>3, <1>4, <1>5, <1>6, <1>7, <1>8, <1>9 DEF ProductNext

LEMMA StudentKeepsSold == ASSUME TypeOK, StudentNext PROVE SoldKept(db, db')
<1>1. ASSUME db'.lines = db.lines, db'.photos = db.photos, db'.products = db.products
      PROVE  SoldKept(db, db')
  BY <1>1, SoundTables, ColumnsKept, NothingLost
<1>2. ASSUME db'.lines = db.lines, db'.products = db.products, Rows(db.photos) \subseteq Rows(db'.photos)
      PROVE  SoldKept(db, db')
  BY <1>2, SoundTables, NothingLost DEF NothingSoldLost
<1>3. CASE DeletePhoto
  <2>1. PICK f \in Rows(db.photos) : db' = [db EXCEPT !.photos[f].deleted = TRUE]
    BY <1>3 DEF DeletePhoto
  <2> DEFINE x == [db.photos[f] EXCEPT !.deleted = TRUE]
  <2>2. /\ db'.photos = [db.photos EXCEPT ![f] = x]
        /\ db'.lines = db.lines /\ db'.products = db.products
    BY <2>1, SoundTables DEF Tables
  <2>3. x \in PhotoRows
    BY RowsAreTyped DEF PhotoRows
  <2> HIDE DEF x
  <2>4. Rows(db'.photos) = Rows(db.photos)
    BY <2>2, <2>3, SoundTables, GoneIsNoRow, RowChanged
  <2> QED BY <1>2, <2>2, <2>4
<1>4. CASE SellPhoto
  <2>1. /\ db.lines \subseteq db'.lines /\ db'.products = db.products /\ db'.photos = db.photos
    BY <1>4, SoundTables DEF SellPhoto, Tables
  <2> QED BY <2>1, SoundTables, NothingLost DEF NothingSoldLost
<1>5. ASSUME NEW c \in Clerks,
             \/ BeginCreateUser(c) \/ BeginUpdateUser(c) \/ BeginUpdateProfile(c)
             \/ BeginDeleteUser(c) \/ BeginAddPhotos(c)
      PROVE  db' = db
  BY <1>5 DEF BeginCreateUser, BeginUpdateUser, BeginUpdateProfile, BeginDeleteUser, BeginAddPhotos, Begin
<1>6. ASSUME NEW c \in Clerks, CreateUser(c) \/ UpdateUser(c) \/ UpdateProfile(c)
      PROVE  SoldKept(db, db')
  BY <1>1, <1>6, SoundTables DEF CreateUser, UpdateUser, UpdateProfile, Tables
<1>7. ASSUME NEW c \in Clerks, DeleteUser(c) PROVE SoldKept(db, db')
  BY <1>1, <1>7, SoundTables, CascadeKeepsSold DEF DeleteUser
<1>8. ASSUME NEW c \in Clerks, AddPhoto(c) PROVE SoldKept(db, db')
  <2>1. CASE db' = db
    BY <1>1, <2>1
  <2>2. CASE db' # db
    <3> DEFINE x == [user |-> job[c].user, event |-> job[c].event, deleted |-> FALSE]
    <3>1. /\ db'.photos = Append(db.photos, x)
          /\ db'.lines = db.lines /\ db'.products = db.products
      BY <1>8, <2>2, SoundTables DEF AddPhoto, Tables
    <3>2. Rows(db.photos) \subseteq Rows(db'.photos)
      BY <3>1, SoundTables, RowsStay
    <3> QED BY <1>2, <3>1, <3>2
  <2> QED BY <2>1, <2>2
<1> QED BY <1>1, <1>3, <1>4, <1>5, <1>6, <1>7, <1>8 DEF StudentNext

LEMMA SeedKeepsSold == ASSUME TypeOK, SeedNext PROVE SoldKept(db, db')
<1>1. ASSUME db'.lines = db.lines, db'.photos = db.photos, Rows(db.products) \subseteq Rows(db'.products)
      PROVE  SoldKept(db, db')
  BY <1>1, SoundTables, NothingLost DEF NothingSoldLost
<1>2. CASE db' = db
  BY <1>1, <1>2
<1>3. CASE SeedSave /\ db' = [db EXCEPT ![Row.table] = Append(@, NewRow)]
  <2>1. Row.table \in SeedKinds
    BY <1>3, SeedAtRow DEF SeedSave
  <2>2. db'.lines = db.lines /\ db'.photos = db.photos
    BY <1>3, <2>1, SoundTables DEF Tables, SeedKinds
  <2>3. db'.products = db.products \/ db'.products = Append(db.products, NewRow)
    BY <1>3, <2>1, SoundTables DEF Tables, SeedKinds
  <2>4. Rows(db.products) \subseteq Rows(db'.products)
    BY <2>3, SoundTables, RowsStay
  <2> QED BY <1>1, <2>2, <2>4
<1> QED BY <1>2, <1>3 DEF SeedNext, SeedStart, SeedFind, SeedSave, SeedStop, deskVars

(* What was sold is forgotten only together with its customer: the keys of *)
(* the tables refuse every other deletion that would take an order line,   *)
(* its product or its photo.                                               *)
THEOREM SoldGoesWithCustomer == Spec => LinesGoWithCustomer
<1>1. ASSUME TypeOK, [Next]_vars
      PROVE  [\A x \in db.lines :
                x \notin db'.lines \/ x.photo \notin Rows(db'.photos) \/ x.product \notin Rows(db'.products)
                   => x.user \notin Rows(db'.users)]_vars
  BY <1>1, InstitutionKeepsSold, ProductKeepsSold, StudentKeepsSold, SeedKeepsSold DEF Next, SoldKept
<1> QED BY <1>1, CatalogueTyped, PTL DEF Spec, LinesGoWithCustomer

-----------------------------------------------------------------------------
(* Identifiers: as long as no user was saved since the check of an update, *)
(* nobody else has the identifier it is about to write.                    *)

UserChecks ==
  \A c \in Clerks : At(c, "updateUser") /\ c \notin overtaken =>
     WithIdentifier(db, job[c].row.identifier, job[c].row.institution) \subseteq {job[c].id}

IdentifiersInv == IdentifiersClashUnchecked /\ UserChecks

(* The same for product names, which the script checks too.                *)
NameChecks ==
  /\ \A c \in Clerks : At(c, "createProduct") /\ c \notin overtaken => Named(db, job[c].name) = {}
  /\ \A c \in Clerks : At(c, "updateProduct") /\ c \notin overtaken /\ job[c].alone =>
        Named(db, job[c].name) \subseteq {job[c].id}
  /\ seed.at > 0 /\ seed.missing /\ Row.table = "products" /\ "seed" \notin overtaken =>
        Named(db, SeedProducts[Row.k].name) = {}

NamesInv == NamesClashUnchecked /\ NameChecks

(* Photos about to be saved are of an event of the student's institution,  *)
(* unless the student was moved or the event taken over.                   *)
UploadsOfOwnInstitution ==
  \A c \in Clerks : At(c, "addPhotos") =>
     LET u == job[c].user  e == job[c].event IN
     /\ u \in DOMAIN db.users /\ e \in DOMAIN db.events
     /\ u \in Rows(db.users) /\ e \in Rows(db.events) =>
          \/ db.events[e].institution = db.users[u].institution
          \/ u \in history.moved \/ e \in history.adopted

PhotosInv == PhotosOfOwnInstitution /\ UploadsOfOwnInstitution

(* An entry that is not stale is of an event of the link's institution     *)
(* that is neither deleted nor about to be.                                *)
Offered(l, e) == Lasting(e, db.links[l].institution)

OffersInv ==
  \A l \in Rows(db.links) : db.links[l].details # Null =>
     \A entry \in db.links[l].details : Offered(l, entry.id) \/ <<l, entry.id>> \in history.stale

-----------------------------------------------------------------------------
(* What a step does to the request of a clerk.                             *)

Began(c) ==
  \/ OpenInstitution(c) \/ BeginDeleteEvent(c)
  \/ BeginCreateProduct(c) \/ BeginUpdateProduct(c) \/ BeginCreateLink(c) \/ OpenLink(c)
  \/ BeginCreateUser(c) \/ BeginUpdateUser(c) \/ BeginUpdateProfile(c)
  \/ BeginDeleteUser(c) \/ BeginAddPhotos(c)

Pending(c) == job'[c] = job[c] /\ (c \in overtaken => c \in overtaken')

Continued(c) ==
  \/ job'[c] = Idle
  \/ StripDeletedEvent(c) /\ job'[c] = [job[c] EXCEPT !.op = "dropEvent"]
  \/ AddPhoto(c) /\ job'[c] = [job[c] EXCEPT !.files = @ - 1]
  \/ Began(c) /\ UNCHANGED <<db, history, seed>>

LEMMA JobWritten ==
  ASSUME TypeOK, NEW c \in Clerks, NEW k \in Clerks, NEW r, job' = [job EXCEPT ![c] = r]
  PROVE  (k = c => job'[k] = r) /\ (k # c => job'[k] = job[k])
  BY DEF TypeOK

LEMMA NextJob ==
  ASSUME TypeOK, Next, NEW k \in Clerks
  PROVE  Pending(k) \/ Continued(k)
<1>1. CASE UNCHANGED <<job, overtaken>>
  BY <1>1 DEF Pending
<1>2. ASSUME NEW c \in Clerks, NEW r, Begin(c, r), UNCHANGED seed, Began(c)
      PROVE  Pending(k) \/ Continued(k)
  BY <1>2, JobWritten DEF Begin, Pending, Continued
<1>3. ASSUME NEW c \in Clerks, Finish(c), \A b \in overtaken : b \in overtaken'
      PROVE  Pending(k) \/ Continued(k)
  BY <1>3, JobWritten DEF Finish, Pending, Continued
<1>4. ASSUME NEW p, NEW c, NameSaved(p, c) PROVE \A b \in overtaken : b \in overtaken'
  BY <1>4 DEF NameSaved
<1>5. ASSUME NEW u, NEW valid, UserSaved(u, valid) PROVE \A b \in overtaken : b \in overtaken'
  BY <1>5 DEF UserSaved
<1>6. CASE InstitutionNext /\ UNCHANGED seed
  <2>1. ASSUME NEW c \in Clerks, StripDeletedEvent(c) PROVE Pending(k) \/ Continued(k)
    <3>1. job' = [job EXCEPT ![c] = [job[c] EXCEPT !.op = "dropEvent"]] /\ UNCHANGED overtaken
      BY <2>1 DEF StripDeletedEvent
    <3> QED BY <2>1, <3>1, JobWritten DEF Pending, Continued
  <2>2. ASSUME NEW c \in Clerks, UpdateInstitution(c) \/ DropEvent(c) \/ Abandon(c)
        PROVE  Pending(k) \/ Continued(k)
    BY <1>3, <2>2 DEF UpdateInstitution, DropEvent, Abandon
  <2>3. ASSUME NEW c \in Clerks, OpenInstitution(c) \/ BeginDeleteEvent(c)
        PROVE  Pending(k) \/ Continued(k)
    BY <1>2, <1>6, <2>3 DEF OpenInstitution, BeginDeleteEvent, Began
  <2> QED
    BY <1>1, <1>6, <2>1, <2>2, <2>3 DEF InstitutionNext, CreateInstitution, MakeUpId, DeleteInstitution, AtOnce
<1>7. CASE ProductNext /\ UNCHANGED seed
  <2>1. ASSUME NEW c \in Clerks, CreateProduct(c) \/ UpdateProduct(c) \/ CreateLink(c) \/ UpdateLink(c)
        PROVE  Pending(k) \/ Continued(k)
    <3>1. Finish(c) /\ \A b \in overtaken : b \in overtaken'
      BY <1>4, <2>1 DEF CreateProduct, UpdateProduct, CreateLink, UpdateLink
    <3> QED BY <1>3, <3>1
  <2>2. ASSUME NEW c \in Clerks,
               BeginCreateProduct(c) \/ BeginUpdateProduct(c) \/ BeginCreateLink(c)
        PROVE  Pending(k) \/ Continued(k)
    BY <1>2, <1>7, <2>2 DEF BeginCreateProduct, BeginUpdateProduct, BeginCreateLink, Began
  <2>3. ASSUME NEW c \in Clerks, OpenLink(c) PROVE Pending(k) \/ Continued(k)
    <3>1. Began(c)
      BY <2>3 DEF Began
    <3> QED BY <1>2, <1>7, <2>3, <3>1 DEF OpenLink
  <2> QED
    BY <1>1, <1>7, <2>1, <2>2, <2>3 DEF ProductNext, DeleteProduct, DeleteLink, AtOnce
<1>8. CASE StudentNext /\ UNCHANGED seed
  <2>1. ASSUME NEW c \in Clerks, CreateUser(c) \/ UpdateUser(c) \/ UpdateProfile(c) \/ DeleteUser(c)
        PROVE  Pending(k) \/ Continued(k)
    <3>1. Finish(c) /\ \A b \in overtaken : b \in overtaken'
      BY <1>5, <2>1 DEF CreateUser, UpdateUser, UpdateProfile, DeleteUser
    <3> QED BY <1>3, <3>1
  <2>2. ASSUME NEW c \in Clerks,
               \/ BeginCreateUser(c) \/ BeginUpdateUser(c) \/ BeginUpdateProfile(c)
               \/ BeginDeleteUser(c) \/ BeginAddPhotos(c)
        PROVE  Pending(k) \/ Continued(k)
    BY <1>2, <1>8, <2>2
    DEF BeginCreateUser, BeginUpdateUser, BeginUpdateProfile, BeginDeleteUser, BeginAddPhotos, Began
  <2>3. ASSUME NEW c \in Clerks, AddPhoto(c) PROVE Pending(k) \/ Continued(k)
    <3>1. CASE Finish(c)
      BY <1>3, <2>3, <3>1 DEF AddPhoto
    <3>2. CASE job' = [job EXCEPT ![c] = IF job[c].files = 1 THEN Idle
                                         ELSE [job[c] EXCEPT !.files = @ - 1]]
      <4>1. overtaken' = overtaken
        BY <2>3 DEF AddPhoto
      <4>2. /\ k = c => job'[k] = IF job[c].files = 1 THEN Idle ELSE [job[c] EXCEPT !.files = @ - 1]
            /\ k # c => job'[k] = job[k]
        <5>1. PICK r : r = IF job[c].files = 1 THEN Idle ELSE [job[c] EXCEPT !.files = @ - 1]
          OBVIOUS
        <5>2. job' = [job EXCEPT ![c] = r]
          BY <3>2, <5>1
        <5>3. (k = c => job'[k] = r) /\ (k # c => job'[k] = job[k])
          BY <5>2, JobWritten
        <5> QED BY <5>1, <5>3
      <4>3. CASE k # c
        BY <4>1, <4>2, <4>3 DEF Pending
      <4>4. CASE k = c /\ job[c].files = 1
        BY <4>2, <4>4 DEF Continued
      <4>5. CASE k = c /\ job[c].files # 1
        BY <2>3, <4>2, <4>5 DEF Continued
      <4> QED BY <4>3, <4>4, <4>5
    <3> QED BY <2>3, <3>1, <3>2 DEF AddPhoto
  <2> QED
    BY <1>1, <1>8, <2>1, <2>2, <2>3 DEF StudentNext, DeletePhoto, SellPhoto, AtOnce
<1>9. CASE SeedNext
  <2>1. k # "seed"
    BY CatalogueAssumption
  <2>2. job' = job /\ (k \in overtaken => k \in overtaken')
    BY <1>9, <2>1 DEF SeedNext, SeedStart, SeedFind, SeedSave, SeedStop, deskVars
  <2> QED BY <2>2 DEF Pending
<1> QED BY <1>6, <1>7, <1>8, <1>9 DEF Next

LEMMA BegunJob == ASSUME TypeOK, NEW c \in Clerks, NEW r, Begin(c, r) PROVE job'[c] = r
  BY JobWritten DEF Begin

LEMMA BeganAs ==
  ASSUME TypeOK, NEW c \in Clerks, Began(c)
  PROVE  /\ job'[c].op \notin {"idle", "dropEvent"}
         /\ job'[c].op = "createProduct" => BeginCreateProduct(c)
         /\ job'[c].op = "updateProduct" => BeginUpdateProduct(c)
         /\ job'[c].op = "updateUser" => BeginUpdateUser(c)
         /\ job'[c].op = "addPhotos" => BeginAddPhotos(c)
<1>1. ASSUME OpenInstitution(c) PROVE job'[c].op = "updateInstitution"
  BY <1>1, BegunJob DEF OpenInstitution
<1>2. ASSUME BeginDeleteEvent(c) PROVE job'[c].op = "stripEvent"
  BY <1>2, BegunJob DEF BeginDeleteEvent
<1>3. ASSUME BeginCreateProduct(c) PROVE job'[c].op = "createProduct"
  BY <1>3, BegunJob DEF BeginCreateProduct
<1>4. ASSUME BeginUpdateProduct(c) PROVE job'[c].op = "updateProduct"
  BY <1>4, BegunJob DEF BeginUpdateProduct
<1>5. ASSUME BeginCreateLink(c) PROVE job'[c].op = "createLink"
  BY <1>5, BegunJob DEF BeginCreateLink
<1>6. ASSUME OpenLink(c) PROVE job'[c].op = "updateLink"
  <2>1. \E l, sent : Begin(c, [op |-> "updateLink", id |-> l, details |-> sent])
    BY <1>6 DEF OpenLink
  <2> QED BY <2>1, BegunJob
<1>7. ASSUME BeginCreateUser(c) PROVE job'[c].op = "createUser"
  BY <1>7, BegunJob DEF BeginCreateUser
<1>8. ASSUME BeginUpdateUser(c) PROVE job'[c].op = "updateUser"
  BY <1>8, BegunJob DEF BeginUpdateUser
<1>9. ASSUME BeginUpdateProfile(c) PROVE job'[c].op = "updateProfile"
  BY <1>9, BegunJob DEF BeginUpdateProfile
<1>10. ASSUME BeginDeleteUser(c) PROVE job'[c].op = "deleteUser"
  BY <1>10, BegunJob DEF BeginDeleteUser
<1>11. ASSUME BeginAddPhotos(c) PROVE job'[c].op = "addPhotos"
  BY <1>11, BegunJob DEF BeginAddPhotos
<1> QED
  BY <1>1, <1>2, <1>3, <1>4, <1>5, <1>6, <1>7, <1>8, <1>9, <1>10, <1>11 DEF Began

LEMMA JobContinued ==
  ASSUME TypeOK, NEW c \in Clerks, Continued(c)
  PROVE  \/ job'[c].op = "idle"
         \/ StripDeletedEvent(c) /\ job'[c].op = "dropEvent" /\ job'[c].id = job[c].id
         \/ /\ AddPhoto(c) /\ At(c, "addPhotos") /\ job'[c].op = "addPhotos"
            /\ job'[c].user = job[c].user /\ job'[c].event = job[c].event
         \/ Began(c) /\ UNCHANGED <<db, history, seed>>
<1>1. CASE job'[c] = Idle
  BY <1>1 DEF Idle
<1>2. CASE StripDeletedEvent(c) /\ job'[c] = [job[c] EXCEPT !.op = "dropEvent"]
  <2>1. job[c] = [op |-> "stripEvent", id |-> job[c].id]
    BY <1>2 DEF StripDeletedEvent, At, TypeOK, Requests, Idle
  <2> QED BY <1>2, <2>1
<1>3. CASE AddPhoto(c) /\ job'[c] = [job[c] EXCEPT !.files = @ - 1]
  <2>1. job[c] \in [op : {"addPhotos"}, user : Nat, event : Nat, files : Nat \ {0}]
    BY <1>3 DEF AddPhoto, At, TypeOK, Requests, Idle
  <2>2. At(c, "addPhotos")
    BY <2>1 DEF At
  <2> QED BY <1>3, <2>1, <2>2
<1> QED BY <1>1, <1>2, <1>3 DEF Continued

-----------------------------------------------------------------------------
(* Identifiers.                                                            *)

SameStudents(K) ==
  \A k \in Rows(db'.users) \ K :
     /\ k \in Rows(db.users)
     /\ db'.users[k].identifier = db.users[k].identifier
     /\ db'.users[k].institution = db.users[k].institution

LEMMA UserChecksKept ==
  ASSUME TypeOK, UserChecks, Next, SameStudents({}) \/ UserCheckers \subseteq overtaken'
  PROVE  UserChecks'
<1> SUFFICES ASSUME NEW c \in Clerks, At(c, "updateUser")', c \notin overtaken'
             PROVE  \A v \in Rows(db'.users) :
                       /\ db'.users[v].identifier = job'[c].row.identifier
                       /\ db'.users[v].institution = job'[c].row.institution
                       => v = job'[c].id
  BY DEF UserChecks, WithIdentifier
<1>1. CASE Pending(c)
  <2>1. job'[c] = job[c] /\ At(c, "updateUser") /\ c \notin overtaken
    BY <1>1 DEF Pending, At
  <2>2. SameStudents({})
    BY <2>1 DEF UserCheckers
  <2> QED BY <2>1, <2>2 DEF SameStudents, UserChecks, WithIdentifier
<1>2. CASE Continued(c)
  <2>1. BeginUpdateUser(c) /\ db' = db
    BY <1>2, JobContinued, BeganAs DEF At
  <2>2. PICK u \in Rows(db.users), i \in Rows(db.institutions), email \in Emails,
             identifier \in Identifiers, status \in Statuses :
           /\ WithIdentifier(db, identifier, i) \subseteq {u}
           /\ Begin(c, [op |-> "updateUser", id |-> u, row |-> [institution |-> i, email |-> email,
                                                 identifier |-> identifier, status |-> status]])
    BY <2>1 DEF BeginUpdateUser
  <2>3. /\ job'[c].id = u /\ job'[c].row.identifier = identifier
        /\ job'[c].row.institution = i
    BY <2>2, BegunJob
  <2> QED BY <2>1, <2>2, <2>3 DEF WithIdentifier
<1> QED BY <1>1, <1>2, NextJob

LEMMA IdentifiersKept ==
  ASSUME IdentifiersClashUnchecked, SameStudents({}), history'.users = history.users
  PROVE  IdentifiersClashUnchecked'
  BY DEF IdentifiersClashUnchecked, SameStudents

LEMMA IdentifiersJudged ==
  ASSUME IdentifiersClashUnchecked, NEW u, NEW checked, SameStudents({u}),
         history'.users = Judged(history.users, u, db.users, checked),
         checked => \A k \in Rows(db'.users) \ {u} :
                       ~ /\ db'.users[k].identifier = db'.users[u].identifier
                         /\ db'.users[k].institution = db'.users[u].institution
  PROVE  IdentifiersClashUnchecked'
<1> SUFFICES ASSUME NEW v \in Rows(db'.users), NEW w \in Rows(db'.users), v # w,
                    db'.users[v].institution = db'.users[w].institution,
                    db'.users[v].identifier = db'.users[w].identifier
             PROVE  <<v, w>> \in history'.users \/ <<w, v>> \in history'.users
  BY DEF IdentifiersClashUnchecked
<1>1. CASE v # u /\ w # u
  <2>1. <<v, w>> \in history.users \/ <<w, v>> \in history.users
    BY <1>1 DEF IdentifiersClashUnchecked, SameStudents
  <2> QED BY <1>1, <2>1 DEF Judged
<1>2. CASE v = u
  <2>1. ~checked /\ w \in Rows(db.users)
    BY <1>2 DEF SameStudents
  <2> QED BY <1>2, <2>1 DEF Judged
<1>3. CASE w = u
  <2>1. ~checked /\ v \in Rows(db.users)
    BY <1>3 DEF SameStudents
  <2> QED BY <1>3, <2>1 DEF Judged
<1> QED BY <1>1, <1>2, <1>3

LEMMA CascadeKeepsStudents ==
  ASSUME TypeOK, NEW is, NEW us, NEW ps, db' = Without(db, is, us, ps) PROVE SameStudents({})
<1>1. db.users \in Table(UserRows) /\ Gone \notin UserRows /\ db'.users = Erase(db.users, UsersLost(db, is, us))
  BY SoundTables, GoneIsNoRow DEF Without
<1>2. /\ Rows(db'.users) = Rows(db.users) \ UsersLost(db, is, us)
      /\ \A k \in Rows(db.users) \ UsersLost(db, is, us) : db'.users[k] = db.users[k]
  BY <1>1, RowsErased
<1> QED BY <1>2 DEF SameStudents

LEMMA AddedStudent ==
  ASSUME TypeOK, NEW x \in UserRows, db'.users = Append(db.users, x)
  PROVE  SameStudents({NextId(db.users)})
<1>1. db.users \in Table(UserRows) /\ Gone \notin UserRows
  BY SoundTables, GoneIsNoRow
<1>2. /\ Rows(db'.users) = Rows(db.users) \cup {NextId(db.users)}
      /\ \A k \in DOMAIN db.users : db'.users[k] = db.users[k]
  BY <1>1, RowInserted
<1>3. Rows(db.users) \subseteq DOMAIN db.users
  BY DEF Rows
<1> QED BY <1>2, <1>3 DEF SameStudents

LEMMA WrittenStudent ==
  ASSUME TypeOK, NEW u \in Rows(db.users), NEW x \in UserRows, db'.users = [db.users EXCEPT ![u] = x]
  PROVE  SameStudents({u}) /\ db'.users[u] = x /\ Rows(db'.users) = Rows(db.users)
<1>1. db.users \in Table(UserRows) /\ Gone \notin UserRows
  BY SoundTables, GoneIsNoRow
<1>2. /\ Rows(db'.users) = Rows(db.users) /\ db'.users[u] = x
      /\ \A k \in DOMAIN db.users \ {u} : db'.users[k] = db.users[k]
      /\ Rows(db.users) \subseteq DOMAIN db.users
  BY <1>1, RowChanged, RowsOfTable
<1> QED BY <1>2 DEF SameStudents

LEMMA IdentifiersStay ==
  ASSUME TypeOK, IdentifiersInv, Next, SameStudents({}), history'.users = history.users
  PROVE  IdentifiersInv'
  BY UserChecksKept, IdentifiersKept DEF IdentifiersInv

LEMMA IdentifiersSaved ==
  ASSUME TypeOK, IdentifiersInv, Next, NEW u, NEW checked, SameStudents({u}),
         UserCheckers \subseteq overtaken',
         history'.users = Judged(history.users, u, db.users, checked),
         checked => \A k \in Rows(db'.users) \ {u} :
                       ~ /\ db'.users[k].identifier = db'.users[u].identifier
                         /\ db'.users[k].institution = db'.users[u].institution
  PROVE  IdentifiersInv'
  BY UserChecksKept, IdentifiersJudged DEF IdentifiersInv

LEMMA CreateUserIdentifiers ==
  ASSUME TypeOK, IdentifiersInv, Next, NEW c \in Clerks, CreateUser(c) PROVE IdentifiersInv'
<1> DEFINE u == NextId(db.users)
<1>1. CASE UserFits(db, u, job[c].row)
  <2>1. db' = [db EXCEPT !.users = Append(@, job[c].row)] /\ UserSaved(u, FALSE)
    BY <1>1 DEF CreateUser
  <2>2. job[c].row \in UserRows
    BY DEF CreateUser, At, TypeOK, Requests, Idle
  <2>3. db'.users = Append(db.users, job[c].row)
    BY <2>1, SoundTables DEF Tables
  <2>4. SameStudents({u})
    BY <2>2, <2>3, AddedStudent
  <2>5. UserCheckers \subseteq overtaken' /\ history'.users = Judged(history.users, u, db.users, FALSE)
    BY <2>1 DEF UserSaved, TypeOK, Histories
  <2> HIDE DEF u
  <2> QED BY <2>4, <2>5, IdentifiersSaved
<1>2. CASE ~UserFits(db, u, job[c].row)
  BY <1>2, IdentifiersStay DEF CreateUser, SameStudents
<1> QED BY <1>1, <1>2

LEMMA UpdateUserIdentifiers ==
  ASSUME TypeOK, IdentifiersInv, Next, NEW c \in Clerks, UpdateUser(c) PROVE IdentifiersInv'
<1> DEFINE u == job[c].id
           row == job[c].row
<1>1. CASE u \in Rows(db.users) /\ UserFits(db, u, row)
  <2>1. db' = [db EXCEPT !.users[u] = row] /\ UserSaved(u, c \notin overtaken) /\ At(c, "updateUser")
    BY <1>1 DEF UpdateUser
  <2>2. row \in UserRows
    BY DEF UpdateUser, At, TypeOK, Requests, Idle
  <2>3. db'.users = [db.users EXCEPT ![u] = row]
    BY <2>1, SoundTables DEF Tables
  <2> HIDE DEF u, row
  <2>4. SameStudents({u}) /\ db'.users[u] = row
    BY <1>1, <2>2, <2>3, WrittenStudent
  <2>5. /\ UserCheckers \subseteq overtaken'
        /\ history'.users = Judged(history.users, u, db.users, c \notin overtaken)
    BY <2>1 DEF UserSaved, TypeOK, Histories
  <2>6. ASSUME c \notin overtaken, NEW k \in Rows(db'.users) \ {u}
        PROVE  ~ /\ db'.users[k].identifier = db'.users[u].identifier
                 /\ db'.users[k].institution = db'.users[u].institution
    <3>1. WithIdentifier(db, row.identifier, row.institution) \subseteq {u}
      BY <2>1, <2>6 DEF IdentifiersInv, UserChecks, u, row
    <3> QED BY <2>4, <3>1 DEF SameStudents, WithIdentifier
  <2> QED BY <2>4, <2>5, <2>6, IdentifiersSaved
<1>2. CASE ~(u \in Rows(db.users) /\ UserFits(db, u, row))
  BY <1>2, IdentifiersStay DEF UpdateUser, SameStudents
<1> QED BY <1>1, <1>2

LEMMA UpdateProfileStudents ==
  ASSUME TypeOK, NEW c \in Clerks, UpdateProfile(c) PROVE SameStudents({})
<1> DEFINE u == job[c].id
           x == [db.users[u] EXCEPT !.email = job[c].email]
<1>1. CASE db' = db
  BY <1>1 DEF SameStudents
<1>2. CASE u \in Rows(db.users) /\ db' = [db EXCEPT !.users[u].email = job[c].email]
  <2>1. db.users[u] \in UserRows /\ job[c].email \in Emails
    BY <1>2, RowsAreTyped DEF UpdateProfile, At, TypeOK, Requests, Idle
  <2>2. x \in UserRows /\ x.identifier = db.users[u].identifier /\ x.institution = db.users[u].institution
    BY <2>1 DEF UserRows
  <2>3. db'.users = [db.users EXCEPT ![u] = x]
    BY <1>2, SoundTables DEF Tables
  <2> HIDE DEF x
  <2>4. SameStudents({u}) /\ db'.users[u] = x
    BY <1>2, <2>2, <2>3, WrittenStudent
  <2> QED BY <1>2, <2>2, <2>4 DEF SameStudents
<1> QED BY <1>1, <1>2 DEF UpdateProfile

StudentsUntouched ==
  SameStudents({}) /\ history'.users = history.users /\ history'.moved = history.moved

SeedWrites ==
  /\ SeedSave /\ SeedFits /\ db' = [db EXCEPT ![Row.table] = Append(@, NewRow)]
  /\ history' = SeedHistory(NextId(db[Row.table]))
  /\ overtaken' = overtaken \cup (CASE Row.table = "users" -> UserCheckers
                                   [] Row.table = "products" -> ProductCheckers
                                   [] OTHER -> {})

LEMMA SeedWritesOrNot == ASSUME SeedNext PROVE SeedWrites \/ UNCHANGED <<db, history>>
  BY DEF SeedNext, SeedStart, SeedFind, SeedSave, SeedStop, deskVars, SeedWrites

(* Who writes students: two of the administrator's requests and the        *)
(* script.                                                                 *)
LEMMA NextStudents ==
  ASSUME TypeOK, Next
  PROVE  \/ StudentsUntouched
         \/ \E c \in Clerks : CreateUser(c) \/ UpdateUser(c)
         \/ SeedWrites /\ Row.table = "users"
<1>1. ASSUME db'.users = db.users, history'.users = history.users, history'.moved = history.moved
      PROVE  StudentsUntouched
  BY <1>1 DEF StudentsUntouched, SameStudents
<1>2. CASE InstitutionNext
  <2>1. history'.users = history.users /\ history'.moved = history.moved
    BY <1>2 DEF InstitutionNext, CreateInstitution, MakeUpId, DeleteInstitution, OpenInstitution,
      UpdateInstitution, BeginDeleteEvent, StripDeletedEvent, DropEvent, Abandon, Begin, TypeOK, Histories
  <2>2. CASE DeleteInstitution
    BY <2>1, <2>2, CascadeKeepsStudents DEF DeleteInstitution, StudentsUntouched
  <2>3. CASE CreateInstitution \/ MakeUpId
    BY <1>1, <2>1, <2>3, SoundTables DEF CreateInstitution, MakeUpId, Tables
  <2>4. ASSUME NEW c \in Clerks, OpenInstitution(c) \/ BeginDeleteEvent(c) \/ Abandon(c)
        PROVE  db' = db
    BY <2>4 DEF OpenInstitution, BeginDeleteEvent, Abandon, Begin
  <2>5. ASSUME NEW c \in Clerks, UpdateInstitution(c) \/ StripDeletedEvent(c) \/ DropEvent(c)
        PROVE  db'.users = db.users
    BY <2>5, SoundTables DEF UpdateInstitution, StripDeletedEvent, StripEvent, DropEvent, Tables
  <2> QED BY <1>1, <1>2, <2>1, <2>2, <2>3, <2>4, <2>5 DEF InstitutionNext
<1>3. CASE ProductNext
  <2>1. history'.users = history.users /\ history'.moved = history.moved
    BY <1>3 DEF ProductNext, DeleteProduct, DeleteLink, BeginCreateProduct, CreateProduct, BeginUpdateProduct,
      UpdateProduct, NameSaved, BeginCreateLink, CreateLink, OpenLink, UpdateLink, Begin, TypeOK, Histories
  <2>2. CASE DeleteProduct
    BY <2>1, <2>2, CascadeKeepsStudents DEF DeleteProduct, StudentsUntouched
  <2>3. ASSUME NEW c \in Clerks,
               BeginCreateProduct(c) \/ BeginUpdateProduct(c) \/ BeginCreateLink(c) \/ OpenLink(c)
        PROVE  db' = db
    BY <2>3 DEF BeginCreateProduct, BeginUpdateProduct, BeginCreateLink, OpenLink, Begin
  <2>4. ASSUME NEW c \in Clerks, CreateProduct(c) \/ UpdateProduct(c) \/ CreateLink(c) \/ UpdateLink(c)
        PROVE  db'.users = db.users
    BY <2>4, SoundTables DEF CreateProduct, UpdateProduct, CreateLink, UpdateLink, Tables
  <2>5. CASE DeleteLink
    BY <1>1, <2>1, <2>5, SoundTables DEF DeleteLink, Tables
  <2> QED BY <1>1, <1>3, <2>1, <2>2, <2>3, <2>4, <2>5 DEF ProductNext
<1>4. CASE StudentNext
  <2>1. ASSUME NEW c \in Clerks,
               \/ BeginCreateUser(c) \/ BeginUpdateUser(c) \/ BeginUpdateProfile(c)
               \/ BeginDeleteUser(c) \/ BeginAddPhotos(c)
        PROVE  db' = db /\ history' = history
    BY <2>1 DEF BeginCreateUser, BeginUpdateUser, BeginUpdateProfile, BeginDeleteUser, BeginAddPhotos, Begin
  <2>2. ASSUME NEW c \in Clerks, UpdateProfile(c) PROVE StudentsUntouched
    BY <2>2, UpdateProfileStudents DEF UpdateProfile, StudentsUntouched
  <2>3. ASSUME NEW c \in Clerks, DeleteUser(c) PROVE StudentsUntouched
    BY <2>3, CascadeKeepsStudents DEF DeleteUser, SameStudents, StudentsUntouched
  <2>4. ASSUME NEW c \in Clerks, AddPhoto(c) PROVE StudentsUntouched
    BY <1>1, <2>4, SoundTables DEF AddPhoto, Tables
  <2>5. CASE DeletePhoto \/ SellPhoto
    BY <1>1, <2>5, SoundTables DEF DeletePhoto, SellPhoto, Tables
  <2> QED BY <1>1, <1>4, <2>1, <2>2, <2>3, <2>4, <2>5 DEF StudentNext
<1>5. CASE SeedNext
  <2>1. CASE db' = db /\ history' = history
    BY <1>1, <2>1
  <2>2. CASE SeedWrites /\ Row.table # "users"
    <3>1. Row.table \in SeedKinds
      BY <2>2, SeedAtRow DEF SeedSave, SeedWrites
    <3>2. db'.users = db.users
      BY <2>2, <3>1, SoundTables DEF Tables, SeedKinds, SeedWrites
    <3>3. history'.users = history.users /\ history'.moved = history.moved
      BY <2>2 DEF SeedHistory, TypeOK, Histories, SeedWrites
    <3> QED BY <1>1, <3>2, <3>3
  <2> QED BY <1>5, <2>1, <2>2, SeedWritesOrNot
<1> QED BY <1>2, <1>3, <1>4, <1>5 DEF Next

LEMMA SeededStudent ==
  ASSUME TypeOK, SeedWrites, Row.table = "users"
  PROVE  /\ SameStudents({NextId(db.users)})
         /\ UserCheckers \subseteq overtaken'
         /\ history'.users = Judged(history.users, NextId(db.users), db.users, FALSE)
         /\ history'.moved = history.moved
<1>1. Row.k \in DOMAIN SeedUsers /\ SeedInstitution \in Nat
  BY SeedAtRow DEF SeedInstitution, SeedWrites, SeedSave
<1>2. SeedUsers[Row.k] \in [email : Emails, identifier : Identifiers]
  BY <1>1, SeedRowsTyped, Zenon
<1>3. NewRow \in UserRows
  BY <1>1, <1>2 DEF NewRow, UserRows, Statuses
<1>4. db'.users = Append(db.users, NewRow)
  BY SoundTables DEF Tables, SeedWrites
<1>5. SameStudents({NextId(db.users)})
  BY <1>3, <1>4, AddedStudent
<1>6. /\ UserCheckers \subseteq overtaken'
      /\ history'.users = Judged(history.users, NextId(db.users), db.users, FALSE)
      /\ history'.moved = history.moved
  BY DEF SeedHistory, TypeOK, Histories, SeedWrites
<1> QED BY <1>5, <1>6

LEMMA NextIdentifiers == ASSUME TypeOK, IdentifiersInv, Next PROVE IdentifiersInv'
<1>1. CASE StudentsUntouched
  BY <1>1, IdentifiersStay DEF StudentsUntouched
<1>2. CASE SeedWrites /\ Row.table = "users"
  BY <1>2, SeededStudent, IdentifiersSaved
<1> QED BY <1>1, <1>2, NextStudents, CreateUserIdentifiers, UpdateUserIdentifiers

(* Two students of one institution come to share an identifier only where  *)
(* nothing checks it: when the later of them is created, or when another   *)
(* student is saved between the check of an update and its write.          *)
THEOREM IdentifiersClash == Spec => []IdentifiersClashUnchecked
<1>1. Init => IdentifiersInv
  <2>1. Rows(<< >>) = {}
    BY DEF Rows
  <2> QED
    BY <2>1 DEF Init, DeskInit, EmptyDb, Idle, At, IdentifiersInv, IdentifiersClashUnchecked, UserChecks
<1>2. TypeOK /\ IdentifiersInv /\ [Next]_vars => IdentifiersInv'
  <2>1. CASE UNCHANGED vars
    BY <2>1 DEF vars, deskVars, IdentifiersInv, IdentifiersClashUnchecked, UserChecks, At, WithIdentifier
  <2> QED BY <2>1, NextIdentifiers
<1>3. IdentifiersInv => IdentifiersClashUnchecked
  BY DEF IdentifiersInv
<1> QED BY <1>1, <1>2, <1>3, CatalogueTyped, PTL DEF Spec

-----------------------------------------------------------------------------
(* Product names.                                                          *)

SameNames(K) ==
  \A k \in Rows(db'.products) \ K :
     k \in Rows(db.products) /\ db'.products[k].name = db.products[k].name

ClerkNameChecks ==
  /\ \A c \in Clerks : At(c, "createProduct") /\ c \notin overtaken => Named(db, job[c].name) = {}
  /\ \A c \in Clerks : At(c, "updateProduct") /\ c \notin overtaken /\ job[c].alone =>
        Named(db, job[c].name) \subseteq {job[c].id}

SeedNameCheck ==
  seed.at > 0 /\ seed.missing /\ Row.table = "products" /\ "seed" \notin overtaken =>
     Named(db, SeedProducts[Row.k].name) = {}

LEMMA ClerkNameChecksKept ==
  ASSUME TypeOK, NameChecks, Next, SameNames({}) \/ ProductCheckers \subseteq overtaken'
  PROVE  ClerkNameChecks'
<1>1. ASSUME NEW c \in Clerks, At(c, "createProduct")', c \notin overtaken', NEW p \in Rows(db'.products)
      PROVE  db'.products[p].name # job'[c].name
  <2>1. CASE Pending(c)
    <3>1. job'[c] = job[c] /\ At(c, "createProduct") /\ c \notin overtaken
      BY <1>1, <2>1 DEF Pending, At
    <3>2. SameNames({})
      BY <1>1, <3>1 DEF ProductCheckers, At
    <3> QED BY <3>1, <3>2 DEF SameNames, NameChecks, Named
  <2>2. CASE Continued(c)
    <3>1. BeginCreateProduct(c) /\ db' = db
      BY <1>1, <2>2, JobContinued, BeganAs DEF At
    <3>2. PICK name \in ProductNames, flag \in ShopFlags :
             /\ Named(db, name) = {}
             /\ Begin(c, [op |-> "createProduct", name |-> name, flag |-> flag, alone |-> TRUE])
      BY <3>1 DEF BeginCreateProduct
    <3>3. job'[c].name = name
      BY <3>2, BegunJob
    <3> QED BY <3>1, <3>2, <3>3 DEF Named
  <2> QED BY <2>1, <2>2, NextJob
<1>2. ASSUME NEW c \in Clerks, At(c, "updateProduct")', c \notin overtaken', job'[c].alone,
             NEW p \in Rows(db'.products), db'.products[p].name = job'[c].name
      PROVE  p = job'[c].id
  <2>1. CASE Pending(c)
    <3>1. job'[c] = job[c] /\ At(c, "updateProduct") /\ c \notin overtaken
      BY <1>2, <2>1 DEF Pending, At
    <3>2. SameNames({})
      BY <1>2, <3>1 DEF ProductCheckers, At
    <3>3. p \in Named(db, job[c].name)
      BY <1>2, <3>1, <3>2 DEF SameNames, Named
    <3> QED BY <1>2, <3>1, <3>3 DEF NameChecks
  <2>2. CASE Continued(c)
    <3>1. BeginUpdateProduct(c) /\ db' = db
      BY <1>2, <2>2, JobContinued, BeganAs DEF At
    <3>2. PICK q \in Rows(db.products), name \in ProductNames :
             Begin(c, [op |-> "updateProduct", id |-> q, name |-> name,
                       alone |-> Named(db, name) \subseteq {q}])
      BY <3>1 DEF BeginUpdateProduct
    <3>3. job'[c] = [op |-> "updateProduct", id |-> q, name |-> name, alone |-> Named(db, name) \subseteq {q}]
      BY <3>2, BegunJob
    <3>4. Named(db, name) \subseteq {q} /\ job'[c].id = q /\ job'[c].name = name
      <4>1. PICK b : b = (Named(db, name) \subseteq {q})
        OBVIOUS
      <4>2. job'[c] = [op |-> "updateProduct", id |-> q, name |-> name, alone |-> b]
        BY <3>3, <4>1, Zenon
      <4>3. job'[c].id = q /\ job'[c].name = name /\ job'[c].alone = b
        BY <4>2
      <4> QED BY <1>2, <4>1, <4>3, Zenon
    <3> QED BY <1>2, <3>1, <3>4 DEF Named
  <2> QED BY <2>1, <2>2, NextJob
<1>3. \A c \in Clerks : At(c, "createProduct")' /\ c \notin overtaken' => Named(db', job'[c].name) = {}
  BY <1>1 DEF Named
<1>4. \A c \in Clerks : At(c, "updateProduct")' /\ c \notin overtaken' /\ job'[c].alone =>
         Named(db', job'[c].name) \subseteq {job'[c].id}
  BY <1>2 DEF Named
<1> QED BY <1>3, <1>4 DEF ClerkNameChecks

(* The mark that other products were saved since the script's check goes   *)
(* away with the next check only.                                          *)
LEMMA SeedMarkStays ==
  ASSUME TypeOK, InstitutionNext \/ ProductNext \/ StudentNext, "seed" \in overtaken
  PROVE  "seed" \in overtaken'
<1>1. ASSUME NEW c \in Clerks, NEW r, Begin(c, r) PROVE "seed" \in overtaken'
  BY <1>1, CatalogueAssumption DEF Begin
<1>2. CASE UNCHANGED overtaken
  BY <1>2
<1>3. CASE InstitutionNext
  BY <1>1, <1>2, <1>3 DEF InstitutionNext, CreateInstitution, MakeUpId, DeleteInstitution, OpenInstitution,
     UpdateInstitution, BeginDeleteEvent, StripDeletedEvent, DropEvent, Abandon
<1>4. CASE ProductNext
  <2>1. ASSUME NEW c \in Clerks, OpenLink(c) PROVE "seed" \in overtaken'
    <3>1. \E r : Begin(c, r)
      BY <2>1 DEF OpenLink
    <3> QED BY <1>1, <3>1
  <2>2. ASSUME NEW c \in Clerks, CreateProduct(c) \/ UpdateProduct(c) PROVE "seed" \in overtaken'
    BY <2>2 DEF CreateProduct, UpdateProduct, NameSaved
  <2> QED
    BY <1>1, <1>2, <1>4, <2>1, <2>2 DEF ProductNext, DeleteProduct, DeleteLink, BeginCreateProduct,
       BeginUpdateProduct, BeginCreateLink, CreateLink, UpdateLink
<1>5. CASE StudentNext
  <2>1. ASSUME NEW c \in Clerks, CreateUser(c) \/ UpdateUser(c) PROVE "seed" \in overtaken'
    BY <2>1 DEF CreateUser, UpdateUser, UserSaved
  <2> QED
    BY <1>1, <1>2, <1>5, <2>1 DEF StudentNext, DeletePhoto, SellPhoto, BeginCreateUser, BeginUpdateUser,
       BeginUpdateProfile, UpdateProfile, BeginDeleteUser, DeleteUser, BeginAddPhotos, AddPhoto
<1> QED BY <1>3, <1>4, <1>5

LEMMA SeedNameCheckKept ==
  ASSUME TypeOK, NameChecks, Next,
         SeedNext \/ SameNames({}) \/ ProductCheckers \subseteq overtaken'
  PROVE  SeedNameCheck'
<1> SUFFICES ASSUME seed'.at > 0, seed'.missing, Row'.table = "products", "seed" \notin overtaken'
             PROVE  \A p \in Rows(db'.products) : db'.products[p].name # SeedProducts[Row'.k].name
  BY DEF SeedNameCheck, Named
<1>1. CASE SeedNext
  <2>1. ASSUME NEW id, Advance(id) PROVE FALSE
    BY <2>1 DEF Advance, Ended, TypeOK
  <2>2. CASE SeedFind
    <3>1. Found = {} /\ seed' = [seed EXCEPT !.missing = TRUE] /\ db' = db /\ seed.at > 0
      BY <2>1, <2>2 DEF SeedFind
    <3>2. seed'.at = seed.at
      BY <3>1 DEF TypeOK
    <3>3. Row' = Row
      BY <3>2 DEF Row
    <3>4. Named(db, SeedProducts[Row.k].name) = {}
      BY <3>1, <3>3 DEF Found
    <3> QED BY <3>1, <3>3, <3>4 DEF Named
  <2>3. CASE SeedStart
    <3>1. seed'.at = 1
      BY <2>3 DEF SeedStart, TypeOK
    <3>2. Row'.table = "institutions"
      BY <3>1, SeedRowsPlaced DEF Row
    <3> QED BY <3>2
  <2>4. CASE SeedSave \/ SeedStop
    BY <2>1, <2>4 DEF SeedSave, SeedStop, Ended
  <2> QED BY <1>1, <2>2, <2>3, <2>4 DEF SeedNext
<1>2. CASE ~SeedNext
  <2>1. seed' = seed /\ "seed" \notin overtaken
    BY <1>2, SeedMarkStays DEF Next
  <2>2. Row' = Row
    BY <2>1 DEF Row
  <2>3. SameNames({})
    BY <1>2 DEF ProductCheckers
  <2> QED BY <2>1, <2>2, <2>3 DEF NameChecks, SameNames, Named
<1> QED BY <1>1, <1>2

LEMMA NameChecksKept ==
  ASSUME TypeOK, NameChecks, Next, SameNames({}) \/ ProductCheckers \subseteq overtaken'
  PROVE  NameChecks'
  BY ClerkNameChecksKept, SeedNameCheckKept DEF NameChecks, ClerkNameChecks, SeedNameCheck

LEMMA NamesStay ==
  ASSUME TypeOK, NamesInv, Next, SameNames({}), history'.products = history.products
  PROVE  NamesInv'
<1>1. NamesClashUnchecked'
  BY DEF NamesInv, NamesClashUnchecked, SameNames
<1> QED BY <1>1, NameChecksKept DEF NamesInv

LEMMA NamesSaved ==
  ASSUME TypeOK, NamesInv, Next, NEW p, NEW checked, SameNames({p}), ProductCheckers \subseteq overtaken',
         history'.products = Judged(history.products, p, db.products, checked),
         checked => \A k \in Rows(db'.products) \ {p} : db'.products[k].name # db'.products[p].name
  PROVE  NamesInv'
<1>1. ASSUME NEW v \in Rows(db'.products), NEW w \in Rows(db'.products), v # w,
             db'.products[v].name = db'.products[w].name
      PROVE  <<v, w>> \in history'.products \/ <<w, v>> \in history'.products
  <2>1. CASE v # p /\ w # p
    <3>1. <<v, w>> \in history.products \/ <<w, v>> \in history.products
      BY <1>1, <2>1 DEF NamesInv, NamesClashUnchecked, SameNames
    <3> QED BY <2>1, <3>1 DEF Judged
  <2>2. CASE v = p
    <3>1. ~checked /\ w \in Rows(db.products)
      BY <1>1, <2>2 DEF SameNames
    <3> QED BY <2>2, <3>1 DEF Judged
  <2>3. CASE w = p
    <3>1. ~checked /\ v \in Rows(db.products)
      BY <1>1, <2>3 DEF SameNames
    <3> QED BY <2>3, <3>1 DEF Judged
  <2> QED BY <2>1, <2>2, <2>3
<1>2. NamesClashUnchecked'
  BY <1>1 DEF NamesClashUnchecked
<1> QED BY <1>2, NameChecksKept DEF NamesInv

LEMMA CascadeKeepsNames ==
  ASSUME TypeOK, NEW is, NEW us, NEW ps, db' = Without(db, is, us, ps) PROVE SameNames({})
<1>1. db.products \in Table(ProductRows) /\ Gone \notin ProductRows /\ db'.products = Erase(db.products, ps)
  BY SoundTables, GoneIsNoRow DEF Without
<1>2. /\ Rows(db'.products) = Rows(db.products) \ ps
      /\ \A k \in Rows(db.products) \ ps : db'.products[k] = db.products[k]
  BY <1>1, RowsErased
<1> QED BY <1>2 DEF SameNames

LEMMA AddedProduct ==
  ASSUME TypeOK, NEW x \in ProductRows, db'.products = Append(db.products, x)
  PROVE  SameNames({NextId(db.products)}) /\ db'.products[NextId(db.products)] = x
<1>1. db.products \in Table(ProductRows) /\ Gone \notin ProductRows
  BY SoundTables, GoneIsNoRow
<1>2. /\ Rows(db'.products) = Rows(db.products) \cup {NextId(db.products)}
      /\ \A k \in DOMAIN db.products : db'.products[k] = db.products[k]
      /\ db'.products[NextId(db.products)] = x
  BY <1>1, RowInserted
<1>3. Rows(db.products) \subseteq DOMAIN db.products
  BY DEF Rows
<1> QED BY <1>2, <1>3 DEF SameNames

LEMMA CreateProductNames ==
  ASSUME TypeOK, NamesInv, Next, NEW c \in Clerks, CreateProduct(c) PROVE NamesInv'
<1> DEFINE p == NextId(db.products)
           name == job[c].name
           x == [name |-> Trim[name], flag |-> job[c].flag]
           checked == job[c].alone /\ c \notin overtaken /\ Trim[name] = name
<1>1. name \in ProductNames /\ job[c].flag \in ShopFlags
  BY DEF CreateProduct, At, TypeOK, Requests, Idle
<1>2. x \in ProductRows /\ x.name = Trim[name]
  BY <1>1, TrimAssumption DEF ProductRows
<1>3. db'.products = Append(db.products, x)
  BY CreateProductFollows
<1> HIDE DEF x
<1>4. SameNames({p}) /\ db'.products[p] = x
  BY <1>2, <1>3, AddedProduct
<1>5. /\ ProductCheckers \subseteq overtaken'
      /\ history'.products = Judged(history.products, p, db.products, checked)
  BY DEF CreateProduct, NameSaved, TypeOK, Histories
<1>6. ASSUME checked, NEW k \in Rows(db'.products) \ {p}
      PROVE  db'.products[k].name # db'.products[p].name
  <2>1. Named(db, name) = {} /\ Trim[name] = name
    BY <1>6 DEF CreateProduct, NamesInv, NameChecks
  <2> QED BY <1>2, <1>4, <2>1 DEF SameNames, Named
<1> HIDE DEF p, checked
<1> QED BY <1>4, <1>5, <1>6, NamesSaved

LEMMA UpdateProductNames ==
  ASSUME TypeOK, NamesInv, Next, NEW c \in Clerks, UpdateProduct(c) PROVE NamesInv'
<1> DEFINE p == job[c].id
           name == job[c].name
           x == [db.products[p] EXCEPT !.name = Trim[name]]
           checked == job[c].alone /\ c \notin overtaken /\ Trim[name] = name
<1>1. CASE p \notin Rows(db.products)
  BY <1>1, NamesStay DEF UpdateProduct, SameNames
<1>2. CASE p \in Rows(db.products)
  <2>1. name \in ProductNames /\ db.products[p] \in ProductRows /\ At(c, "updateProduct")
    BY <1>2, RowsAreTyped DEF UpdateProduct, At, TypeOK, Requests, Idle
  <2>2. x \in ProductRows /\ x.name = Trim[name]
    BY <2>1, TrimAssumption DEF ProductRows
  <2>3. db'.products = [db.products EXCEPT ![p] = x] /\ NameSaved(p, c)
    BY <1>2, SoundTables DEF UpdateProduct, Tables
  <2> HIDE DEF x
  <2>4. db.products \in Table(ProductRows) /\ Gone \notin ProductRows
    BY SoundTables, GoneIsNoRow
  <2>5. /\ Rows(db'.products) = Rows(db.products) /\ db'.products[p] = x
        /\ \A k \in DOMAIN db.products \ {p} : db'.products[k] = db.products[k]
    BY <1>2, <2>2, <2>3, <2>4, RowChanged
  <2>6. SameNames({p})
    BY <2>5 DEF SameNames, Rows
  <2>7. /\ ProductCheckers \subseteq overtaken'
        /\ history'.products = Judged(history.products, p, db.products, checked)
    BY <2>3 DEF NameSaved, TypeOK, Histories
  <2>8. ASSUME checked, NEW k \in Rows(db'.products) \ {p}
        PROVE  db'.products[k].name # db'.products[p].name
    <3>1. Named(db, name) \subseteq {p} /\ Trim[name] = name
      BY <2>1, <2>8 DEF NamesInv, NameChecks
    <3> QED BY <2>2, <2>5, <2>6, <2>8, <3>1 DEF SameNames, Named
  <2> HIDE DEF p, checked
  <2> QED BY <2>6, <2>7, <2>8, NamesSaved
<1> QED BY <1>1, <1>2

LEMMA NextNames == ASSUME TypeOK, NamesInv, Next PROVE NamesInv'
<1>1. ASSUME db'.products = db.products, history'.products = history.products PROVE NamesInv'
  BY <1>1, NamesStay DEF SameNames
<1>2. CASE InstitutionNext
  <2>1. history'.products = history.products
    BY <1>2 DEF InstitutionNext, CreateInstitution, MakeUpId, DeleteInstitution, OpenInstitution,
      UpdateInstitution, BeginDeleteEvent, StripDeletedEvent, DropEvent, Abandon, Begin, TypeOK, Histories
  <2>2. CASE DeleteInstitution
    BY <2>1, <2>2, CascadeKeepsNames, NamesStay DEF DeleteInstitution
  <2>3. CASE CreateInstitution \/ MakeUpId
    BY <1>1, <2>1, <2>3, SoundTables DEF CreateInstitution, MakeUpId, Tables
  <2>4. ASSUME NEW c \in Clerks, OpenInstitution(c) \/ BeginDeleteEvent(c) \/ Abandon(c)
        PROVE  db' = db
    BY <2>4 DEF OpenInstitution, BeginDeleteEvent, Abandon, Begin
  <2>5. ASSUME NEW c \in Clerks, UpdateInstitution(c) \/ StripDeletedEvent(c) \/ DropEvent(c)
        PROVE  db'.products = db.products
    BY <2>5, SoundTables DEF UpdateInstitution, StripDeletedEvent, StripEvent, DropEvent, Tables
  <2> QED BY <1>1, <1>2, <2>1, <2>2, <2>3, <2>4, <2>5 DEF InstitutionNext
<1>3. CASE ProductNext
  <2>1. CASE DeleteProduct
    BY <2>1, CascadeKeepsNames, NamesStay DEF DeleteProduct
  <2>2. ASSUME NEW c \in Clerks,
               BeginCreateProduct(c) \/ BeginUpdateProduct(c) \/ BeginCreateLink(c) \/ OpenLink(c)
        PROVE  db' = db /\ history' = history
    BY <2>2 DEF BeginCreateProduct, BeginUpdateProduct, BeginCreateLink, OpenLink, Begin
  <2>3. ASSUME NEW c \in Clerks, CreateLink(c) \/ UpdateLink(c) PROVE NamesInv'
    <3>1. db'.products = db.products /\ history'.products = history.products
      BY <2>3, SoundTables DEF CreateLink, UpdateLink, Tables, TypeOK, Histories
    <3> QED BY <1>1, <3>1
  <2>4. CASE DeleteLink
    BY <1>1, <2>4, SoundTables DEF DeleteLink, Tables
  <2> QED
    BY <1>1, <1>3, <2>1, <2>2, <2>3, <2>4, CreateProductNames, UpdateProductNames DEF ProductNext
<1>4. CASE StudentNext
  <2>1. ASSUME NEW c \in Clerks,
               \/ BeginCreateUser(c) \/ BeginUpdateUser(c) \/ BeginUpdateProfile(c)
               \/ BeginDeleteUser(c) \/ BeginAddPhotos(c)
        PROVE  db' = db /\ history' = history
    BY <2>1 DEF BeginCreateUser, BeginUpdateUser, BeginUpdateProfile, BeginDeleteUser, BeginAddPhotos, Begin
  <2>2. ASSUME NEW c \in Clerks, DeleteUser(c) PROVE NamesInv'
    <3>1. SameNames({}) /\ history' = history
      BY <2>2, CascadeKeepsNames DEF DeleteUser, SameNames
    <3> QED BY <3>1, NamesStay
  <2>3. ASSUME NEW u, NEW valid, UserSaved(u, valid) PROVE history'.products = history.products
    BY <2>3 DEF UserSaved, TypeOK, Histories
  <2>4. ASSUME NEW c \in Clerks, CreateUser(c) \/ UpdateUser(c) \/ UpdateProfile(c) PROVE NamesInv'
    <3>1. db'.products = db.products
      BY <2>4, SoundTables DEF CreateUser, UpdateUser, UpdateProfile, Tables
    <3>2. history'.products = history.products
      BY <2>3, <2>4 DEF CreateUser, UpdateUser, UpdateProfile
    <3> QED BY <1>1, <3>1, <3>2
  <2>5. ASSUME NEW c \in Clerks, AddPhoto(c) PROVE NamesInv'
    BY <1>1, <2>5, SoundTables DEF AddPhoto, Tables
  <2>6. CASE DeletePhoto \/ SellPhoto
    BY <1>1, <2>6, SoundTables DEF DeletePhoto, SellPhoto, Tables
  <2> QED BY <1>1, <1>4, <2>1, <2>2, <2>4, <2>5, <2>6 DEF StudentNext
<1>5. CASE SeedNext
  <2>1. CASE db' = db /\ history' = history
    BY <1>1, <2>1
  <2>2. CASE SeedWrites
    <3>1. seed.at > 0 /\ seed.missing /\ Row.table \in SeedKinds
      BY <2>2, SeedAtRow DEF SeedSave, SeedWrites
    <3>2. CASE Row.table # "products"
      <4>1. db'.products = db.products
        BY <2>2, <3>1, <3>2, SoundTables DEF Tables, SeedKinds, SeedWrites
      <4>2. history'.products = history.products
        BY <2>2, <3>2 DEF SeedHistory, TypeOK, Histories, SeedWrites
      <4> QED BY <1>1, <4>1, <4>2
    <3>3. CASE Row.table = "products"
      <4> DEFINE p == NextId(db.products)
                 x == SeedProducts[Row.k]
      <4>1. x \in ProductRows
        BY <3>1, <3>3, SeedAtRow, SeedRowsTyped
      <4>2. db'.products = Append(db.products, x)
        BY <2>2, <3>3, SoundTables DEF Tables, NewRow, SeedWrites
      <4>3. /\ ProductCheckers \subseteq overtaken'
            /\ history'.products = Judged(history.products, p, db.products, "seed" \notin overtaken)
        BY <2>2, <3>3 DEF SeedHistory, TypeOK, Histories, SeedWrites
      <4>4. "seed" \notin overtaken => Named(db, x.name) = {}
        BY <3>1, <3>3 DEF NamesInv, NameChecks
      <4> HIDE DEF x
      <4>5. SameNames({p}) /\ db'.products[p] = x
        BY <4>1, <4>2, AddedProduct
      <4> HIDE DEF p
      <4>6. ASSUME "seed" \notin overtaken, NEW k \in Rows(db'.products) \ {p}
            PROVE  db'.products[k].name # db'.products[p].name
        BY <4>4, <4>5, <4>6 DEF SameNames, Named
      <4> QED BY <4>3, <4>5, <4>6, NamesSaved
    <3> QED BY <3>2, <3>3
  <2> QED BY <1>5, <2>1, <2>2, SeedWritesOrNot
<1> QED BY <1>2, <1>3, <1>4, <1>5 DEF Next

(* Two products come to share a name only if the later of them was saved   *)
(* from a name typed with blanks, or another product was saved between its *)
(* check and its write.                                                    *)
THEOREM NamesClash == Spec => []NamesClashUnchecked
<1>1. Init => NamesInv
  <2>1. Rows(<< >>) = {}
    BY DEF Rows
  <2> QED
    BY <2>1 DEF Init, DeskInit, SeedInit, Ended, EmptyDb, Idle, At, NamesInv, NamesClashUnchecked, NameChecks
<1>2. TypeOK /\ NamesInv /\ [Next]_vars => NamesInv'
  <2>1. CASE UNCHANGED vars
    BY <2>1 DEF vars, deskVars, NamesInv, NamesClashUnchecked, NameChecks, At, Named, Row
  <2> QED BY <2>1, NextNames
<1>3. NamesInv => NamesClashUnchecked
  BY DEF NamesInv
<1> QED BY <1>1, <1>2, <1>3, CatalogueTyped, PTL DEF Spec

-----------------------------------------------------------------------------
(* Events.                                                                 *)

SameEvents ==
  \A e \in DOMAIN db.events \cap Rows(db'.events) :
     e \in Rows(db.events) /\ db'.events[e] = db.events[e]

LEMMA CascadeKeepsEvents ==
  ASSUME TypeOK, NEW is, NEW us, NEW ps, db' = Without(db, is, us, ps) PROVE SameEvents
<1>1. db.events \in Table(EventRows) /\ Gone \notin EventRows /\ db'.events = Erase(db.events, EventsLost(db, is))
  BY SoundTables, GoneIsNoRow DEF Without
<1>2. /\ Rows(db'.events) = Rows(db.events) \ EventsLost(db, is)
      /\ \A k \in Rows(db.events) \ EventsLost(db, is) : db'.events[k] = db.events[k]
  BY <1>1, RowsErased
<1> QED BY <1>2 DEF SameEvents

LEMMA NextEvents ==
  ASSUME TypeOK, Next
  PROVE  SameEvents \/ \E c \in Clerks : UpdateInstitution(c) \/ DropEvent(c)
<1>1. ASSUME db'.events = db.events PROVE SameEvents
  BY <1>1 DEF SameEvents, Rows
<1>2. CASE InstitutionNext
  <2>1. CASE DeleteInstitution
    BY <2>1, CascadeKeepsEvents DEF DeleteInstitution
  <2>2. CASE CreateInstitution \/ MakeUpId
    BY <2>2, CreateInstitutionFollows, MakeUpIdFollows DEF SameEvents, Rows
  <2>3. ASSUME NEW c \in Clerks, OpenInstitution(c) \/ BeginDeleteEvent(c) \/ Abandon(c)
        PROVE  db' = db
    BY <2>3 DEF OpenInstitution, BeginDeleteEvent, Abandon, Begin
  <2>4. ASSUME NEW c \in Clerks, StripDeletedEvent(c) PROVE db'.events = db.events
    BY <2>4, SoundTables DEF StripDeletedEvent, StripEvent, Tables
  <2> QED BY <1>1, <1>2, <2>1, <2>2, <2>3, <2>4 DEF InstitutionNext
<1>3. CASE ProductNext
  <2>1. CASE DeleteProduct
    BY <2>1, CascadeKeepsEvents DEF DeleteProduct
  <2>2. ASSUME NEW c \in Clerks,
               BeginCreateProduct(c) \/ BeginUpdateProduct(c) \/ BeginCreateLink(c) \/ OpenLink(c)
        PROVE  db' = db
    BY <2>2 DEF BeginCreateProduct, BeginUpdateProduct, BeginCreateLink, OpenLink, Begin
  <2>3. ASSUME NEW c \in Clerks, CreateProduct(c) \/ UpdateProduct(c) \/ CreateLink(c) \/ UpdateLink(c)
        PROVE  db'.events = db.events
    BY <2>3, SoundTables DEF CreateProduct, UpdateProduct, CreateLink, UpdateLink, Tables
  <2>4. CASE DeleteLink
    BY <1>1, <2>4, SoundTables DEF DeleteLink, Tables
  <2> QED BY <1>1, <1>3, <2>1, <2>2, <2>3, <2>4 DEF ProductNext
<1>4. CASE StudentNext
  <2>1. ASSUME NEW c \in Clerks,
               \/ BeginCreateUser(c) \/ BeginUpdateUser(c) \/ BeginUpdateProfile(c)
               \/ BeginDeleteUser(c) \/ BeginAddPhotos(c)
        PROVE  db' = db
    BY <2>1 DEF BeginCreateUser, BeginUpdateUser, BeginUpdateProfile, BeginDeleteUser, BeginAddPhotos, Begin
  <2>2. ASSUME NEW c \in Clerks, CreateUser(c) \/ UpdateUser(c) \/ UpdateProfile(c) \/ AddPhoto(c)
        PROVE  db'.events = db.events
    BY <2>2, SoundTables DEF CreateUser, UpdateUser, UpdateProfile, AddPhoto, Tables
  <2>3. ASSUME NEW c \in Clerks, DeleteUser(c) PROVE SameEvents
    BY <1>1, <2>3, CascadeKeepsEvents DEF DeleteUser
  <2>4. CASE DeletePhoto \/ SellPhoto
    BY <1>1, <2>4, SoundTables DEF DeletePhoto, SellPhoto, Tables
  <2> QED BY <1>1, <1>4, <2>1, <2>2, <2>3, <2>4 DEF StudentNext
<1>5. CASE SeedNext
  <2>1. CASE SeedWrites
    <3>1. Row.table \in SeedKinds
      BY <2>1, SeedAtRow DEF SeedSave, SeedWrites
    <3>2. CASE Row.table # "events"
      <4>1. db'.events = db.events
        BY <2>1, <3>1, <3>2, SoundTables DEF Tables, SeedKinds, SeedWrites
      <4> QED BY <1>1, <4>1
    <3>3. CASE Row.table = "events"
      <4>1. db'.events = Append(db.events, NewRow)
        BY <2>1, <3>3, SoundTables DEF Tables, SeedWrites
      <4>2. \A k \in DOMAIN db.events : db'.events[k] = db.events[k]
        BY <4>1, SoundTables DEF Table
      <4> QED BY <4>2 DEF SameEvents, Rows
    <3> QED BY <3>2, <3>3
  <2> QED BY <1>1, <1>5, <2>1, SeedWritesOrNot
<1> QED BY <1>2, <1>3, <1>4, <1>5 DEF Next

(* Ids are not used again, and an event stays with its institution unless  *)
(* a form of another takes it over.                                        *)
AdoptionsMarked ==
  /\ \A e \in history.adopted : e \in history'.adopted
  /\ \A e \in DOMAIN db.events \cap Rows(db'.events) :
        \/ e \in Rows(db.events) /\ db'.events[e].institution = db.events[e].institution
        \/ e \in history'.adopted

LEMMA AdoptedStay ==
  ASSUME TypeOK, Next
  PROVE  \A e \in history.adopted : e \in history'.adopted
<1>1. CASE history'.adopted = history.adopted
  BY <1>1
<1>2. CASE InstitutionNext
  <2>1. ASSUME NEW c \in Clerks, UpdateInstitution(c)
        PROVE  \A e \in history.adopted : e \in history'.adopted
    BY <2>1, UpdateInstitutionMarks DEF TypeOK, Histories
  <2> QED
    BY <1>1, <1>2, <2>1
    DEF InstitutionNext, CreateInstitution, MakeUpId, DeleteInstitution, OpenInstitution,
        BeginDeleteEvent, StripDeletedEvent, DropEvent, Abandon, Begin
<1>3. CASE ProductNext
  BY <1>1, <1>3
  DEF ProductNext, DeleteProduct, DeleteLink, BeginCreateProduct, CreateProduct, BeginUpdateProduct,
      UpdateProduct, NameSaved, BeginCreateLink, CreateLink, OpenLink, UpdateLink, Begin, TypeOK, Histories
<1>4. CASE StudentNext
  <2>1. ASSUME NEW u, NEW valid, UserSaved(u, valid) PROVE history'.adopted = history.adopted
    BY <2>1 DEF UserSaved, TypeOK, Histories
  <2> QED
    BY <1>1, <1>4, <2>1
    DEF StudentNext, DeletePhoto, SellPhoto, BeginCreateUser, CreateUser, BeginUpdateUser, UpdateUser,
        BeginUpdateProfile, UpdateProfile, BeginDeleteUser, DeleteUser, BeginAddPhotos, AddPhoto, Begin
<1>5. CASE SeedNext
  <2>1. CASE SeedWrites
    BY <1>1, <2>1 DEF SeedWrites, SeedHistory, TypeOK, Histories
  <2> QED BY <1>1, <1>5, <2>1, SeedWritesOrNot
<1> QED BY <1>2, <1>3, <1>4, <1>5 DEF Next

LEMMA NextAdoptions == ASSUME TypeOK, Next PROVE AdoptionsMarked
<1>1. CASE SameEvents
  BY <1>1, AdoptedStay DEF SameEvents, AdoptionsMarked
<1>2. ASSUME NEW c \in Clerks, UpdateInstitution(c) PROVE AdoptionsMarked
  BY <1>2, AdoptedStay, UpdateInstitutionFollows DEF AdoptionsMarked, Adopted
<1>3. ASSUME NEW c \in Clerks, DropEvent(c) PROVE AdoptionsMarked
  BY <1>3, AdoptedStay, DropEventFollows DEF AdoptionsMarked
<1> QED BY <1>1, <1>2, <1>3, NextEvents

-----------------------------------------------------------------------------
(* Photos.                                                                 *)

OfOne(u, e) ==
  \/ db.events[e].institution = db.users[u].institution
  \/ u \in history.moved \/ e \in history.adopted

MovesMarked ==
  /\ \A u \in history.moved : u \in history'.moved
  /\ \A u \in Rows(db.users) \cap Rows(db'.users) :
        db'.users[u].institution = db.users[u].institution \/ u \in history'.moved

LEMMA SavedUserMarked ==
  ASSUME TypeOK, NEW u, NEW valid, UserSaved(u, valid), SameStudents({u})
  PROVE  MovesMarked
<1>1. history'.moved = IF u \in Rows(db.users) /\ db'.users[u].institution # db.users[u].institution
                       THEN history.moved \cup {u} ELSE history.moved
  BY DEF UserSaved, TypeOK, Histories
<1> QED BY <1>1 DEF MovesMarked, SameStudents

LEMMA NextMovers == ASSUME TypeOK, Next PROVE MovesMarked
<1>1. CASE StudentsUntouched
  BY <1>1 DEF StudentsUntouched, SameStudents, MovesMarked
<1>2. ASSUME NEW c \in Clerks, CreateUser(c) PROVE MovesMarked
  <2> DEFINE u == NextId(db.users)
  <2>1. CASE UserFits(db, u, job[c].row)
    <3>1. job[c].row \in UserRows
      BY <1>2 DEF CreateUser, At, TypeOK, Requests, Idle
    <3>2. db'.users = Append(db.users, job[c].row) /\ UserSaved(u, FALSE)
      BY <1>2, <2>1, SoundTables DEF CreateUser, Tables
    <3>3. SameStudents({u})
      BY <3>1, <3>2, AddedStudent
    <3> QED BY <3>2, <3>3, SavedUserMarked
  <2>2. CASE ~UserFits(db, u, job[c].row)
    BY <1>2, <2>2 DEF CreateUser, MovesMarked
  <2> QED BY <2>1, <2>2
<1>3. ASSUME NEW c \in Clerks, UpdateUser(c) PROVE MovesMarked
  <2> DEFINE u == job[c].id
             row == job[c].row
  <2>1. CASE u \in Rows(db.users) /\ UserFits(db, u, row)
    <3>1. row \in UserRows
      BY <1>3 DEF UpdateUser, At, TypeOK, Requests, Idle
    <3>2. db'.users = [db.users EXCEPT ![u] = row] /\ UserSaved(u, c \notin overtaken)
      BY <1>3, <2>1, SoundTables DEF UpdateUser, Tables
    <3> HIDE DEF u, row
    <3>3. SameStudents({u})
      BY <2>1, <3>1, <3>2, WrittenStudent
    <3> QED BY <3>2, <3>3, SavedUserMarked
  <2>2. CASE ~(u \in Rows(db.users) /\ UserFits(db, u, row))
    BY <1>3, <2>2 DEF UpdateUser, MovesMarked
  <2> QED BY <2>1, <2>2
<1>4. CASE SeedWrites /\ Row.table = "users"
  <2>1. SameStudents({NextId(db.users)}) /\ history'.moved = history.moved
    BY <1>4, SeededStudent
  <2>2. NextId(db.users) \notin Rows(db.users)
    BY SoundTables, GoneIsNoRow, RowsOfTable
  <2> QED BY <2>1, <2>2 DEF SameStudents, MovesMarked
<1> QED BY <1>1, <1>2, <1>3, <1>4, NextStudents

(* What was of one institution still is, or the student has been moved, or *)
(* the event taken over.                                                   *)
LEMMA PairKept ==
  ASSUME Follows(db, db'), MovesMarked, AdoptionsMarked, NEW u \in DOMAIN db.users, NEW e \in DOMAIN db.events,
         u \in Rows(db.users) /\ e \in Rows(db.events) => OfOne(u, e)
  PROVE  /\ u \in DOMAIN db'.users /\ e \in DOMAIN db'.events
         /\ u \in Rows(db'.users) /\ e \in Rows(db'.events) => OfOne(u, e)'
  BY DEF Follows, Grown, MovesMarked, AdoptionsMarked, OfOne

PhotosOf(K) ==
  \A f \in Rows(db'.photos) \ K :
     /\ f \in Rows(db.photos)
     /\ db'.photos[f].user = db.photos[f].user
     /\ db'.photos[f].event = db.photos[f].event

LEMMA CascadeKeepsPhotos ==
  ASSUME TypeOK, NEW is, NEW us, NEW ps, db' = Without(db, is, us, ps) PROVE PhotosOf({})
<1>1. db.photos \in Table(PhotoRows) /\ Gone \notin PhotoRows /\ db'.photos = Erase(db.photos, PhotosLost(db, is, us))
  BY SoundTables, GoneIsNoRow DEF Without
<1>2. /\ Rows(db'.photos) = Rows(db.photos) \ PhotosLost(db, is, us)
      /\ \A k \in Rows(db.photos) \ PhotosLost(db, is, us) : db'.photos[k] = db.photos[k]
  BY <1>1, RowsErased
<1> QED BY <1>2 DEF PhotosOf

LEMMA DeletePhotoPhotos == ASSUME TypeOK, DeletePhoto PROVE PhotosOf({})
<1>1. PICK f \in Rows(db.photos) : db' = [db EXCEPT !.photos[f].deleted = TRUE]
  BY DEF DeletePhoto
<1> DEFINE x == [db.photos[f] EXCEPT !.deleted = TRUE]
<1>2. /\ db.photos \in Table(PhotoRows) /\ Gone \notin PhotoRows
      /\ db.photos[f] \in PhotoRows /\ Rows(db.photos) \subseteq DOMAIN db.photos
  BY SoundTables, GoneIsNoRow, RowsOfTable
<1>3. x \in PhotoRows /\ x.user = db.photos[f].user /\ x.event = db.photos[f].event
  BY <1>2 DEF PhotoRows
<1>4. db'.photos = [db.photos EXCEPT ![f] = x]
  BY <1>1, SoundTables DEF Tables
<1> HIDE DEF x
<1>5. /\ Rows(db'.photos) = Rows(db.photos) /\ db'.photos[f] = x
      /\ \A k \in DOMAIN db.photos \ {f} : db'.photos[k] = db.photos[k]
  BY <1>2, <1>3, <1>4, RowChanged
<1> QED BY <1>2, <1>3, <1>5 DEF PhotosOf

AddsPhoto(c) ==
  /\ AddPhoto(c) /\ At(c, "addPhotos") /\ PhotosOf({NextId(db.photos)})
  /\ db'.photos[NextId(db.photos)].user = job[c].user
  /\ db'.photos[NextId(db.photos)].event = job[c].event

LEMMA AddPhotoPhotos ==
  ASSUME TypeOK, NEW c \in Clerks, AddPhoto(c) PROVE PhotosOf({}) \/ AddsPhoto(c)
<1> DEFINE u == job[c].user
           e == job[c].event
           x == [user |-> u, event |-> e, deleted |-> FALSE]
<1>1. CASE ~(u \in Rows(db.users) /\ e \in Rows(db.events))
  BY <1>1 DEF AddPhoto, PhotosOf
<1>2. CASE u \in Rows(db.users) /\ e \in Rows(db.events)
  <2>1. u \in Nat /\ e \in Nat
    BY <1>2, SoundTables, GoneIsNoRow, RowsOfTable
  <2>2. x \in PhotoRows /\ x.user = u /\ x.event = e
    BY <2>1 DEF PhotoRows
  <2>3. db'.photos = Append(db.photos, x)
    BY <1>2, SoundTables DEF AddPhoto, Tables
  <2>4. db.photos \in Table(PhotoRows) /\ Gone \notin PhotoRows /\ Rows(db.photos) \subseteq DOMAIN db.photos
    BY SoundTables, GoneIsNoRow, RowsOfTable
  <2> HIDE DEF x
  <2>5. /\ Rows(db'.photos) = Rows(db.photos) \cup {NextId(db.photos)}
        /\ db'.photos[NextId(db.photos)] = x /\ \A k \in DOMAIN db.photos : db'.photos[k] = db.photos[k]
    BY <2>2, <2>3, <2>4, RowInserted
  <2>6. At(c, "addPhotos")
    BY DEF AddPhoto
  <2> QED BY <2>2, <2>4, <2>5, <2>6 DEF PhotosOf, AddsPhoto
<1> QED BY <1>1, <1>2

LEMMA NextPhotos ==
  ASSUME TypeOK, Next PROVE PhotosOf({}) \/ \E c \in Clerks : AddsPhoto(c)
<1>1. ASSUME db'.photos = db.photos PROVE PhotosOf({})
  BY <1>1 DEF PhotosOf
<1>2. CASE InstitutionNext
  <2>1. CASE DeleteInstitution
    BY <2>1, CascadeKeepsPhotos DEF DeleteInstitution
  <2>2. CASE CreateInstitution \/ MakeUpId
    BY <1>1, <2>2, SoundTables DEF CreateInstitution, MakeUpId, Tables
  <2>3. ASSUME NEW c \in Clerks, OpenInstitution(c) \/ BeginDeleteEvent(c) \/ Abandon(c)
        PROVE  db' = db
    BY <2>3 DEF OpenInstitution, BeginDeleteEvent, Abandon, Begin
  <2>4. ASSUME NEW c \in Clerks, UpdateInstitution(c) \/ StripDeletedEvent(c) \/ DropEvent(c)
        PROVE  db'.photos = db.photos
    BY <2>4, SoundTables DEF UpdateInstitution, StripDeletedEvent, StripEvent, DropEvent, Tables
  <2> QED BY <1>1, <1>2, <2>1, <2>2, <2>3, <2>4 DEF InstitutionNext
<1>3. CASE ProductNext
  <2>1. CASE DeleteProduct
    BY <2>1, CascadeKeepsPhotos DEF DeleteProduct
  <2>2. ASSUME NEW c \in Clerks,
               BeginCreateProduct(c) \/ BeginUpdateProduct(c) \/ BeginCreateLink(c) \/ OpenLink(c)
        PROVE  db' = db
    BY <2>2 DEF BeginCreateProduct, BeginUpdateProduct, BeginCreateLink, OpenLink, Begin
  <2>3. ASSUME NEW c \in Clerks, CreateProduct(c) \/ UpdateProduct(c) \/ CreateLink(c) \/ UpdateLink(c)
        PROVE  db'.photos = db.photos
    BY <2>3, SoundTables DEF CreateProduct, UpdateProduct, CreateLink, UpdateLink, Tables
  <2>4. CASE DeleteLink
    BY <1>1, <2>4, SoundTables DEF DeleteLink, Tables
  <2> QED BY <1>1, <1>3, <2>1, <2>2, <2>3, <2>4 DEF ProductNext
<1>4. CASE StudentNext
  <2>1. ASSUME NEW c \in Clerks,
               \/ BeginCreateUser(c) \/ BeginUpdateUser(c) \/ BeginUpdateProfile(c)
               \/ BeginDeleteUser(c) \/ BeginAddPhotos(c)
        PROVE  db' = db
    BY <2>1 DEF BeginCreateUser, BeginUpdateUser, BeginUpdateProfile, BeginDeleteUser, BeginAddPhotos, Begin
  <2>2. ASSUME NEW c \in Clerks, CreateUser(c) \/ UpdateUser(c) \/ UpdateProfile(c)
        PROVE  db'.photos = db.photos
    BY <2>2, SoundTables DEF CreateUser, UpdateUser, UpdateProfile, Tables
  <2>3. ASSUME NEW c \in Clerks, DeleteUser(c) PROVE PhotosOf({})
    BY <2>3, CascadeKeepsPhotos DEF DeleteUser, PhotosOf
  <2>4. CASE SellPhoto
    BY <1>1, <2>4, SoundTables DEF SellPhoto, Tables
  <2> QED BY <1>1, <1>4, <2>1, <2>2, <2>3, <2>4, DeletePhotoPhotos, AddPhotoPhotos DEF StudentNext
<1>5. CASE SeedNext
  <2>1. CASE SeedWrites
    <3>1. Row.table \in SeedKinds
      BY <2>1, SeedAtRow DEF SeedSave, SeedWrites
    <3>2. db'.photos = db.photos
      BY <2>1, <3>1, SoundTables DEF Tables, SeedKinds, SeedWrites
    <3> QED BY <1>1, <3>2
  <2> QED BY <1>1, <1>5, <2>1, SeedWritesOrNot
<1> QED BY <1>2, <1>3, <1>4, <1>5 DEF Next

LEMMA PhotoIds ==
  ASSUME TypeOK, NEW f \in Rows(db.photos)
  PROVE  db.photos[f].user \in DOMAIN db.users /\ db.photos[f].event \in DOMAIN db.events
  BY SoundTables DEF Referenced, Rows

LEMMA UploadsKept == ASSUME TypeOK, UploadsOfOwnInstitution, Next PROVE UploadsOfOwnInstitution'
<1> SUFFICES ASSUME NEW c \in Clerks, At(c, "addPhotos")'
             PROVE  /\ job'[c].user \in DOMAIN db'.users /\ job'[c].event \in DOMAIN db'.events
                    /\ job'[c].user \in Rows(db'.users) /\ job'[c].event \in Rows(db'.events)
                          => OfOne(job[c].user, job[c].event)'
  BY DEF UploadsOfOwnInstitution, OfOne
<1>1. CASE At(c, "addPhotos") /\ job'[c].user = job[c].user /\ job'[c].event = job[c].event
  <2>1. /\ job[c].user \in DOMAIN db.users /\ job[c].event \in DOMAIN db.events
        /\ job[c].user \in Rows(db.users) /\ job[c].event \in Rows(db.events)
              => OfOne(job[c].user, job[c].event)
    BY <1>1 DEF UploadsOfOwnInstitution, OfOne
  <2>2. Follows(db, db') /\ MovesMarked /\ AdoptionsMarked
    BY NextFollows, NextMovers, NextAdoptions
  <2> QED BY <1>1, <2>1, <2>2, PairKept
<1>2. CASE BeginAddPhotos(c) /\ UNCHANGED <<db, history>>
  <2>1. PICK u \in Rows(db.users), e \in Rows(db.events), files \in 1 .. MaxPhotos :
           /\ e \in LiveEvents(db, db.users[u].institution)
           /\ Begin(c, [op |-> "addPhotos", user |-> u, event |-> e, files |-> files])
    BY <1>2 DEF BeginAddPhotos
  <2>2. job'[c].user = u /\ job'[c].event = e
    BY <2>1, BegunJob
  <2>3. OfOne(u, e) /\ u \in DOMAIN db.users /\ e \in DOMAIN db.events
    BY <2>1 DEF LiveEvents, OfOne, Rows
  <2> QED BY <1>2, <2>2, <2>3 DEF OfOne
<1>3. CASE Pending(c)
  BY <1>1, <1>3 DEF Pending, At
<1>4. CASE Continued(c)
  BY <1>1, <1>2, <1>4, JobContinued, BeganAs DEF At
<1> QED BY <1>3, <1>4, NextJob

LEMMA NextPhotosInv == ASSUME TypeOK, PhotosInv, Next PROVE PhotosInv'
<1>1. Follows(db, db') /\ MovesMarked /\ AdoptionsMarked /\ UploadsOfOwnInstitution'
  BY NextFollows, NextMovers, NextAdoptions, UploadsKept DEF PhotosInv
<1>2. ASSUME NEW f \in Rows(db'.photos), NEW u \in DOMAIN db.users, NEW e \in DOMAIN db.events,
             db'.photos[f].user = u, db'.photos[f].event = e,
             u \in Rows(db.users) /\ e \in Rows(db.events) => OfOne(u, e)
      PROVE  OfOne(db.photos[f].user, db.photos[f].event)'
  <2>1. u \in Rows(db'.users) /\ e \in Rows(db'.events)
    BY <1>1, <1>2 DEF Follows, Referenced
  <2> QED BY <1>1, <1>2, <2>1, PairKept
<1>3. ASSUME NEW f \in Rows(db'.photos), f \in Rows(db.photos),
             db'.photos[f].user = db.photos[f].user, db'.photos[f].event = db.photos[f].event
      PROVE  OfOne(db.photos[f].user, db.photos[f].event)'
  <2>1. OfOne(db.photos[f].user, db.photos[f].event)
    BY <1>3 DEF PhotosInv, PhotosOfOwnInstitution, OfOne
  <2> QED BY <1>2, <1>3, <2>1, PhotoIds
<1>4. ASSUME NEW c \in Clerks, AddsPhoto(c), NEW f \in Rows(db'.photos), f = NextId(db.photos)
      PROVE  OfOne(db.photos[f].user, db.photos[f].event)'
  <2>1. /\ job[c].user \in DOMAIN db.users /\ job[c].event \in DOMAIN db.events
        /\ job[c].user \in Rows(db.users) /\ job[c].event \in Rows(db.events)
              => OfOne(job[c].user, job[c].event)
    BY <1>4 DEF AddsPhoto, PhotosInv, UploadsOfOwnInstitution, OfOne
  <2> QED BY <1>2, <1>4, <2>1 DEF AddsPhoto
<1>5. \A f \in Rows(db'.photos) : OfOne(db.photos[f].user, db.photos[f].event)'
  BY <1>3, <1>4, NextPhotos DEF PhotosOf, AddsPhoto
<1>6. PhotosOfOwnInstitution'
  BY <1>5 DEF PhotosOfOwnInstitution, OfOne
<1> QED BY <1>1, <1>6 DEF PhotosInv

(* However uploads, moves, forms and deletions interleave, a photo is of   *)
(* an event of its student's institution, unless the student was moved to  *)
(* another or a form of another institution took the event over.           *)
THEOREM PhotosStayInInstitution == Spec => []PhotosOfOwnInstitution
<1>1. Init => PhotosInv
  <2>1. Rows(<< >>) = {}
    BY DEF Rows
  <2> QED
    BY <2>1 DEF Init, DeskInit, EmptyDb, Idle, At, PhotosInv, PhotosOfOwnInstitution, UploadsOfOwnInstitution
<1>2. TypeOK /\ PhotosInv /\ [Next]_vars => PhotosInv'
  <2>1. CASE UNCHANGED vars
    BY <2>1 DEF vars, deskVars, PhotosInv, PhotosOfOwnInstitution, UploadsOfOwnInstitution, At
  <2> QED BY <2>1, NextPhotosInv
<1>3. PhotosInv => PhotosOfOwnInstitution
  BY DEF PhotosInv
<1> QED BY <1>1, <1>2, <1>3, CatalogueTyped, PTL DEF Spec

-----------------------------------------------------------------------------
(* Events offered.                                                         *)

Dropping(c, e) == At(c, "dropEvent") /\ job[c].id = e

(* An event that is offered and that nobody is deleting stays,             *)
(* or it is told apart for the links of the institution it was taken from. *)
LEMMA LiveStays ==
  ASSUME TypeOK, Next, NEW i \in Rows(db'.institutions), NEW e \in LiveEvents(db, i),
         \A c \in Clerks : ~Dropping(c, e)
  PROVE  \/ e \in LiveEvents(db', i)
         \/ \A l \in Rows(db.links) : db.links[l].institution = i => <<l, e>> \in history'.stale
<1>1. e \in Rows(db.events) /\ db.events[e].institution = i /\ ~db.events[e].deleted
  BY DEF LiveEvents
<1>2. e \in Rows(db'.events) /\ e \in DOMAIN db.events
  BY <1>1, NextFollows DEF Follows, Rows
<1>3. CASE SameEvents
  BY <1>1, <1>2, <1>3 DEF SameEvents, LiveEvents
<1>4. CASE \E c \in Clerks : DropEvent(c)
  <2>1. PICK c \in Clerks : DropEvent(c)
    BY <1>4
  <2>2. e # job[c].id
    BY <2>1 DEF DropEvent, Dropping
  <2>3. db'.events[e] = db.events[e]
    BY <1>1, <2>1, <2>2, DropEventFollows
  <2> QED BY <1>1, <1>2, <2>3 DEF LiveEvents
<1>5. CASE \E c \in Clerks : UpdateInstitution(c)
  <2>1. /\ db'.events[e].deleted = db.events[e].deleted
        /\ db'.events[e].institution = db.events[e].institution \/ Adopted(e)
    BY <1>1, <1>2, <1>5, UpdateInstitutionFollows
  <2> QED BY <1>1, <1>2, <2>1 DEF LiveEvents, Adopted
<1> QED BY <1>3, <1>4, <1>5, NextEvents

LEMMA DropsBegun ==
  ASSUME TypeOK, Next, NEW k \in Clerks, NEW e, Dropping(k, e)'
  PROVE  Dropping(k, e) \/ (StripDeletedEvent(k) /\ job[k].id = e)
<1>1. CASE Pending(k)
  BY <1>1 DEF Pending, Dropping, At
<1>2. CASE Continued(k)
  BY <1>2, JobContinued, BeganAs DEF Dropping, At
<1> QED BY <1>1, <1>2, NextJob

LEMMA OfferStays ==
  ASSUME TypeOK, Next, NEW l \in Rows(db.links) \cap Rows(db'.links), NEW e, Offered(l, e),
         \A c \in Clerks : ~(StripDeletedEvent(c) /\ job[c].id = e)
  PROVE  Offered(l, e)' \/ <<l, e>> \in history'.stale
<1> DEFINE i == db.links[l].institution
<1>1. db'.links[l].institution = i /\ i \in Rows(db'.institutions)
  BY NextFollows DEF Follows, Referenced
<1>2. \A c \in Clerks : ~Dropping(c, e)
  BY DEF Offered, Lasting, Dropping
<1>3. \A c \in Clerks : ~Dropping(c, e)'
  BY <1>2, DropsBegun
<1>4. e \in LiveEvents(db', i) \/ <<l, e>> \in history'.stale
  BY <1>1, <1>2, LiveStays DEF Offered, Lasting
<1> QED BY <1>1, <1>3, <1>4 DEF Offered, Lasting, Dropping

(* Links but those of K have no new entries, and no entry of them ceases   *)
(* to be stale.                                                            *)
LinksOffer(K) ==
  /\ \A l \in Rows(db'.links) \ K : db'.links[l].details # Null =>
        /\ l \in Rows(db.links) /\ db.links[l].details # Null
        /\ \A x \in db'.links[l].details : x \in db.links[l].details
  /\ \A l, e : l \notin K /\ <<l, e>> \in history.stale => <<l, e>> \in history'.stale

LEMMA CascadeKeepsLinks ==
  ASSUME TypeOK, NEW is, NEW us, NEW ps, db' = Without(db, is, us, ps), history' = history
  PROVE  LinksOffer({})
<1>1. db.links \in Table(LinkRows) /\ Gone \notin LinkRows /\ db'.links = Erase(db.links, LinksLost(db, is, ps))
  BY SoundTables, GoneIsNoRow DEF Without
<1>2. /\ Rows(db'.links) = Rows(db.links) \ LinksLost(db, is, ps)
      /\ \A k \in Rows(db.links) \ LinksLost(db, is, ps) : db'.links[k] = db.links[k]
  BY <1>1, RowsErased
<1> QED BY <1>2 DEF LinksOffer

LEMMA AddedLink ==
  ASSUME TypeOK, NEW x \in LinkRows, db'.links = Append(db.links, x)
  PROVE  /\ Rows(db'.links) = Rows(db.links) \cup {NextId(db.links)}
         /\ \A l \in Rows(db.links) : db'.links[l] = db.links[l]
         /\ db'.links[NextId(db.links)] = x
<1>1. db.links \in Table(LinkRows) /\ Gone \notin LinkRows
  BY SoundTables, GoneIsNoRow
<1>2. /\ Rows(db'.links) = Rows(db.links) \cup {NextId(db.links)}
      /\ \A k \in DOMAIN db.links : db'.links[k] = db.links[k]
      /\ db'.links[NextId(db.links)] = x
  BY <1>1, RowInserted
<1> QED BY <1>2 DEF Rows

LEMMA CreateLinkOffers == ASSUME TypeOK, NEW c \in Clerks, CreateLink(c) PROVE LinksOffer({})
<1> DEFINE x == [product |-> job[c].product, institution |-> job[c].institution,
                 flag |-> job[c].flag, details |-> Null]
<1>1. job[c].product \in Nat /\ job[c].institution \in Nat /\ job[c].flag \in ShopFlags
  BY DEF CreateLink, At, TypeOK, Requests, Idle
<1>2. x \in LinkRows /\ x.details = Null
  BY <1>1 DEF LinkRows
<1>3. db' = db \/ db'.links = Append(db.links, x)
  BY SoundTables DEF CreateLink, Tables
<1>4. history' = history
  BY DEF CreateLink
<1> HIDE DEF x
<1> QED BY <1>2, <1>3, <1>4, AddedLink DEF LinksOffer

LEMMA DeleteLinkOffers == ASSUME TypeOK, DeleteLink PROVE LinksOffer({})
<1>1. PICK l \in Rows(db.links) : db'.links = Erase(db.links, {l}) /\ history' = history
  BY SoundTables DEF DeleteLink, Tables
<1>2. db.links \in Table(LinkRows) /\ Gone \notin LinkRows
  BY SoundTables, GoneIsNoRow
<1>3. /\ Rows(db'.links) = Rows(db.links) \ {l}
      /\ \A k \in Rows(db.links) \ {l} : db'.links[k] = db.links[k]
  BY <1>1, <1>2, RowsErased
<1> QED BY <1>1, <1>3 DEF LinksOffer

(* A form is saved: what it names is stale unless it is a lasting event of *)
(* the link's institution.                                                 *)
LEMMA UpdateLinkOffers ==
  ASSUME TypeOK, Next, NEW c \in Clerks, UpdateLink(c)
  PROVE  \/ LinksOffer({})
         \/ /\ LinksOffer({job[c].id}) /\ job[c].id \in Rows(db.links) \cap Rows(db'.links)
            /\ db'.links[job[c].id].details # Null =>
                  \A x \in db'.links[job[c].id].details :
                     Offered(job[c].id, x.id) \/ <<job[c].id, x.id>> \in history'.stale
<1> DEFINE l == job[c].id
<1>1. CASE l \notin Rows(db.links)
  BY <1>1 DEF UpdateLink, LinksOffer
<1>2. CASE l \in Rows(db.links)
  <2>1. PICK sent \in {job[c].details, Null} :
           /\ db' = [db EXCEPT !.links[l].details = sent]
           /\ history' = [history EXCEPT !.stale =
                 {x \in @ : x[1] # l} \cup
                 IF sent = Null THEN {}
                 ELSE {<<l, x.id>> : x \in {y \in sent : ~Lasting(y.id, db.links[l].institution)}}]
    BY <1>2 DEF UpdateLink
  <2> DEFINE x == [db.links[l] EXCEPT !.details = sent]
  <2>2. /\ db.links \in Table(LinkRows) /\ Gone \notin LinkRows
        /\ db.links[l] \in LinkRows /\ Rows(db.links) \subseteq DOMAIN db.links
    BY <1>2, SoundTables, GoneIsNoRow, RowsOfTable
  <2>3. At(c, "updateLink") /\ job[c].details \in SUBSET Entries
    BY DEF UpdateLink, At, TypeOK, Requests, Idle
  <2>5. x \in LinkRows /\ x.details = sent
    BY <2>2, <2>3 DEF LinkRows
  <2>6. db'.links = [db.links EXCEPT ![l] = x]
    BY <2>1, SoundTables DEF Tables
  <2> HIDE DEF x
  <2>7. /\ Rows(db'.links) = Rows(db.links) /\ db'.links[l] = x
        /\ \A k \in DOMAIN db.links \ {l} : db'.links[k] = db.links[k]
    BY <1>2, <2>2, <2>5, <2>6, RowChanged
  <2>8. /\ \A a, e : a # l /\ <<a, e>> \in history.stale => <<a, e>> \in history'.stale
        /\ sent # Null => \A y \in sent : Offered(l, y.id) \/ <<l, y.id>> \in history'.stale
    <3>1. history'.stale = {z \in history.stale : z[1] # l} \cup
             IF sent = Null THEN {} ELSE {<<l, y.id>> : y \in {z \in sent : ~Offered(l, z.id)}}
      BY <2>1 DEF TypeOK, Histories, Offered
    <3> QED BY <3>1
  <2> HIDE DEF l
  <2>10. LinksOffer({l})
    BY <2>2, <2>7, <2>8 DEF LinksOffer
  <2> QED BY <1>2, <2>5, <2>7, <2>8, <2>10 DEF l
<1> QED BY <1>1, <1>2

(* The script's links, whose details are told apart in the same way.       *)
LEMMA SeedLinkOffers ==
  ASSUME TypeOK, Next, SeedWrites, Row.table = "links"
  PROVE  LET l == NextId(db.links) IN
         /\ LinksOffer({l}) /\ l \notin Rows(db.links)
         /\ db'.links[l].institution \in Rows(db.institutions)
         /\ \A x \in db'.links[l].details :
               \/ Lasting(x.id, db'.links[l].institution)
               \/ <<l, x.id>> \in history'.stale
<1> DEFINE l == NextId(db.links)
           flag == SeedProducts[Row.k].flag
           x == [product |-> ProductId(Row.k), institution |-> SeedInstitution,
                 flag |-> flag, details |-> SeedDetails(flag)]
<1>1. seed.at > 0 /\ SeedFits
  BY DEF SeedWrites, SeedSave
<1>2. /\ SeedInstitution \in Rows(db.institutions) /\ ProductId(Row.k) \in Nat
      /\ SeedInstitution \in Nat /\ Row.k \in DOMAIN SeedProducts
  BY <1>1, SeedAtRow DEF SeedFits, SeedInstitution
<1>3. flag \in ShopFlags
  <2>1. SeedProducts[Row.k] \in ProductRows
    BY <1>2, SeedRowsTyped
  <2> QED BY <2>1 DEF ProductRows
<1>4. NewRow = x
  BY DEF NewRow
<1>5. db'.links = Append(db.links, x)
  BY <1>4, SoundTables DEF SeedWrites, Tables
<1>6. history'.stale = history.stale \cup
         {<<l, y.id>> : y \in {z \in NewRow.details : ~Lasting(z.id, SeedInstitution)}}
  BY DEF SeedWrites, SeedHistory, TypeOK, Histories
<1> HIDE DEF flag
<1>7. SeedDetails(flag) \in SUBSET Entries
  BY <1>1, SeedDetailsStored
<1>8. x \in LinkRows /\ x.institution = SeedInstitution /\ x.details = SeedDetails(flag)
  BY <1>2, <1>3, <1>7 DEF LinkRows
<1> HIDE DEF x
<1>9. /\ Rows(db'.links) = Rows(db.links) \cup {l} /\ db'.links[l] = x
      /\ \A k \in Rows(db.links) : db'.links[k] = db.links[k]
  BY <1>5, <1>8, AddedLink
<1>10. l \notin Rows(db.links)
  BY SoundTables, GoneIsNoRow, RowsOfTable
<1> HIDE DEF l
<1>11. LinksOffer({l})
  BY <1>6, <1>9 DEF LinksOffer
<1>12. \A y \in db'.links[l].details :
          \/ Lasting(y.id, db'.links[l].institution)
          \/ <<l, y.id>> \in history'.stale
  BY <1>4, <1>6, <1>8, <1>9
<1> QED BY <1>2, <1>8, <1>9, <1>10, <1>11, <1>12 DEF l

(* What a step can do to what is offered.                                  *)
LEMMA NextLinks ==
  ASSUME TypeOK, Next
  PROVE  \/ LinksOffer({})
         \/ \E c \in Clerks : UpdateLink(c)
         \/ SeedWrites /\ Row.table = "links"
<1>1. ASSUME db'.links = db.links, \A x \in history.stale : x \in history'.stale
      PROVE  LinksOffer({})
  BY <1>1 DEF LinksOffer
<1>2. CASE InstitutionNext
  <2>2. CASE DeleteInstitution
    BY <2>2, CascadeKeepsLinks DEF DeleteInstitution
  <2>3. CASE CreateInstitution \/ MakeUpId
    BY <1>1, <2>3, SoundTables DEF CreateInstitution, MakeUpId, Tables
  <2>4. ASSUME NEW c \in Clerks, OpenInstitution(c) \/ BeginDeleteEvent(c) \/ Abandon(c)
        PROVE  db' = db /\ history' = history
    BY <2>4 DEF OpenInstitution, BeginDeleteEvent, Abandon, Begin
  <2>5. ASSUME NEW c \in Clerks, UpdateInstitution(c) PROVE LinksOffer({})
    <3>0. db' = db \/ \E is, es : db' = [db EXCEPT !.institutions = is, !.events = es]
      BY <2>5, UpdateInstitutionWrites
    <3>1. db'.links = db.links
      BY <3>0, SoundTables DEF Tables
    <3>2. \A x \in history.stale : x \in history'.stale
      <4>1. PICK A \in SUBSET Nat, S \in SUBSET (Nat \X Nat) :
               history' = [history EXCEPT !.adopted = @ \cup A, !.stale = @ \cup S]
        BY <2>5, UpdateInstitutionMarks
      <4>2. history \in Histories
        BY DEF TypeOK
      <4>3. history'.stale = history.stale \cup S
        BY <4>1, <4>2 DEF Histories
      <4> QED BY <4>3
    <3> QED BY <1>1, <3>1, <3>2
  <2>7. ASSUME NEW c \in Clerks, DropEvent(c) PROVE LinksOffer({})
    BY <1>1, <2>7, SoundTables DEF DropEvent, Tables
  <2>6. ASSUME NEW c \in Clerks, StripDeletedEvent(c) PROVE LinksOffer({})
    <3>1. db' = StripEvent(db, job[c].id) /\ history' = history
      BY <2>6 DEF StripDeletedEvent
    <3> QED BY <3>1, LinksStripped DEF LinksOffer
  <2> QED BY <1>1, <1>2, <2>2, <2>3, <2>4, <2>5, <2>6, <2>7 DEF InstitutionNext
<1>3. CASE ProductNext
  <2>1. CASE DeleteProduct
    BY <2>1, CascadeKeepsLinks DEF DeleteProduct
  <2>2. ASSUME NEW c \in Clerks,
               BeginCreateProduct(c) \/ BeginUpdateProduct(c) \/ BeginCreateLink(c) \/ OpenLink(c)
        PROVE  db' = db /\ history' = history
    BY <2>2 DEF BeginCreateProduct, BeginUpdateProduct, BeginCreateLink, OpenLink, Begin
  <2>3. ASSUME NEW c \in Clerks, CreateProduct(c) \/ UpdateProduct(c)
        PROVE  db'.links = db.links /\ history'.stale = history.stale
    BY <2>3, SoundTables DEF CreateProduct, UpdateProduct, NameSaved, Tables, TypeOK, Histories
  <2> QED
    BY <1>1, <1>3, <2>1, <2>2, <2>3, CreateLinkOffers, DeleteLinkOffers DEF ProductNext
<1>4. CASE StudentNext
  <2>1. ASSUME NEW c \in Clerks,
               \/ BeginCreateUser(c) \/ BeginUpdateUser(c) \/ BeginUpdateProfile(c)
               \/ BeginDeleteUser(c) \/ BeginAddPhotos(c)
        PROVE  db' = db /\ history' = history
    BY <2>1 DEF BeginCreateUser, BeginUpdateUser, BeginUpdateProfile, BeginDeleteUser, BeginAddPhotos, Begin
  <2>2. ASSUME NEW u, NEW valid, UserSaved(u, valid) PROVE history'.stale = history.stale
    BY <2>2 DEF UserSaved, TypeOK, Histories
  <2>3. ASSUME NEW c \in Clerks, CreateUser(c) \/ UpdateUser(c) \/ UpdateProfile(c) \/ AddPhoto(c)
        PROVE  db'.links = db.links /\ history'.stale = history.stale
    <3>1. db'.links = db.links
      BY <2>3, SoundTables DEF CreateUser, UpdateUser, UpdateProfile, AddPhoto, Tables
    <3>2. history'.stale = history.stale
      BY <2>2, <2>3 DEF CreateUser, UpdateUser, UpdateProfile, AddPhoto
    <3> QED BY <3>1, <3>2
  <2>4. ASSUME NEW c \in Clerks, DeleteUser(c) PROVE LinksOffer({})
    BY <1>1, <2>4, CascadeKeepsLinks DEF DeleteUser
  <2>5. CASE DeletePhoto \/ SellPhoto
    BY <1>1, <2>5, SoundTables DEF DeletePhoto, SellPhoto, Tables
  <2> QED BY <1>1, <1>4, <2>1, <2>3, <2>4, <2>5 DEF StudentNext
<1>5. CASE SeedNext
  <2>1. CASE SeedWrites /\ Row.table # "links"
    <3>1. Row.table \in SeedKinds
      BY <2>1, SeedAtRow DEF SeedSave, SeedWrites
    <3>2. db'.links = db.links
      BY <2>1, <3>1, SoundTables DEF Tables, SeedKinds, SeedWrites
    <3>3. history'.stale = history.stale
      BY <2>1 DEF SeedHistory, TypeOK, Histories, SeedWrites
    <3> QED BY <1>1, <3>2, <3>3
  <2> QED BY <1>1, <1>5, <2>1, SeedWritesOrNot
<1> QED BY <1>2, <1>3, <1>4, <1>5 DEF Next

(* Links no step has touched; an event about to be deleted has just been   *)
(* taken out of all of them.                                               *)
LEMMA OffersOfOthers ==
  ASSUME TypeOK, OffersInv, Next, NEW K, LinksOffer(K),
         NEW l \in Rows(db'.links) \ K, db'.links[l].details # Null, NEW x \in db'.links[l].details
  PROVE  Offered(l, x.id)' \/ <<l, x.id>> \in history'.stale
<1>1. l \in Rows(db.links) /\ db.links[l].details # Null /\ x \in db.links[l].details
  BY DEF LinksOffer
<1>2. CASE <<l, x.id>> \in history.stale
  BY <1>2 DEF LinksOffer
<1>3. CASE Offered(l, x.id)
  <2>1. \A c \in Clerks : ~(StripDeletedEvent(c) /\ job[c].id = x.id)
    <3> SUFFICES ASSUME NEW c \in Clerks, StripDeletedEvent(c), job[c].id = x.id PROVE FALSE
      OBVIOUS
    <3>1. db' = StripEvent(db, x.id)
      BY DEF StripDeletedEvent
    <3>2. db'.links[l].details = {entry \in db.links[l].details : entry.id # x.id}
      BY <1>1, <3>1, LinksStripped
    <3> QED BY <3>2
  <2> QED BY <1>1, <1>3, <2>1, OfferStays
<1> QED BY <1>1, <1>2, <1>3 DEF OffersInv

LEMMA NextOffers == ASSUME TypeOK, OffersInv, Next PROVE OffersInv'
<1> SUFFICES ASSUME NEW l \in Rows(db'.links), db'.links[l].details # Null, NEW x \in db'.links[l].details
             PROVE  Offered(l, x.id)' \/ <<l, x.id>> \in history'.stale
  BY DEF OffersInv
<1>1. CASE LinksOffer({})
  BY <1>1, OffersOfOthers
<1>2. ASSUME NEW c \in Clerks, UpdateLink(c) PROVE Offered(l, x.id)' \/ <<l, x.id>> \in history'.stale
  <2>1. CASE l # job[c].id
    <3>1. LinksOffer({}) \/ LinksOffer({job[c].id})
      BY <1>2, UpdateLinkOffers
    <3> QED BY <1>1, <2>1, <3>1, OffersOfOthers
  <2>2. CASE l = job[c].id /\ ~LinksOffer({})
    <3>1. l \in Rows(db.links) /\ (Offered(l, x.id) \/ <<l, x.id>> \in history'.stale)
      BY <1>2, <2>2, UpdateLinkOffers
    <3>2. \A k \in Clerks : ~StripDeletedEvent(k)
      <4> SUFFICES ASSUME NEW k \in Clerks, StripDeletedEvent(k) PROVE FALSE
        OBVIOUS
      <4>1. job[c].op = "updateLink" /\ job[k].op = "stripEvent"
        BY <1>2 DEF UpdateLink, StripDeletedEvent, At
      <4>2. job' = [job EXCEPT ![c] = Idle]
        BY <1>2 DEF UpdateLink, Finish
      <4>3. job'[c] = Idle
        BY <4>2, JobWritten
      <4>4. job' = [job EXCEPT ![k] = [job[k] EXCEPT !.op = "dropEvent"]]
        BY DEF StripDeletedEvent, TypeOK
      <4>5. job'[c] = job[c]
        BY <4>1, <4>4, JobWritten
      <4> QED BY <4>1, <4>3, <4>5 DEF Idle
    <3> QED BY <3>1, <3>2, OfferStays
  <2> QED BY <1>1, <2>1, <2>2
<1>3. CASE SeedWrites /\ Row.table = "links"
  <2> DEFINE n == NextId(db.links)
  <2>1. CASE l # n
    BY <1>3, <2>1, SeedLinkOffers, OffersOfOthers
  <2>2. CASE l = n
    <3> DEFINE i == db'.links[l].institution
    <3>1. job' = job
      BY <1>3 DEF SeedWrites, SeedSave
    <3>2. Lasting(x.id, i) \/ <<l, x.id>> \in history'.stale
      BY <1>3, <2>2, SeedLinkOffers
    <3>3. db'.events = db.events
      BY <1>3, SoundTables DEF SeedWrites, Tables
    <3>4. ASSUME Lasting(x.id, i) PROVE Offered(l, x.id)'
      BY <3>1, <3>3, <3>4 DEF Offered, Lasting, LiveEvents, At
    <3> QED BY <3>2, <3>4
  <2> QED BY <2>1, <2>2
<1> QED BY <1>1, <1>2, <1>3, NextLinks

(* However deletions of events, forms and the script interleave, an entry  *)
(* stored for a product is of an event of the product's institution that   *)
(* is there, and stands for it, unless it was saved when that was not the  *)
(* institution's event, was deleted or being deleted, or a form of another *)
(* institution took the event over since.                                  *)
THEOREM EventsStayOffered == Spec => []StoredEventsOffered
<1>1. Init => OffersInv
  <2>1. Rows(<< >>) = {}
    BY DEF Rows
  <2> QED BY <2>1 DEF Init, DeskInit, EmptyDb, OffersInv
<1>2. TypeOK /\ OffersInv /\ [Next]_vars => OffersInv'
  <2>1. CASE UNCHANGED vars
    BY <2>1 DEF vars, deskVars, OffersInv, Offered, Lasting, LiveEvents, At
  <2> QED BY <2>1, NextOffers
<1>3. OffersInv => StoredEventsOffered
  BY DEF OffersInv, Offered, Lasting, StoredEventsOffered, Matches
<1> QED BY <1>1, <1>2, <1>3, CatalogueTyped, PTL DEF Spec

-----------------------------------------------------------------------------
(* The script by itself: the tables hold the first n of its rows and no    *)
(* others, each under the number it has in the script.                     *)

Seeded(d, n) ==
  /\ \A j \in 1 .. n : SeedRows[j].k \in DOMAIN d[SeedRows[j].table]
  /\ \A t \in SeedKinds : \A i \in DOMAIN d[t] :
        \E j \in 1 .. n : SeedRows[j].table = t /\ SeedRows[j].k = i
  /\ \A i \in DOMAIN d.institutions : i \in Rows(d.institutions) /\ d.institutions[i] = SeedContract
  /\ \A i \in DOMAIN d.events :
        /\ i \in Rows(d.events) /\ d.events[i].institution = 1
        /\ d.events[i].name = SeedEvents[i] /\ ~d.events[i].deleted
  /\ \A i \in DOMAIN d.users : i \in Rows(d.users) /\ d.users[i].email = SeedUsers[i].email
  /\ \A i \in DOMAIN d.products : i \in Rows(d.products) /\ d.products[i].name = SeedProducts[i].name
  /\ \A i \in DOMAIN d.links :
        i \in Rows(d.links) /\ d.links[i].product = i /\ d.links[i].institution = 1

(* The script has gone through rows that are there, and has found the next *)
(* one missing only if it is.                                              *)
SeedFollows(n) ==
  /\ Seeded(db, n)
  /\ seed.at <= n + 1
  /\ seed.missing => seed.at = n + 1
  /\ seed.done => n = Len(SeedRows)

SeedIds == \A j \in DOMAIN seed.ids : seed.ids[j] = SeedRows[j].k

(* Unless somebody else has made a request.                                *)
SeedInv ==
  /\ seed.runs <= jobs
  /\ jobs = seed.runs =>
       /\ \A c \in Clerks : job[c] = Idle
       /\ SeedIds
       /\ \E n \in 0 .. Len(SeedRows) : SeedFollows(n)

LEMMA RowsInOrder ==
  ASSUME NEW j \in 1 .. Len(SeedRows)
  PROVE  /\ SeedRows[j].table \in SeedKinds /\ SeedRows[j].k \in Nat /\ SeedRows[j].k > 0
         /\ \A i \in 1 .. SeedRows[j].k - 1 : \E h \in 1 .. j - 1 :
               SeedRows[h].table = SeedRows[j].table /\ SeedRows[h].k = i
<1> DEFINE e == Len(SeedEvents)
           u == Len(SeedUsers)
           p == Len(SeedProducts)
<1>1. /\ e \in Nat /\ u \in Nat /\ p \in Nat /\ j \in Nat
      /\ \A k \in 1 .. e : SeedRows[1 + k] = [table |-> "events", k |-> k]
      /\ \A k \in 1 .. u : SeedRows[1 + e + k] = [table |-> "users", k |-> k]
      /\ \A k \in 1 .. p : SeedRows[1 + e + u + k] = [table |-> "products", k |-> k]
      /\ \A k \in 1 .. p : SeedRows[1 + e + u + p + k] = [table |-> "links", k |-> k]
  BY SeedRowsPlaced
<1>2. SeedRows[1] = [table |-> "institutions", k |-> 1]
  BY SeedRowsPlaced
<1>3. LET r == SeedRows[j] IN
      \/ r.table = "institutions" /\ j = 1
      \/ r.table = "events" /\ r.k \in 1 .. e /\ j = 1 + r.k
      \/ r.table = "users" /\ r.k \in 1 .. u /\ j = 1 + e + r.k
      \/ r.table = "products" /\ r.k \in 1 .. p /\ j = 1 + e + u + r.k
      \/ r.table = "links" /\ r.k \in 1 .. p /\ j = 1 + e + u + p + r.k
  BY KindOfSeedRow
<1> HIDE DEF e, u, p
<1>4. SeedRows[j].table \in SeedKinds /\ SeedRows[j].k \in Nat /\ SeedRows[j].k > 0
  BY <1>1, <1>2, <1>3 DEF SeedKinds
<1>5. ASSUME NEW i \in 1 .. SeedRows[j].k - 1
      PROVE  \E h \in 1 .. j - 1 : SeedRows[h].table = SeedRows[j].table /\ SeedRows[h].k = i
  <2>1. i \in Nat /\ 1 <= i /\ i < SeedRows[j].k
    BY <1>4
  <2>2. CASE SeedRows[j].table = "institutions"
    BY <1>2, <1>3, <2>1, <2>2
  <2>3. ASSUME NEW b \in Nat, NEW t, NEW top \in Nat, SeedRows[j].table = t, SeedRows[j].k \in 1 .. top,
               j = b + SeedRows[j].k, b > 0,
               \A k \in 1 .. top : SeedRows[b + k] = [table |-> t, k |-> k]
        PROVE  \E h \in 1 .. j - 1 : SeedRows[h].table = SeedRows[j].table /\ SeedRows[h].k = i
    <3>1. i \in 1 .. top /\ b + i \in 1 .. j - 1
      BY <1>1, <2>1, <2>3
    <3>2. SeedRows[b + i] = [table |-> t, k |-> i]
      BY <2>3, <3>1, Zenon
    <3>3. SeedRows[b + i].table = t /\ SeedRows[b + i].k = i
      BY <3>2
    <3> QED BY <2>3, <3>1, <3>3, Zenon
  <2>4. CASE SeedRows[j].table = "events"
    <3>1. SeedRows[j].k \in 1 .. e /\ j = 1 + SeedRows[j].k /\ 1 \in Nat /\ 1 > 0
      BY <1>1, <1>3, <2>4
    <3>2. \A k \in 1 .. e : SeedRows[1 + k] = [table |-> "events", k |-> k]
      BY <1>1, Zenon
    <3> QED BY <1>1, <2>3, <2>4, <3>1, <3>2, Zenon
  <2>5. CASE SeedRows[j].table = "users"
    <3>1. SeedRows[j].k \in 1 .. u /\ j = 1 + e + SeedRows[j].k /\ 1 + e \in Nat /\ 1 + e > 0
      BY <1>1, <1>3, <2>5
    <3>2. \A k \in 1 .. u : SeedRows[1 + e + k] = [table |-> "users", k |-> k]
      BY <1>1, Zenon
    <3> QED BY <1>1, <2>3, <2>5, <3>1, <3>2, Zenon
  <2>6. CASE SeedRows[j].table = "products"
    <3>1. SeedRows[j].k \in 1 .. p /\ j = 1 + e + u + SeedRows[j].k /\ 1 + e + u \in Nat /\ 1 + e + u > 0
      BY <1>1, <1>3, <2>6
    <3>2. \A k \in 1 .. p : SeedRows[1 + e + u + k] = [table |-> "products", k |-> k]
      BY <1>1, Zenon
    <3> QED BY <1>1, <2>3, <2>6, <3>1, <3>2, Zenon
  <2>7. CASE SeedRows[j].table = "links"
    <3>1. SeedRows[j].k \in 1 .. p /\ j = 1 + e + u + p + SeedRows[j].k /\ 1 + e + u + p \in Nat /\ 1 + e + u + p > 0
      BY <1>1, <1>3, <2>7
    <3>2. \A k \in 1 .. p : SeedRows[1 + e + u + p + k] = [table |-> "links", k |-> k]
      BY <1>1, Zenon
    <3> QED BY <1>1, <2>3, <2>7, <3>1, <3>2, Zenon
  <2> QED BY <1>4, <2>2, <2>4, <2>5, <2>6, <2>7 DEF SeedKinds
<1> QED BY <1>4, <1>5

LEMMA RowsDiffer ==
  ASSUME NEW i \in 1 .. Len(SeedRows), NEW j \in 1 .. Len(SeedRows),
         SeedRows[i].table = SeedRows[j].table, SeedRows[i].k = SeedRows[j].k
  PROVE  i = j
<1> DEFINE e == Len(SeedEvents)
           u == Len(SeedUsers)
           p == Len(SeedProducts)
<1>1. /\ e \in Nat /\ u \in Nat /\ p \in Nat /\ i \in Nat /\ j \in Nat
  BY SeedRowsPlaced
<1>2. LET r == SeedRows[i] IN
      \/ r.table = "institutions" /\ i = 1
      \/ r.table = "events" /\ r.k \in 1 .. e /\ i = 1 + r.k
      \/ r.table = "users" /\ r.k \in 1 .. u /\ i = 1 + e + r.k
      \/ r.table = "products" /\ r.k \in 1 .. p /\ i = 1 + e + u + r.k
      \/ r.table = "links" /\ r.k \in 1 .. p /\ i = 1 + e + u + p + r.k
  BY KindOfSeedRow
<1>3. LET r == SeedRows[j] IN
      \/ r.table = "institutions" /\ j = 1
      \/ r.table = "events" /\ r.k \in 1 .. e /\ j = 1 + r.k
      \/ r.table = "users" /\ r.k \in 1 .. u /\ j = 1 + e + r.k
      \/ r.table = "products" /\ r.k \in 1 .. p /\ j = 1 + e + u + r.k
      \/ r.table = "links" /\ r.k \in 1 .. p /\ j = 1 + e + u + p + r.k
  BY KindOfSeedRow
<1> HIDE DEF e, u, p
<1> QED BY <1>1, <1>2, <1>3

(* The number the next row gets is the one it has in the script.           *)
LEMMA NextRowNumber ==
  ASSUME TypeOK, NEW n \in 0 .. Len(SeedRows), Seeded(db, n), NEW j \in 1 .. Len(SeedRows), j = n + 1
  PROVE  NextId(db[SeedRows[j].table]) = SeedRows[j].k
<1> DEFINE t == SeedRows[j].table
           m == SeedRows[j].k
<1>1. t \in SeedKinds /\ m \in Nat /\ m > 0 /\ j \in Nat /\ n \in Nat /\ Len(SeedRows) \in Nat
  BY RowsInOrder, SeedRowsPlaced
<1>2. DOMAIN db[t] = 1 .. Len(db[t]) /\ Len(db[t]) \in Nat
  BY <1>1 DEF TypeOK, Tables, Table, SeedKinds
<1>3. \A i \in 1 .. m - 1 : i \in DOMAIN db[t]
  <2> SUFFICES ASSUME NEW i \in 1 .. m - 1 PROVE i \in DOMAIN db[t]
    OBVIOUS
  <2>1. PICK h \in 1 .. j - 1 : SeedRows[h].table = t /\ SeedRows[h].k = i
    BY RowsInOrder
  <2>2. h \in 1 .. n
    BY <1>1, <2>1
  <2> QED BY <2>1, <2>2 DEF Seeded
<1>4. m \notin DOMAIN db[t]
  <2> SUFFICES ASSUME m \in DOMAIN db[t] PROVE FALSE
    OBVIOUS
  <2>1. PICK h \in 1 .. n : SeedRows[h].table = t /\ SeedRows[h].k = m
    BY <1>1 DEF Seeded
  <2>2. h \in 1 .. Len(SeedRows) /\ h # j
    BY <1>1, <2>1
  <2> QED BY <2>1, <2>2, RowsDiffer
<1> HIDE DEF t, m
<1>5. Len(db[t]) + 1 = m
  <2>1. ~(m <= Len(db[t]))
    BY <1>1, <1>2, <1>4
  <2>2. m - 1 > 0 => m - 1 \in 1 .. m - 1
    BY <1>1
  <2>3. m - 1 > 0 => m - 1 <= Len(db[t])
    BY <1>1, <1>2, <1>3, <2>2
  <2> QED BY <1>1, <1>2, <2>1, <2>3
<1> QED BY <1>5 DEF t, m, NextId

LEMMA IdsNumbered ==
  ASSUME TypeOK, SeedIds, seed.at > 0
  PROVE  /\ Row.table # "institutions" => SeedInstitution = 1
         /\ Row.table = "links" => ProductId(Row.k) = Row.k
<1> DEFINE e == Len(SeedEvents)
           u == Len(SeedUsers)
           p == Len(SeedProducts)
<1>1. /\ e \in Nat /\ u \in Nat /\ p \in Nat /\ seed.at \in 1 .. Len(SeedRows) /\ seed.at \in Nat
      /\ DOMAIN seed.ids = 1 .. seed.at - 1
      /\ SeedRows[1] = [table |-> "institutions", k |-> 1]
      /\ \A k \in 1 .. p : SeedRows[1 + e + u + k] = [table |-> "products", k |-> k]
  BY SeedRowsPlaced, SeedAtRow
<1>2. LET r == Row IN
      \/ r.table = "institutions" /\ seed.at = 1
      \/ r.table = "events" /\ r.k \in 1 .. e /\ seed.at = 1 + r.k
      \/ r.table = "users" /\ r.k \in 1 .. u /\ seed.at = 1 + e + r.k
      \/ r.table = "products" /\ r.k \in 1 .. p /\ seed.at = 1 + e + u + r.k
      \/ r.table = "links" /\ r.k \in 1 .. p /\ seed.at = 1 + e + u + p + r.k
  BY <1>1, KindOfSeedRow DEF Row
<1>3. ProductId(Row.k) = seed.ids[1 + e + u + Row.k]
  BY DEF ProductId
<1> HIDE DEF e, u, p
<1>4. ASSUME Row.table # "institutions" PROVE SeedInstitution = 1
  <2>1. 1 \in DOMAIN seed.ids
    BY <1>1, <1>2, <1>4
  <2>2. seed.ids[1] = SeedRows[1].k
    BY <2>1 DEF SeedIds
  <2> QED BY <1>1, <2>2 DEF SeedInstitution
<1>5. ASSUME Row.table = "links" PROVE ProductId(Row.k) = Row.k
  <2>1. Row.k \in 1 .. p /\ 1 + e + u + Row.k \in DOMAIN seed.ids
    BY <1>1, <1>2, <1>5
  <2>2. seed.ids[1 + e + u + Row.k] = SeedRows[1 + e + u + Row.k].k
    BY <2>1, Zenon DEF SeedIds
  <2>3. SeedRows[1 + e + u + Row.k] = [table |-> "products", k |-> Row.k]
    BY <1>1, <2>1, Zenon
  <2> QED BY <1>3, <2>2, <2>3
<1> QED BY <1>4, <1>5

(* Every row of the script's tables has the key of an example.             *)
LEMMA SeededKeys ==
  ASSUME NEW n \in 0 .. Len(SeedRows), NEW d, Seeded(d, n)
  PROVE  /\ \A i \in DOMAIN d.institutions : i = 1
         /\ \A i \in DOMAIN d.events : i \in DOMAIN SeedEvents
         /\ \A i \in DOMAIN d.users : i \in DOMAIN SeedUsers
         /\ \A i \in DOMAIN d.products : i \in DOMAIN SeedProducts
<1>1. /\ DOMAIN SeedEvents = 1 .. Len(SeedEvents) /\ DOMAIN SeedUsers = 1 .. Len(SeedUsers)
      /\ DOMAIN SeedProducts = 1 .. Len(SeedProducts) /\ Len(SeedRows) \in Nat
      /\ SeedRows[1] = [table |-> "institutions", k |-> 1]
  BY CatalogueAssumption, SeedRowsPlaced
<1>2. \A t \in SeedKinds : \A i \in DOMAIN d[t] :
         \E j \in 1 .. Len(SeedRows) : SeedRows[j].table = t /\ SeedRows[j].k = i
  <2>1. \A j \in 1 .. n : j \in 1 .. Len(SeedRows)
    BY <1>1
  <2> QED BY <2>1 DEF Seeded
<1>3. ASSUME NEW i \in DOMAIN d.institutions PROVE i = 1
  <2>1. PICK j \in 1 .. Len(SeedRows) : SeedRows[j].table = "institutions" /\ SeedRows[j].k = i
    BY <1>2 DEF SeedKinds
  <2> QED BY <1>1, <2>1, KindOfSeedRow
<1>4. ASSUME NEW i \in DOMAIN d.events PROVE i \in DOMAIN SeedEvents
  <2>1. PICK j \in 1 .. Len(SeedRows) : SeedRows[j].table = "events" /\ SeedRows[j].k = i
    BY <1>2 DEF SeedKinds
  <2> QED BY <1>1, <2>1, KindOfSeedRow
<1>5. ASSUME NEW i \in DOMAIN d.users PROVE i \in DOMAIN SeedUsers
  <2>1. PICK j \in 1 .. Len(SeedRows) : SeedRows[j].table = "users" /\ SeedRows[j].k = i
    BY <1>2 DEF SeedKinds
  <2> QED BY <1>1, <2>1, KindOfSeedRow
<1>6. ASSUME NEW i \in DOMAIN d.products PROVE i \in DOMAIN SeedProducts
  <2>1. PICK j \in 1 .. Len(SeedRows) : SeedRows[j].table = "products" /\ SeedRows[j].k = i
    BY <1>2 DEF SeedKinds
  <2> QED BY <1>1, <2>1, KindOfSeedRow
<1> QED BY <1>3, <1>4, <1>5, <1>6

(* What the script looks for is there exactly if it has saved it.          *)
LEMMA FoundSeeded ==
  ASSUME TypeOK, SeedIds, seed.at > 0, NEW n \in 0 .. Len(SeedRows), Seeded(db, n)
  PROVE  /\ \A id \in Found : id = Row.k /\ seed.at <= n
         /\ seed.at <= n => Row.k \in Found
<1>1. /\ seed.at \in 1 .. Len(SeedRows) /\ Row.table \in SeedKinds
      /\ Row.table = "events" => Row.k \in DOMAIN SeedEvents
      /\ Row.table = "users" => Row.k \in DOMAIN SeedUsers
      /\ Row.table = "products" => Row.k \in DOMAIN SeedProducts
      /\ Len(SeedRows) \in Nat
  BY SeedAtRow, SeedRowsPlaced
<1>2. Row.k \in DOMAIN db[Row.table] => seed.at <= n
  <2> SUFFICES ASSUME Row.k \in DOMAIN db[Row.table] PROVE seed.at <= n
    OBVIOUS
  <2>1. PICK j \in 1 .. n : SeedRows[j].table = Row.table /\ SeedRows[j].k = Row.k
    BY <1>1 DEF Seeded
  <2>2. j \in 1 .. Len(SeedRows)
    BY <1>1, <2>1
  <2>3. j = seed.at
    BY <1>1, <2>1, <2>2, RowsDiffer DEF Row
  <2> QED BY <1>1, <2>3
<1>3. seed.at <= n => Row.k \in DOMAIN db[Row.table]
  <2>1. seed.at <= n => seed.at \in 1 .. n
    BY <1>1
  <2> QED BY <2>1 DEF Seeded, Row
<1>4. /\ \A i \in DOMAIN db.institutions : i = 1
      /\ \A i \in DOMAIN db.events : i \in DOMAIN SeedEvents
      /\ \A i \in DOMAIN db.users : i \in DOMAIN SeedUsers
      /\ \A i \in DOMAIN db.products : i \in DOMAIN SeedProducts
  BY SeededKeys
<1>5. \A id : id \in Found <=> id = Row.k /\ id \in DOMAIN db[Row.table]
  <2>1. CASE Row.table = "institutions"
    <3>1. Row.k = 1
      <4>1. seed.at = 1
        BY <1>1, <2>1, KindOfSeedRow, Zenon DEF Row
      <4>2. SeedRows[1] = [table |-> "institutions", k |-> 1]
        BY SeedRowsPlaced
      <4> QED BY <4>1, <4>2 DEF Row
    <3>2. \A i \in DOMAIN db.institutions : i \in Rows(db.institutions) /\ db.institutions[i] = SeedContract
      BY DEF Seeded
    <3>3. Found = WithContract(db, SeedContract)
      BY <2>1 DEF Found
    <3> QED BY <1>4, <2>1, <3>1, <3>2, <3>3 DEF WithContract, Rows
  <2>2. CASE Row.table = "events"
    <3>1. SeedInstitution = 1
      BY <2>2, IdsNumbered
    <3> QED BY <1>1, <1>4, <2>2, <3>1, SeedKeysAssumption DEF Found, LiveEvents, Rows, Seeded
  <2>3. CASE Row.table = "users"
    BY <1>1, <1>4, <2>3, SeedKeysAssumption DEF Found, WithEmail, Rows, Seeded
  <2>4. CASE Row.table = "products"
    BY <1>1, <1>4, <2>4, SeedKeysAssumption DEF Found, Named, Rows, Seeded
  <2>5. CASE Row.table = "links"
    <3>1. SeedInstitution = 1 /\ ProductId(Row.k) = Row.k
      BY <2>5, IdsNumbered
    <3> QED BY <2>5, <3>1 DEF Found, LinksOf, Rows, Seeded
  <2> QED BY <1>1, <2>1, <2>2, <2>3, <2>4, <2>5 DEF SeedKinds
<1> QED BY <1>2, <1>3, <1>5

LEMMA NewRowTyped ==
  ASSUME TypeOK, seed.at > 0, SeedFits
  PROVE  /\ Row.table = "institutions" => NewRow \in Contracts
         /\ Row.table = "events" => NewRow \in EventRows
         /\ Row.table = "users" => NewRow \in UserRows
         /\ Row.table = "products" => NewRow \in ProductRows
         /\ Row.table = "links" => NewRow \in LinkRows
<1>1. ASSUME Row.table # "institutions", Row.table # "products" PROVE SeedInstitution \in Nat
  BY <1>1, SeedAtRow DEF SeedInstitution
<1>2. CASE Row.table = "institutions"
  BY <1>2, CatalogueAssumption DEF NewRow
<1>3. CASE Row.table = "events"
  <2>1. SeedEvents[Row.k] \in EventNames
    BY <1>3, SeedAtRow, SeedRowsTyped
  <2> QED BY <1>1, <1>3, <2>1 DEF NewRow, EventRows
<1>4. CASE Row.table = "users"
  <2>1. SeedUsers[Row.k] \in [email : Emails, identifier : Identifiers]
    BY <1>4, SeedAtRow, SeedRowsTyped, Zenon
  <2> QED BY <1>1, <1>4, <2>1 DEF NewRow, UserRows, Statuses
<1>5. CASE Row.table = "products"
  BY <1>5, SeedAtRow, SeedRowsTyped DEF NewRow
<1>6. CASE Row.table = "links"
  <2> DEFINE flag == SeedProducts[Row.k].flag
  <2>1. SeedProducts[Row.k] \in ProductRows /\ ProductId(Row.k) \in Nat
    BY <1>6, SeedAtRow, SeedRowsTyped
  <2>2. flag \in ShopFlags
    BY <2>1 DEF ProductRows
  <2> HIDE DEF flag
  <2>3. SeedDetails(flag) \in SUBSET Entries
    BY <1>6, SeedDetailsStored
  <2>4. NewRow = [product |-> ProductId(Row.k), institution |-> SeedInstitution,
                  flag |-> flag, details |-> SeedDetails(flag)]
    BY <1>6 DEF NewRow, flag
  <2> QED BY <1>1, <1>6, <2>1, <2>2, <2>3, <2>4 DEF LinkRows
<1> QED BY <1>2, <1>3, <1>4, <1>5, <1>6, SeedAtRow DEF SeedKinds

LEMMA SavedSeeded ==
  ASSUME TypeOK, SeedIds, SeedSave, SeedFits, NEW n \in 0 .. Len(SeedRows), Seeded(db, n), seed.at = n + 1
  PROVE  Seeded(db', n + 1) /\ Advance(Row.k)
<1> DEFINE t == Row.table
           m == Row.k
<1>1. /\ seed.at \in 1 .. Len(SeedRows) /\ t \in SeedKinds /\ n \in Nat /\ seed.at > 0
      /\ Row = SeedRows[seed.at] /\ seed.at \in 1 .. n + 1
  BY SeedAtRow, SeedRowsPlaced DEF SeedSave, Row
<1>2. NextId(db[t]) = m
  BY <1>1, NextRowNumber
<1>3. db' = [db EXCEPT ![t] = Append(db[t], NewRow)] /\ Advance(m)
  BY <1>2 DEF SeedSave
<1>4. db \in Tables
  BY DEF TypeOK
<1>5. ASSUME NEW S, db[t] \in Table(S), Gone \notin S, NewRow \in S
      PROVE  /\ DOMAIN db'[t] = DOMAIN db[t] \cup {m}
             /\ Rows(db'[t]) = Rows(db[t]) \cup {m}
             /\ db'[t][m] = NewRow
             /\ \A i \in DOMAIN db[t] : db'[t][i] = db[t][i]
  <2>1. db'[t] = Append(db[t], NewRow)
    BY <1>1, <1>3, <1>4 DEF Tables, SeedKinds
  <2>2. PICK table \in Table(S), row \in S : table = db[t] /\ row = NewRow
    BY <1>5
  <2>3. /\ DOMAIN Append(table, row) = DOMAIN table \cup {NextId(table)}
        /\ Rows(Append(table, row)) = Rows(table) \cup {NextId(table)}
        /\ Append(table, row)[NextId(table)] = row
        /\ \A i \in DOMAIN table : Append(table, row)[i] = table[i]
    BY <1>5, RowInserted
  <2> QED BY <1>2, <2>1, <2>2, <2>3, Zenon
<1>6. \A s \in SeedKinds : s # t => db'[s] = db[s]
  BY <1>1, <1>3, <1>4 DEF Tables, SeedKinds
<1>7. /\ DOMAIN db'[t] = DOMAIN db[t] \cup {m}
      /\ Rows(db'[t]) = Rows(db[t]) \cup {m}
      /\ db'[t][m] = NewRow
      /\ \A i \in DOMAIN db[t] : db'[t][i] = db[t][i]
  <2>1. CASE t = "institutions"
    BY <1>1, <1>4, <1>5, <2>1, TablesOf, GoneIsNoRow, NewRowTyped
  <2>2. CASE t = "events"
    BY <1>1, <1>4, <1>5, <2>2, TablesOf, GoneIsNoRow, NewRowTyped
  <2>3. CASE t = "users"
    BY <1>1, <1>4, <1>5, <2>3, TablesOf, GoneIsNoRow, NewRowTyped
  <2>4. CASE t = "products"
    BY <1>1, <1>4, <1>5, <2>4, TablesOf, GoneIsNoRow, NewRowTyped
  <2>5. CASE t = "links"
    BY <1>1, <1>4, <1>5, <2>5, TablesOf, GoneIsNoRow, NewRowTyped
  <2> QED BY <1>1, <2>1, <2>2, <2>3, <2>4, <2>5 DEF SeedKinds
<1>8. \A j \in 1 .. n + 1 : SeedRows[j].k \in DOMAIN db'[SeedRows[j].table]
  <2> SUFFICES ASSUME NEW j \in 1 .. n + 1 PROVE SeedRows[j].k \in DOMAIN db'[SeedRows[j].table]
    OBVIOUS
  <2>1. CASE j = n + 1
    BY <1>1, <1>7, <2>1
  <2>2. CASE j # n + 1
    <3>1. j \in 1 .. n /\ j \in 1 .. Len(SeedRows)
      BY <1>1, <2>2
    <3>2. SeedRows[j].k \in DOMAIN db[SeedRows[j].table] /\ SeedRows[j].table \in SeedKinds
      BY <3>1, RowsInOrder DEF Seeded
    <3> QED BY <1>6, <1>7, <3>2
  <2> QED BY <2>1, <2>2
<1>9. \A s \in SeedKinds : \A i \in DOMAIN db'[s] :
         \E j \in 1 .. n + 1 : SeedRows[j].table = s /\ SeedRows[j].k = i
  <2> SUFFICES ASSUME NEW s \in SeedKinds, NEW i \in DOMAIN db'[s]
               PROVE  \E j \in 1 .. n + 1 : SeedRows[j].table = s /\ SeedRows[j].k = i
    OBVIOUS
  <2>1. CASE s = t /\ i = m
    BY <1>1, <2>1
  <2>2. CASE ~(s = t /\ i = m)
    <3>1. i \in DOMAIN db[s]
      BY <1>6, <1>7, <2>2
    <3>2. PICK j \in 1 .. n : SeedRows[j].table = s /\ SeedRows[j].k = i
      BY <3>1 DEF Seeded
    <3> QED BY <1>1, <3>2
  <2> QED BY <2>1, <2>2
<1>10. \A i \in DOMAIN db'.institutions :
          i \in Rows(db'.institutions) /\ db'.institutions[i] = SeedContract
  <2>1. \A i \in DOMAIN db.institutions : i \in Rows(db.institutions) /\ db.institutions[i] = SeedContract
    BY DEF Seeded
  <2>2. CASE t = "institutions"
    <3>1. NewRow = SeedContract
      BY <2>2 DEF NewRow
    <3> QED BY <1>7, <2>1, <2>2, <3>1
  <2>3. CASE t # "institutions"
    <3>1. db'.institutions = db.institutions
      BY <1>6, <2>3 DEF SeedKinds
    <3> QED BY <2>1, <3>1
  <2> QED BY <2>2, <2>3
<1>11. \A i \in DOMAIN db'.events :
          /\ i \in Rows(db'.events) /\ db'.events[i].institution = 1
          /\ db'.events[i].name = SeedEvents[i] /\ ~db'.events[i].deleted
  <2>1. \A i \in DOMAIN db.events :
          /\ i \in Rows(db.events) /\ db.events[i].institution = 1
          /\ db.events[i].name = SeedEvents[i] /\ ~db.events[i].deleted
    BY DEF Seeded
  <2>2. CASE t = "events"
    <3>1. NewRow = [institution |-> 1, name |-> SeedEvents[m], deleted |-> FALSE]
      BY <1>1, <2>2, IdsNumbered DEF NewRow
    <3>2. NewRow.institution = 1 /\ NewRow.name = SeedEvents[m] /\ ~NewRow.deleted
      BY <3>1
    <3> QED BY <1>7, <2>1, <2>2, <3>2
  <2>3. CASE t # "events"
    <3>1. db'.events = db.events
      BY <1>6, <2>3 DEF SeedKinds
    <3> QED BY <2>1, <3>1
  <2> QED BY <2>2, <2>3
<1>12. \A i \in DOMAIN db'.users : i \in Rows(db'.users) /\ db'.users[i].email = SeedUsers[i].email
  <2>1. \A i \in DOMAIN db.users : i \in Rows(db.users) /\ db.users[i].email = SeedUsers[i].email
    BY DEF Seeded
  <2>2. CASE t = "users"
    <3>1. NewRow.email = SeedUsers[m].email
      BY <2>2 DEF NewRow
    <3> QED BY <1>7, <2>1, <2>2, <3>1
  <2>3. CASE t # "users"
    <3>1. db'.users = db.users
      BY <1>6, <2>3 DEF SeedKinds
    <3> QED BY <2>1, <3>1
  <2> QED BY <2>2, <2>3
<1>13. \A i \in DOMAIN db'.products :
          i \in Rows(db'.products) /\ db'.products[i].name = SeedProducts[i].name
  <2>1. \A i \in DOMAIN db.products :
           i \in Rows(db.products) /\ db.products[i].name = SeedProducts[i].name
    BY DEF Seeded
  <2>2. CASE t = "products"
    <3>1. NewRow.name = SeedProducts[m].name
      BY <2>2 DEF NewRow
    <3> QED BY <1>7, <2>1, <2>2, <3>1
  <2>3. CASE t # "products"
    <3>1. db'.products = db.products
      BY <1>6, <2>3 DEF SeedKinds
    <3> QED BY <2>1, <3>1
  <2> QED BY <2>2, <2>3
<1>14. \A i \in DOMAIN db'.links :
          i \in Rows(db'.links) /\ db'.links[i].product = i /\ db'.links[i].institution = 1
  <2>1. \A i \in DOMAIN db.links :
           i \in Rows(db.links) /\ db.links[i].product = i /\ db.links[i].institution = 1
    BY DEF Seeded
  <2>2. CASE t = "links"
    <3>1. NewRow.product = m /\ NewRow.institution = 1
      BY <1>1, <2>2, IdsNumbered DEF NewRow
    <3> QED BY <1>7, <2>1, <2>2, <3>1
  <2>3. CASE t # "links"
    <3>1. db'.links = db.links
      BY <1>6, <2>3 DEF SeedKinds
    <3> QED BY <2>1, <3>1
  <2> QED BY <2>2, <2>3
<1> QED BY <1>3, <1>8, <1>9, <1>10, <1>11, <1>12, <1>13, <1>14, Zenon DEF Seeded

-----------------------------------------------------------------------------
(* Somebody else at the desk either makes a request, or finishes one, or   *)
(* sells a photo, which touches no table of the script.                    *)

LEMMA BusyAt == ASSUME NEW c \in Clerks, NEW op, op # "idle", At(c, op) PROVE job[c] # Idle
  BY DEF At, Idle

Bystander ==
  \/ jobs' = jobs + 1
  \/ \E c \in Clerks : job[c] # Idle
  \/ /\ jobs' = jobs /\ job' = job
     /\ \E x : db' = [db EXCEPT !.lines = x]

LEMMA DeskBystands == ASSUME InstitutionNext \/ ProductNext \/ StudentNext PROVE Bystander
<1>1. CASE InstitutionNext
  <2>1. CASE CreateInstitution \/ MakeUpId \/ DeleteInstitution
    BY <2>1 DEF CreateInstitution, MakeUpId, DeleteInstitution, AtOnce, Bystander
  <2>2. ASSUME NEW c \in Clerks, OpenInstitution(c) \/ BeginDeleteEvent(c) PROVE Bystander
    BY <2>2 DEF OpenInstitution, BeginDeleteEvent, Begin, Bystander
  <2>3. ASSUME NEW c \in Clerks, UpdateInstitution(c) \/ StripDeletedEvent(c) \/ DropEvent(c) \/ Abandon(c)
        PROVE  Bystander
    BY <2>3, BusyAt DEF UpdateInstitution, StripDeletedEvent, DropEvent, Abandon, Bystander
  <2> QED BY <1>1, <2>1, <2>2, <2>3 DEF InstitutionNext
<1>2. CASE ProductNext
  <2>1. CASE DeleteProduct \/ DeleteLink
    BY <2>1 DEF DeleteProduct, DeleteLink, AtOnce, Bystander
  <2>2. ASSUME NEW c \in Clerks,
               BeginCreateProduct(c) \/ BeginUpdateProduct(c) \/ BeginCreateLink(c) \/ OpenLink(c)
        PROVE  Bystander
    BY <2>2 DEF BeginCreateProduct, BeginUpdateProduct, BeginCreateLink, OpenLink, Begin, Bystander
  <2>3. ASSUME NEW c \in Clerks,
               CreateProduct(c) \/ UpdateProduct(c) \/ CreateLink(c) \/ UpdateLink(c)
        PROVE  Bystander
    BY <2>3, BusyAt DEF CreateProduct, UpdateProduct, CreateLink, UpdateLink, Bystander
  <2> QED BY <1>2, <2>1, <2>2, <2>3 DEF ProductNext
<1>3. CASE StudentNext
  <2>1. CASE DeletePhoto
    BY <2>1 DEF DeletePhoto, AtOnce, Bystander
  <2>2. CASE SellPhoto
    <3>1. UNCHANGED <<job, jobs>>
      BY <2>2 DEF SellPhoto
    <3>2. \E x : db' = [db EXCEPT !.lines = x]
      BY <2>2 DEF SellPhoto
    <3> QED BY <3>1, <3>2 DEF Bystander
  <2>3. ASSUME NEW c \in Clerks,
               \/ BeginCreateUser(c) \/ BeginUpdateUser(c) \/ BeginUpdateProfile(c)
               \/ BeginDeleteUser(c) \/ BeginAddPhotos(c)
        PROVE  Bystander
    BY <2>3 DEF BeginCreateUser, BeginUpdateUser, BeginUpdateProfile, BeginDeleteUser, BeginAddPhotos,
         Begin, Bystander
  <2>4. ASSUME NEW c \in Clerks,
               CreateUser(c) \/ UpdateUser(c) \/ UpdateProfile(c) \/ DeleteUser(c) \/ AddPhoto(c)
        PROVE  Bystander
    BY <2>4, BusyAt DEF CreateUser, UpdateUser, UpdateProfile, DeleteUser, AddPhoto, Bystander
  <2> QED BY <1>3, <2>1, <2>2, <2>3, <2>4 DEF StudentNext
<1> QED BY <1>1, <1>2, <1>3

LEMMA SeededKept ==
  ASSUME NEW n, NEW d, NEW new, Seeded(d, n), \A j \in 1 .. n : SeedRows[j].table \in SeedKinds,
         \A t \in SeedKinds : new[t] = d[t]
  PROVE  Seeded(new, n)
<1>1. /\ new.institutions = d.institutions /\ new.events = d.events /\ new.users = d.users
      /\ new.products = d.products /\ new.links = d.links
  BY DEF SeedKinds
<1>2. \A j \in 1 .. n : SeedRows[j].k \in DOMAIN new[SeedRows[j].table]
  BY DEF Seeded
<1>3. \A t \in SeedKinds : \A i \in DOMAIN new[t] :
         \E j \in 1 .. n : SeedRows[j].table = t /\ SeedRows[j].k = i
  BY DEF Seeded
<1>4. \A i \in DOMAIN new.institutions :
         i \in Rows(new.institutions) /\ new.institutions[i] = SeedContract
  BY <1>1 DEF Seeded
<1>5. \A i \in DOMAIN new.events :
         /\ i \in Rows(new.events) /\ new.events[i].institution = 1
         /\ new.events[i].name = SeedEvents[i] /\ ~new.events[i].deleted
  BY <1>1 DEF Seeded
<1>6. /\ \A i \in DOMAIN new.users : i \in Rows(new.users) /\ new.users[i].email = SeedUsers[i].email
      /\ \A i \in DOMAIN new.products :
            i \in Rows(new.products) /\ new.products[i].name = SeedProducts[i].name
  BY <1>1 DEF Seeded
<1>7. \A i \in DOMAIN new.links :
         i \in Rows(new.links) /\ new.links[i].product = i /\ new.links[i].institution = 1
  BY <1>1 DEF Seeded
<1> QED BY <1>2, <1>3, <1>4, <1>5, <1>6, <1>7, Zenon DEF Seeded

LEMMA ScriptAdvanced ==
  ASSUME TypeOK, SeedIds, seed.at > 0, NEW n \in 0 .. Len(SeedRows), Seeded(db', n), seed.at <= n,
         seed.done => n = Len(SeedRows), Advance(Row.k)
  PROVE  SeedIds' /\ SeedFollows(n)'
<1>1. /\ seed.at \in 1 .. Len(SeedRows) /\ DOMAIN seed.ids = 1 .. seed.at - 1 /\ Len(SeedRows) \in Nat
      /\ seed.ids \in Seq(Nat) /\ Len(seed.ids) = seed.at - 1
      /\ seed \in [runs : Nat, at : 0 .. Len(SeedRows), missing : BOOLEAN, ids : Seq(Nat), done : BOOLEAN]
  BY SeedAtRow, SeedRowsPlaced DEF TypeOK
<1>2. Row.k = SeedRows[seed.at].k /\ Row.k \in Nat
  BY <1>1, RowsInOrder DEF Row
<1>3. CASE seed.at = Len(SeedRows)
  <2>1. seed' = Ended(seed.runs, TRUE)
    BY <1>3 DEF Advance
  <2>2. seed'.at = 0 /\ seed'.missing = FALSE /\ seed'.ids = << >> /\ n = Len(SeedRows)
    BY <1>1, <1>3, <2>1 DEF Ended
  <2> QED BY <1>1, <2>2 DEF SeedIds, SeedFollows
<1>4. CASE seed.at # Len(SeedRows)
  <2>1. seed' = [seed EXCEPT !.at = seed.at + 1, !.missing = FALSE, !.ids = Append(seed.ids, Row.k)]
    BY <1>4 DEF Advance
  <2>2. /\ seed'.at = seed.at + 1 /\ seed'.missing = FALSE /\ seed'.ids = Append(seed.ids, Row.k)
        /\ seed'.done = seed.done
    BY <1>1, <2>1
  <2>3. \A j \in DOMAIN seed'.ids : seed'.ids[j] = SeedRows[j].k
    <3>1. /\ DOMAIN Append(seed.ids, Row.k) = 1 .. seed.at
          /\ Append(seed.ids, Row.k)[seed.at] = Row.k
          /\ \A j \in DOMAIN seed.ids : Append(seed.ids, Row.k)[j] = seed.ids[j]
      BY <1>1, <1>2
    <3>2. \A j \in 1 .. seed.at : j = seed.at \/ j \in DOMAIN seed.ids
      BY <1>1
    <3> QED BY <1>2, <2>2, <3>1, <3>2 DEF SeedIds
  <2> QED BY <1>1, <2>2, <2>3 DEF SeedIds, SeedFollows
<1> QED BY <1>3, <1>4

LEMMA ScriptEnded ==
  ASSUME NEW n \in 0 .. Len(SeedRows), SeedFollows(n), UNCHANGED db, seed' = Ended(seed.runs, seed.done)
  PROVE  SeedIds' /\ SeedFollows(n)'
<1>1. seed'.at = 0 /\ seed'.missing = FALSE /\ seed'.ids = << >> /\ seed'.done = seed.done
  BY DEF Ended
<1>2. n \in Nat /\ Seeded(db', n)
  BY SeedRowsPlaced DEF SeedFollows
<1> QED BY <1>1, <1>2 DEF SeedIds, SeedFollows

LEMMA ScriptSteps ==
  ASSUME TypeOK, SeedIds, NEW n \in 0 .. Len(SeedRows), SeedFollows(n), SeedNext
  PROVE  SeedIds' /\ \E m \in 0 .. Len(SeedRows) : SeedFollows(m)'
<1>1. /\ n \in Nat /\ Len(SeedRows) \in Nat /\ seed.runs \in Nat
      /\ seed \in [runs : Nat, at : 0 .. Len(SeedRows), missing : BOOLEAN, ids : Seq(Nat), done : BOOLEAN]
      /\ seed.at = 0 => seed.ids = << >>
  BY SeedRowsPlaced DEF TypeOK
<1>2. CASE SeedStart
  <2>1. seed.at = 0 /\ UNCHANGED db /\ seed' = [seed EXCEPT !.at = 1, !.runs = @ + 1]
    BY <1>2 DEF SeedStart
  <2>2. seed'.at = 1 /\ seed'.ids = seed.ids /\ seed'.missing = seed.missing /\ seed'.done = seed.done
    BY <1>1, <2>1
  <2>3. ~seed.missing
    BY <1>1, <2>1 DEF SeedFollows
  <2>4. SeedIds' /\ SeedFollows(n)'
    BY <1>1, <2>1, <2>2, <2>3 DEF SeedIds, SeedFollows
  <2> QED BY <2>4
<1>3. CASE SeedStop
  BY <1>3, ScriptEnded DEF SeedStop, deskVars
<1>4. CASE SeedFind
  <2>1. seed.at > 0 /\ ~seed.missing /\ UNCHANGED db
    BY <1>4 DEF SeedFind
  <2>2. /\ \A id \in Found : id = Row.k /\ seed.at <= n
        /\ seed.at <= n => Row.k \in Found
    BY <2>1, FoundSeeded DEF SeedFollows
  <2>3. CASE Found = {}
    <3>1. seed' = [seed EXCEPT !.missing = TRUE]
      BY <1>4, <2>3 DEF SeedFind
    <3>2. seed'.at = seed.at /\ seed'.ids = seed.ids /\ seed'.missing = TRUE /\ seed'.done = seed.done
      BY <1>1, <3>1
    <3>3. seed.at = n + 1
      BY <1>1, <2>2, <2>3 DEF SeedFollows
    <3>4. SeedIds' /\ SeedFollows(n)'
      BY <1>1, <2>1, <3>2, <3>3 DEF SeedIds, SeedFollows
    <3> QED BY <3>4
  <2>4. CASE Found # {}
    <3>1. PICK id \in Found : Advance(id)
      BY <1>4, <2>4 DEF SeedFind
    <3>2. Advance(Row.k) /\ seed.at <= n
      BY <2>2, <3>1
    <3>3. SeedIds' /\ SeedFollows(n)'
      BY <2>1, <3>2, ScriptAdvanced DEF SeedFollows
    <3> QED BY <3>3
  <2> QED BY <2>3, <2>4
<1>5. CASE SeedSave /\ SeedFits
  <2>1. seed.at > 0 /\ seed.missing /\ seed.at = n + 1
    BY <1>5 DEF SeedSave, SeedFollows
  <2>2. Seeded(db', n + 1) /\ Advance(Row.k)
    BY <1>5, <2>1, SavedSeeded DEF SeedFollows
  <2>3. n + 1 \in 0 .. Len(SeedRows) /\ seed.at <= n + 1 /\ ~seed.done
    BY <1>1, <2>1 DEF SeedFollows
  <2>4. SeedIds' /\ SeedFollows(n + 1)'
    BY <2>1, <2>2, <2>3, ScriptAdvanced
  <2> QED BY <2>3, <2>4
<1>6. CASE SeedSave /\ ~SeedFits
  BY <1>6, ScriptEnded DEF SeedSave
<1> QED BY <1>2, <1>3, <1>4, <1>5, <1>6 DEF SeedNext

LEMMA SeedInvKept == ASSUME TypeOK, SeedInv, [Next]_vars PROVE SeedInv'
<1>1. jobs \in Nat /\ seed.runs \in Nat /\ Len(SeedRows) \in Nat
  BY SeedRowsPlaced DEF TypeOK
<1>2. CASE UNCHANGED vars
  BY <1>2 DEF vars, deskVars, SeedInv, SeedIds, SeedFollows
<1>3. CASE (InstitutionNext \/ ProductNext \/ StudentNext) /\ UNCHANGED seed
  <2>1. CASE jobs' = jobs + 1
    <3>1. seed'.runs <= jobs' /\ jobs' # seed'.runs
      BY <1>1, <1>3, <2>1 DEF SeedInv
    <3> QED BY <3>1 DEF SeedInv
  <2>2. CASE jobs' # jobs + 1
    <3>1. jobs' = jobs \/ jobs' = jobs + 1
      BY <1>3, JobsCount
    <3>2. CASE \E c \in Clerks : job[c] # Idle
      <4>1. jobs # seed.runs
        BY <3>2 DEF SeedInv
      <4> QED BY <1>3, <2>2, <3>1, <4>1 DEF SeedInv
    <3>3. CASE ~\E c \in Clerks : job[c] # Idle
      <4>1. job' = job /\ \E x : db' = [db EXCEPT !.lines = x]
        BY <1>3, <2>2, <3>3, DeskBystands DEF Bystander
      <4>2. \A t \in SeedKinds : db'[t] = db[t]
        BY <4>1 DEF TypeOK, Tables, SeedKinds
      <4>3. ASSUME NEW n \in 0 .. Len(SeedRows), Seeded(db, n) PROVE Seeded(db', n)
        <5>1. \A j \in 1 .. n : j \in 1 .. Len(SeedRows)
          BY <1>1
        <5>2. \A j \in 1 .. n : SeedRows[j].table \in SeedKinds
          BY <5>1, RowsInOrder
        <5> QED BY <4>2, <4>3, <5>2, SeededKept
      <4> QED BY <1>3, <2>2, <3>1, <4>1, <4>3 DEF SeedInv, SeedIds, SeedFollows
    <3> QED BY <3>2, <3>3
  <2> QED BY <2>1, <2>2
<1>4. CASE SeedNext
  <2>1. /\ job' = job /\ (jobs' = seed'.runs => jobs = seed.runs)
        /\ seed'.runs <= jobs'
    <3>1. CASE SeedStart
      <4>1. jobs' = jobs + 1 /\ job' = job /\ seed' = [seed EXCEPT !.at = 1, !.runs = seed.runs + 1]
        BY <3>1 DEF SeedStart
      <4>2. seed'.runs = seed.runs + 1
        BY <4>1 DEF TypeOK
      <4> QED BY <1>1, <4>1, <4>2 DEF SeedInv
    <3>2. CASE SeedFind \/ SeedSave \/ SeedStop
      <4>1. jobs' = jobs /\ job' = job
        BY <3>2 DEF SeedFind, SeedSave, SeedStop, deskVars
      <4>2. seed'.runs = seed.runs
        <5>1. ASSUME NEW id, Advance(id) PROVE seed'.runs = seed.runs
          BY <5>1 DEF Advance, Ended, TypeOK
        <5> QED BY <3>2, <5>1 DEF SeedFind, SeedSave, SeedStop, Ended, TypeOK
      <4> QED BY <4>1, <4>2 DEF SeedInv
    <3> QED BY <1>4, <3>1, <3>2 DEF SeedNext
  <2>2. ASSUME jobs = seed.runs PROVE SeedIds' /\ \E m \in 0 .. Len(SeedRows) : SeedFollows(m)'
    <3>1. SeedIds /\ \E n \in 0 .. Len(SeedRows) : SeedFollows(n)
      BY <2>2 DEF SeedInv
    <3> QED BY <1>4, <3>1, ScriptSteps
  <2> QED BY <2>1, <2>2 DEF SeedInv
<1> QED BY <1>2, <1>3, <1>4 DEF Next

(* As many rows are there as the script has gone through.                  *)
LEMMA SeededCounts ==
  ASSUME TypeOK, NEW n \in 0 .. Len(SeedRows), Seeded(db, n), NEW t \in SeedKinds
  PROVE  LET wanted == {j \in DOMAIN SeedRows : SeedRows[j].table = t}
         IN  Len(db[t]) <= Cardinality(wanted) /\ (n = Len(SeedRows) => Len(db[t]) = Cardinality(wanted))
<1> DEFINE wanted == {j \in DOMAIN SeedRows : SeedRows[j].table = t}
           saved == {j \in 1 .. n : SeedRows[j].table = t}
           number == [j \in saved |-> SeedRows[j].k]
<1>1. /\ DOMAIN SeedRows = 1 .. Len(SeedRows) /\ Len(SeedRows) \in Nat
      /\ DOMAIN db[t] = 1 .. Len(db[t]) /\ Len(db[t]) \in Nat
  BY SeedRowsPlaced DEF TypeOK, Tables, Table, SeedKinds
<1>2. saved \in SUBSET wanted /\ (n = Len(SeedRows) => saved = wanted)
  <2>1. \A j \in saved : j \in wanted
    BY <1>1
  <2>2. n = Len(SeedRows) => saved = wanted
    BY <1>1
  <2> QED BY <2>1, <2>2
<1>3. IsFiniteSet(wanted)
  <2>1. IsFiniteSet(1 .. Len(SeedRows)) /\ wanted \in SUBSET (1 .. Len(SeedRows))
    BY <1>1, FS_Interval
  <2> QED BY <2>1, FS_Subset
<1>4. IsFiniteSet(saved) /\ Cardinality(saved) <= Cardinality(wanted)
  BY <1>2, <1>3, FS_Subset
<1>5. number \in Bijection(saved, DOMAIN db[t])
  <2>1. number \in [saved -> DOMAIN db[t]]
    BY DEF Seeded
  <2>2. \A i, j \in saved : number[i] = number[j] => i = j
    <3>1. \A j \in saved : j \in 1 .. Len(SeedRows)
      BY <1>1
    <3> QED BY <3>1, RowsDiffer
  <2>3. \A i \in DOMAIN db[t] : \E j \in saved : number[j] = i
    BY DEF Seeded
  <2> HIDE DEF number, saved
  <2>4. number \in Injection(saved, DOMAIN db[t])
    BY <2>1, <2>2 DEF Injection, IsInjective
  <2>5. number \in Surjection(saved, DOMAIN db[t])
    BY <2>1, <2>3 DEF Surjection
  <2> QED BY <2>4, <2>5 DEF Bijection
<1> HIDE DEF wanted, saved, number
<1>6. Cardinality(DOMAIN db[t]) = Cardinality(saved)
  <2>1. ExistsBijection(saved, DOMAIN db[t])
    BY <1>5 DEF ExistsBijection
  <2> QED BY <1>4, <2>1, FS_Bijection, Zenon
<1>7. Cardinality(1 .. Len(db[t])) = Len(db[t])
  <2>1. ASSUME NEW top \in Nat PROVE Cardinality(1 .. top) = top
    BY <2>1, FS_Interval
  <2>2. Len(db[t]) \in Nat
    BY <1>1
  <2> QED BY <2>1, <2>2, Zenon
<1>8. Len(db[t]) <= Cardinality(wanted) /\ (n = Len(SeedRows) => Len(db[t]) = Cardinality(wanted))
  BY <1>1, <1>2, <1>4, <1>6, <1>7
<1> QED BY <1>8 DEF wanted

(* However often the script is stopped and started again, as long as       *)
(* nobody else is at work it saves each of its rows once, and a run that   *)
(* gets to its end has left none out.                                      *)
THEOREM SeedSavesEachRowOnce == Spec => []SeedSavesOnce
<1>1. Init => SeedInv
  <2> SUFFICES ASSUME Init PROVE SeedInv
    OBVIOUS
  <2>1. /\ db = EmptyDb /\ job = [c \in Clerks |-> Idle] /\ jobs = 0
        /\ seed.runs = 0 /\ seed.at = 0 /\ seed.ids = << >> /\ ~seed.missing /\ ~seed.done
    BY DEF Init, DeskInit, SeedInit, Ended
  <2>2. Seeded(EmptyDb, 0)
    BY DEF Seeded, EmptyDb, SeedKinds
  <2>3. 0 \in 0 .. Len(SeedRows)
    BY SeedRowsPlaced
  <2>4. SeedFollows(0) /\ SeedIds
    BY <2>1, <2>2 DEF SeedFollows, SeedIds
  <2> QED BY <2>1, <2>3, <2>4 DEF SeedInv
<1>2. TypeOK /\ SeedInv => SeedSavesOnce
  <2> SUFFICES ASSUME TypeOK, SeedInv, jobs = seed.runs, NEW k \in DOMAIN SeedRows
               PROVE  LET table == SeedRows[k].table
                          wanted == {n \in DOMAIN SeedRows : SeedRows[n].table = table}
                      IN  /\ Len(db[table]) <= Cardinality(wanted)
                          /\ seed.done => Len(db[table]) = Cardinality(wanted)
    BY DEF SeedSavesOnce
  <2>1. SeedRows[k].table \in SeedKinds
    <3>1. k \in 1 .. Len(SeedRows)
      BY SeedRowsPlaced
    <3> QED BY <3>1, RowsInOrder
  <2>2. PICK n \in 0 .. Len(SeedRows) : SeedFollows(n)
    BY DEF SeedInv
  <2> QED BY <2>1, <2>2, SeededCounts DEF SeedFollows
<1> QED BY <1>1, <1>2, SeedInvKept, CatalogueTyped, PTL DEF Spec
=============================================================================
