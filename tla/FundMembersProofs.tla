-------------------------- MODULE FundMembersProofs --------------------------
(***************************************************************************)
(* Proofs about FundMembers, for any number of people, hosts, wallets and  *)
(* threads that approve.                                                   *)
(*                                                                         *)
(* Records only grow (Grows): none is removed, no Telegram id, approval or *)
(* number is taken back and a wallet is filled in once.  The first record  *)
(* of a person therefore stays the first one, which is why the button's    *)
(* link, made from a second read, names the member who was approved.       *)
(***************************************************************************)
EXTENDS FundMembers, FiniteSetTheorems, WellFoundedInduction, TLAPS

LEMMA Smallest ==
    ASSUME NEW S, S \subseteq Nat, S # {}
    PROVE  \E i \in S : \A j \in S : i <= j
<1> DEFINE R == OpToRel(<, Nat)
<1>1. \E i \in S : \A j \in S : ~(<<j, i>> \in R)
  BY NatLessThanWellFounded, WFMin
<1>2. \A i, j \in Nat : j < i => <<j, i>> \in R
  BY DEF OpToRel
<1> HIDE DEF R
<1>3. PICK i \in S : \A j \in S : ~(<<j, i>> \in R)
  BY <1>1
<1>4. \A j \in S : i \in Nat /\ j \in Nat /\ ~(j < i)
  BY <1>2, <1>3, Zenon
<1>5. \A j \in S : i <= j
  BY <1>4
<1> QED BY <1>5

\* member() finds the first record with that id or wallet, if there is one.
LEMMA MemberFound ==
    ASSUME NEW ms \in Seq(Member), NEW who
    PROVE  LET hits == {i \in DOMAIN ms : who # None /\ who \in {ms[i].telegram_id, ms[i].address}} IN
           \/ hits = {} /\ member(ms, who) = 0
           \/ member(ms, who) \in hits /\ \A j \in hits : member(ms, who) <= j
<1> DEFINE hits == {i \in DOMAIN ms : who # None /\ who \in {ms[i].telegram_id, ms[i].address}}
<1>1. hits \subseteq Nat
  OBVIOUS
<1>2. member(ms, who) = IF hits = {} THEN 0 ELSE CHOOSE i \in hits : \A j \in hits : i <= j
  BY DEF member
<1> HIDE DEF hits
<1>3. hits # {} => \E i \in hits : \A j \in hits : i <= j
  BY <1>1, Smallest
<1>4. \/ hits = {} /\ member(ms, who) = 0
      \/ member(ms, who) \in hits /\ \A j \in hits : member(ms, who) <= j
  BY <1>2, <1>3
<1> QED BY <1>4 DEF hits

-----------------------------------------------------------------------------
\* What every write does to the records.
Grows(ms, new) ==
    /\ new \in Seq(Member) /\ Len(ms) <= Len(new)
    /\ \A i \in DOMAIN ms :
        /\ new[i].telegram_id = ms[i].telegram_id
        /\ new[i].approved = ms[i].approved /\ new[i].member_no = ms[i].member_no
        /\ new[i].address = ms[i].address \/ ms[i].address = None
    /\ \A i \in DOMAIN new \ DOMAIN ms : ~new[i].approved /\ new[i].member_no = 0

LEMMA WithAddress ==
    ASSUME NEW ms \in Seq(Member), NEW i \in DOMAIN ms, NEW addr \in Wallets \cup {None}
    PROVE  Grows(ms, [ms EXCEPT ![i] = with_address(@, addr)])
<1> DEFINE m == with_address(ms[i], addr)
<1>1. ms[i] \in Member
  OBVIOUS
<1>2. /\ m \in Member /\ m.telegram_id = ms[i].telegram_id
      /\ m.approved = ms[i].approved /\ m.member_no = ms[i].member_no
      /\ m.address = ms[i].address \/ ms[i].address = None
  BY <1>1 DEF with_address, Member
<1> HIDE DEF m
<1>3. Grows(ms, [ms EXCEPT ![i] = m])
  BY <1>2 DEF Grows
<1> QED BY <1>3 DEF m

LEMMA NewRecord ==
    ASSUME NEW ms \in Seq(Member), NEW tg \in Users \cup {None}, NEW addr \in Wallets \cup {None}
    PROVE  Grows(ms, Append(ms, new_member(tg, addr)))
<1> DEFINE m == new_member(tg, addr)
<1>1. m \in Member /\ ~m.approved /\ m.member_no = 0
  BY DEF new_member, Member
<1> HIDE DEF m
<1>2. Grows(ms, Append(ms, m))
  BY <1>1 DEF Grows
<1> QED BY <1>2 DEF m

LEMMA Requested ==
    ASSUME NEW ms \in Seq(Member), NEW tg \in Users, NEW addr \in Wallets \cup {None}
    PROVE  Grows(ms, requested(ms, tg, addr))
<1> DEFINE i == IF member(ms, tg) # 0 THEN member(ms, tg) ELSE member(ms, addr)
<1>1. i # 0 => i \in DOMAIN ms
  BY MemberFound
<1>2. requested(ms, tg, addr) = IF i # 0 THEN [ms EXCEPT ![i] = with_address(@, addr)]
                                ELSE Append(ms, new_member(tg, addr))
  BY DEF requested
<1> HIDE DEF i
<1> QED BY <1>1, <1>2, WithAddress, NewRecord

LEMMA Named ==
    ASSUME NEW ms \in Seq(Member), NEW who \in Users \cup Wallets, NEW addr \in Wallets \cup {None}
    PROVE  Grows(ms, named(ms, who, addr))
<1> DEFINE i == IF member(ms, who) # 0 THEN member(ms, who) ELSE member(ms, addr)
<1>1. i # 0 => i \in DOMAIN ms
  BY MemberFound
<1>2. named(ms, who, addr) = IF i # 0 THEN [ms EXCEPT ![i] = with_address(@, addr)]
                             ELSE IF who \in Wallets THEN Append(ms, new_member(None, who))
                             ELSE IF addr # None THEN Append(ms, new_member(who, addr))
                             ELSE ms
  BY DEF named
<1>3. Grows(ms, ms)
  BY DEF Grows
<1> HIDE DEF i
<1> QED BY <1>1, <1>2, <1>3, WithAddress, NewRecord

-----------------------------------------------------------------------------
Approved(ms) == {j \in DOMAIN ms : ms[j].approved}

\* Record i is the first one of person u.
First(ms, u, i) == i \in DOMAIN ms /\ ms[i].telegram_id = u /\ \A j \in 1..i-1 : ms[j].telegram_id # u

Typed ==
    /\ members \in Seq(Member) /\ next_no \in Nat \ {0}
    /\ linked \in [Users -> Wallets \cup {None}] /\ joining \subseteq Users
    /\ calls \in [Approvers -> Call] /\ links \subseteq Wallets

Numbered(ms, n) ==
    /\ \A i \in DOMAIN ms : ms[i].approved <=> ms[i].member_no # 0
    /\ \A i \in Approved(ms) : ms[i].address # None /\ ms[i].member_no \in 1..(n - 1)
    /\ \A k \in 1..(n - 1) : \E i \in Approved(ms) : ms[i].member_no = k
    /\ IsFiniteSet(Approved(ms)) /\ Cardinality(Approved(ms)) = n - 1

Linked(ms, ws) == \A w \in ws : \E i \in DOMAIN ms : ms[i].approved /\ ms[i].address = w

\* What an approval under way knows.
Informed(ms, c) ==
    /\ c.pc # "idle" => c.who \in Users \cup Wallets
    /\ c.pc = "link" => c.who \in Users
    /\ c.pc # "idle" /\ c.button => c.who \in Users
    /\ c.pc \in {"lookup", "approve"} /\ c.button => c.address = None
    /\ c.pc = "sign" => c.button /\ \E i \in Approved(ms) : First(ms, c.who, i)

MemberInv ==
    /\ Typed /\ Numbered(members, next_no) /\ Linked(members, links)
    /\ \A a \in Approvers : Informed(members, calls[a])

\* A write that only adds and fills in changes none of it.
LEMMA GrowthKeeps ==
    ASSUME NEW ms \in Seq(Member), NEW new, Grows(ms, new)
    PROVE  /\ \A n \in Nat : Numbered(ms, n) => Numbered(new, n)
           /\ \A n \in Nat, ws \in SUBSET Wallets : Numbered(ms, n) /\ Linked(ms, ws) => Linked(new, ws)
           /\ \A c \in Call : Informed(ms, c) => Informed(new, c)
<1>1. /\ DOMAIN ms \subseteq DOMAIN new /\ new \in Seq(Member)
      /\ \A i \in DOMAIN ms : /\ ms[i].approved \in BOOLEAN /\ ms[i].approved = new[i].approved
                              /\ new[i].member_no = ms[i].member_no
                              /\ new[i].telegram_id = ms[i].telegram_id
                              /\ new[i].address = ms[i].address \/ ms[i].address = None
      /\ \A i \in DOMAIN new \ DOMAIN ms : ~new[i].approved /\ new[i].member_no = 0
  <2>1. new \in Seq(Member) /\ Len(ms) <= Len(new)
    BY DEF Grows
  <2>2. DOMAIN ms \subseteq DOMAIN new
    BY <2>1
  <2>3. \A i \in DOMAIN ms : ms[i].approved \in BOOLEAN
    <3>1. \A i \in DOMAIN ms : ms[i] \in Member
      OBVIOUS
    <3> QED BY <3>1 DEF Member
  <2> QED BY <2>1, <2>2, <2>3 DEF Grows
<1>2. Approved(new) = Approved(ms)
  BY <1>1 DEF Approved
<1>3. ASSUME NEW n \in Nat, Numbered(ms, n)
      PROVE  Numbered(new, n) /\ \A i \in Approved(ms) : new[i].address = ms[i].address
  <2>1. \A i \in DOMAIN new : new[i].approved <=> new[i].member_no # 0
    <3>1. \A i \in DOMAIN ms : ms[i].approved <=> ms[i].member_no # 0
      BY <1>3 DEF Numbered
    <3> QED BY <1>1, <3>1
  <2>2. \A i \in Approved(ms) : /\ i \in DOMAIN ms /\ new[i].address = ms[i].address
                                /\ new[i].member_no = ms[i].member_no
    <3>1. \A i \in Approved(ms) : i \in DOMAIN ms /\ ms[i].address # None
      BY <1>3 DEF Numbered, Approved
    <3> QED BY <1>1, <3>1
  <2>3. /\ \A i \in Approved(ms) : ms[i].address # None /\ ms[i].member_no \in 1..(n - 1)
        /\ \A k \in 1..(n - 1) : \E i \in Approved(ms) : ms[i].member_no = k
        /\ IsFiniteSet(Approved(ms)) /\ Cardinality(Approved(ms)) = n - 1
    BY <1>3 DEF Numbered
  <2>4. \A i \in Approved(new) : new[i].address # None /\ new[i].member_no \in 1..(n - 1)
    BY <1>2, <2>2, <2>3
  <2>5. \A k \in 1..(n - 1) : \E i \in Approved(new) : new[i].member_no = k
    BY <1>2, <2>2, <2>3
  <2> QED BY <1>2, <2>1, <2>2, <2>3, <2>4, <2>5 DEF Numbered
<1>4. ASSUME NEW n \in Nat, NEW ws \in SUBSET Wallets, Numbered(ms, n), Linked(ms, ws)
      PROVE  Linked(new, ws)
  <2> SUFFICES ASSUME NEW w \in ws PROVE \E i \in DOMAIN new : new[i].approved /\ new[i].address = w
    BY DEF Linked
  <2>1. PICK i \in Approved(ms) : ms[i].address = w
    BY <1>4 DEF Linked, Approved
  <2>2. new[i].address = w /\ i \in Approved(new)
    BY <1>2, <1>3, <1>4, <2>1
  <2> QED BY <2>2 DEF Approved
<1>5. ASSUME NEW u, NEW i \in Approved(ms), First(ms, u, i) PROVE First(new, u, i)
  <2>1. i \in DOMAIN ms /\ i \in Nat
    BY DEF Approved
  <2>2. \A j \in 1..i-1 : j \in DOMAIN ms
    BY <2>1
  <2> QED BY <1>1, <1>5, <2>1, <2>2 DEF First
<1>6. \A c \in Call : Informed(ms, c) => Informed(new, c)
  BY <1>2, <1>5 DEF Informed
<1> QED BY <1>3, <1>4, <1>6

\* The approval itself: the record gets the next number and is the link's from now on.
LEMMA Stamped ==
    ASSUME NEW ms \in Seq(Member), NEW n \in Nat \ {0}, NEW i \in DOMAIN ms, NEW ws \in SUBSET Wallets,
           Numbered(ms, n), Linked(ms, ws), ~ms[i].approved, ms[i].address # None
    PROVE  LET new == [ms EXCEPT ![i].approved = TRUE, ![i].member_no = n] IN
           /\ new \in Seq(Member) /\ Numbered(new, n + 1)
           /\ Linked(new, ws \cup {ms[i].address}) /\ ms[i].address \in Wallets
           /\ \A c \in Call : Informed(ms, c) => Informed(new, c)
           /\ \A u : First(ms, u, i) => First(new, u, i) /\ i \in Approved(new)
<1> DEFINE m == [ms[i] EXCEPT !.approved = TRUE, !.member_no = n]
           new == [ms EXCEPT ![i] = m]
<1>1. ms[i] \in Member
  OBVIOUS
<1>2. /\ m \in Member /\ m.approved = TRUE /\ m.member_no = n
      /\ m.telegram_id = ms[i].telegram_id /\ m.address = ms[i].address
      /\ ms[i].address \in Wallets
  BY <1>1 DEF Member
<1>3. [ms EXCEPT ![i].approved = TRUE, ![i].member_no = n] = new
  OBVIOUS
<1> HIDE DEF m
<1>4. /\ new \in Seq(Member) /\ DOMAIN new = DOMAIN ms /\ new[i] = m
      /\ \A j \in DOMAIN ms \ {i} : new[j] = ms[j]
  BY <1>2
<1> HIDE DEF new
<1>5. Approved(new) = Approved(ms) \cup {i} /\ i \notin Approved(ms)
  BY <1>2, <1>4 DEF Approved
<1>6. Numbered(new, n + 1)
  <2>1. IsFiniteSet(Approved(ms)) /\ Cardinality(Approved(ms)) = n - 1
    BY DEF Numbered
  <2>2. IsFiniteSet(Approved(new)) /\ Cardinality(Approved(new)) = (n + 1) - 1
    <3>1. /\ IsFiniteSet(Approved(ms) \cup {i})
          /\ Cardinality(Approved(ms) \cup {i}) =
                IF i \in Approved(ms) THEN Cardinality(Approved(ms)) ELSE Cardinality(Approved(ms)) + 1
      BY <2>1, FS_AddElement, Zenon
    <3>2. IsFiniteSet(Approved(new)) /\ Cardinality(Approved(new)) = Cardinality(Approved(ms)) + 1
      BY <1>5, <3>1
    <3> QED BY <2>1, <3>2
  <2>3. \A j \in DOMAIN new : new[j].approved <=> new[j].member_no # 0
    <3>1. n # 0 /\ \A j \in DOMAIN ms : ms[j].approved <=> ms[j].member_no # 0
      BY DEF Numbered
    <3> QED BY <1>2, <1>4, <3>1
  <2>4. \A j \in Approved(ms) : j \in DOMAIN ms \ {i}
    BY <1>5 DEF Approved
  <2>5. ASSUME NEW j \in Approved(new)
        PROVE  new[j].address # None /\ new[j].member_no \in 1..((n + 1) - 1)
    <3>1. CASE j = i
      BY <1>2, <1>4, <3>1
    <3>2. CASE j # i
      <4>1. j \in Approved(ms) /\ new[j] = ms[j]
        BY <1>4, <1>5, <2>4, <3>2
      <4>2. ms[j].address # None /\ ms[j].member_no \in 1..(n - 1)
        BY <4>1 DEF Numbered
      <4> QED BY <4>1, <4>2
    <3> QED BY <3>1, <3>2
  <2>6. ASSUME NEW k \in 1..((n + 1) - 1)
        PROVE  \E j \in Approved(new) : new[j].member_no = k
    <3>1. CASE k = n
      BY <1>2, <1>4, <1>5, <3>1
    <3>2. CASE k # n
      <4>1. k \in 1..(n - 1)
        BY <3>2
      <4>2. PICK j \in Approved(ms) : ms[j].member_no = k
        BY <4>1 DEF Numbered
      <4> QED BY <1>4, <1>5, <2>4, <4>2
    <3> QED BY <3>1, <3>2
  <2> QED BY <2>2, <2>3, <2>5, <2>6 DEF Numbered
<1>7. Linked(new, ws \cup {ms[i].address})
  <2> SUFFICES ASSUME NEW w \in ws \cup {ms[i].address}
               PROVE  \E j \in DOMAIN new : new[j].approved /\ new[j].address = w
    BY DEF Linked
  <2>1. CASE w = ms[i].address
    BY <1>2, <1>4, <2>1
  <2>2. CASE w \in ws
    <3>1. PICK j \in DOMAIN ms : ms[j].approved /\ ms[j].address = w
      BY <2>2 DEF Linked
    <3> QED BY <1>4, <3>1
  <2> QED BY <2>1, <2>2
<1>8. ASSUME NEW u, NEW j \in DOMAIN ms, First(ms, u, j) PROVE First(new, u, j)
  <2>1. \A k \in 1..j-1 : k \in DOMAIN ms
    OBVIOUS
  <2>2. \A k \in DOMAIN ms : new[k].telegram_id = ms[k].telegram_id
    BY <1>2, <1>4
  <2> QED BY <1>4, <1>8, <2>1, <2>2 DEF First
<1>9. \A c \in Call : Informed(ms, c) => Informed(new, c)
  <2>1. \A j \in Approved(ms) : j \in DOMAIN ms /\ j \in Approved(new)
    BY <1>5 DEF Approved
  <2> QED BY <1>8, <2>1 DEF Informed
<1>10. \A u : First(ms, u, i) => First(new, u, i) /\ i \in Approved(new)
  BY <1>5, <1>8
<1> QED BY <1>2, <1>3, <1>4, <1>6, <1>7, <1>9, <1>10

\* A person, who is no wallet, is found at the first record of their Telegram id.
LEMMA PersonFirst ==
    ASSUME NEW ms \in Seq(Member), NEW u \in Users
    PROVE  /\ member(ms, u) # 0 => First(ms, u, member(ms, u))
           /\ \A i \in DOMAIN ms : First(ms, u, i) => member(ms, u) = i
<1> DEFINE hits == {i \in DOMAIN ms : u # None /\ u \in {ms[i].telegram_id, ms[i].address}}
<1>1. u # None /\ u \notin Wallets
  BY MemberAssumption
<1>2. \A i \in DOMAIN ms : ms[i].address \in Wallets \cup {None}
  <2>1. \A i \in DOMAIN ms : ms[i] \in Member
    OBVIOUS
  <2> QED BY <2>1 DEF Member
<1>3. hits = {i \in DOMAIN ms : ms[i].telegram_id = u}
  BY <1>1, <1>2
<1>4. \/ hits = {} /\ member(ms, u) = 0
      \/ member(ms, u) \in hits /\ \A j \in hits : member(ms, u) <= j
  BY MemberFound
<1> HIDE DEF hits
<1>5. \A i \in DOMAIN ms : i \in Nat /\ i # 0 /\ \A j \in 1..i-1 : j \in DOMAIN ms
  OBVIOUS
<1>6. member(ms, u) # 0 => First(ms, u, member(ms, u))
  <2> SUFFICES ASSUME member(ms, u) # 0 PROVE First(ms, u, member(ms, u))
    OBVIOUS
  <2> DEFINE i == member(ms, u)
  <2>1. i \in DOMAIN ms /\ ms[i].telegram_id = u /\ \A j \in hits : i <= j
    BY <1>3, <1>4
  <2> HIDE DEF i
  <2>2. \A j \in 1..i-1 : ms[j].telegram_id # u
    BY <1>3, <1>5, <2>1
  <2>3. First(ms, u, i)
    BY <2>1, <2>2 DEF First
  <2> QED BY <2>3 DEF i
<1>7. ASSUME NEW i \in DOMAIN ms, First(ms, u, i) PROVE member(ms, u) = i
  <2> DEFINE k == member(ms, u)
  <2>1. i \in hits
    BY <1>3, <1>7 DEF First
  <2>2. k \in DOMAIN ms /\ ms[k].telegram_id = u /\ k <= i
    BY <1>3, <1>4, <2>1
  <2> HIDE DEF k
  <2>3. ~(k < i)
    BY <1>5, <1>7, <2>2 DEF First
  <2>4. k = i
    BY <1>5, <2>2, <2>3
  <2> QED BY <2>4 DEF k
<1> QED BY <1>6, <1>7

-----------------------------------------------------------------------------
LEMMA NoCallTyped == NoCall \in Call /\ NoCall.pc = "idle" /\ \A ms : Informed(ms, NoCall)
  BY DEF NoCall, Call, Informed

\* A thread that moves on within its approval.
LEMMA CallMoves ==
    ASSUME MemberInv, NEW a \in Approvers, NEW c \in Call, calls' = [calls EXCEPT ![a] = c],
           Informed(members, c), UNCHANGED <<members, next_no, linked, joining, links>>
    PROVE  MemberInv'
<1>1. Typed'
  BY DEF MemberInv, Typed
<1>2. ASSUME NEW b \in Approvers PROVE Informed(members, calls'[b])
  BY DEF MemberInv, Typed
<1>3. members' = members /\ next_no' = next_no /\ links' = links
  OBVIOUS
<1> QED BY <1>1, <1>2, <1>3 DEF MemberInv

\* A write that only adds or fills in records, with a thread that moves on or none.
LEMMA RecordsGrow ==
    ASSUME MemberInv, Grows(members, members'), joining' \subseteq Users,
           UNCHANGED <<next_no, linked, links>>, calls' \in [Approvers -> Call],
           \A a \in Approvers : Informed(members, calls'[a])
    PROVE  MemberInv'
<1>1. members \in Seq(Member) /\ next_no \in Nat /\ links \in SUBSET Wallets
  BY DEF MemberInv, Typed
<1>2. /\ Numbered(members', next_no) /\ Linked(members', links)
      /\ \A c \in Call : Informed(members, c) => Informed(members', c)
  BY <1>1, GrowthKeeps DEF MemberInv
<1>3. Typed'
  BY DEF MemberInv, Typed, Grows
<1>4. \A a \in Approvers : Informed(members', calls'[a])
  BY <1>2
<1>5. next_no' = next_no /\ links' = links
  OBVIOUS
<1> QED BY <1>2, <1>3, <1>4, <1>5 DEF MemberInv

LEMMA Begins ==
    ASSUME MemberInv, NEW a \in Approvers, ApproveBegin(a)
    PROVE  MemberInv'
<1>1. PICK caller \in Users \cup Hosts \cup {None}, who \in Users \cup Wallets,
           addr \in Wallets \cup {None}, button \in BOOLEAN :
        /\ button => (caller # None /\ who \in Users /\ addr = None)
        /\ calls' = [calls EXCEPT ![a] =
               [pc |-> IF addr = None THEN "lookup" ELSE "approve", who |-> who,
                address |-> addr, caller |-> caller, button |-> button]]
  BY DEF ApproveBegin
<1> DEFINE c == [pc |-> IF addr = None THEN "lookup" ELSE "approve", who |-> who,
                 address |-> addr, caller |-> caller, button |-> button]
<1>2. c \in Call /\ Informed(members, c)
  BY <1>1 DEF Call, Informed
<1>3. calls' = [calls EXCEPT ![a] = c]
  BY <1>1
<1> HIDE DEF c
<1> QED BY <1>2, <1>3, CallMoves DEF ApproveBegin

LEMMA Looks ==
    ASSUME MemberInv, NEW a \in Approvers, Lookup(a)
    PROVE  MemberInv'
<1>1. calls[a] \in Call /\ Informed(members, calls[a]) /\ calls[a].pc = "lookup"
      /\ linked \in [Users -> Wallets \cup {None}]
  BY DEF MemberInv, Typed, Lookup
<1>2. CASE calls[a].who \in Users /\ linked[calls[a].who] # None
           /\ calls' = [calls EXCEPT ![a].pc = "link", ![a].address = linked[calls[a].who]]
  <2> DEFINE c == [calls[a] EXCEPT !.pc = "link", !.address = linked[calls[a].who]]
  <2>1. c \in Call /\ c.pc = "link" /\ c.who = calls[a].who /\ c.button = calls[a].button
    BY <1>1, <1>2 DEF Call
  <2>2. calls' = [calls EXCEPT ![a] = c]
    BY <1>2
  <2> HIDE DEF c
  <2>3. Informed(members, c)
    BY <1>2, <2>1 DEF Informed
  <2> QED BY <2>1, <2>2, <2>3, CallMoves DEF Lookup
<1>3. CASE calls' = [calls EXCEPT ![a].pc = "approve"]
  <2> DEFINE c == [calls[a] EXCEPT !.pc = "approve"]
  <2>1. c \in Call /\ c.pc = "approve" /\ c.who = calls[a].who /\ c.button = calls[a].button
        /\ c.address = calls[a].address
    BY <1>1 DEF Call
  <2>2. calls' = [calls EXCEPT ![a] = c]
    BY <1>3
  <2> HIDE DEF c
  <2>3. Informed(members, c)
    BY <1>1, <2>1 DEF Informed
  <2> QED BY <2>1, <2>2, <2>3, CallMoves DEF Lookup
<1> QED BY <1>2, <1>3 DEF Lookup

LEMMA LinkWrites ==
    ASSUME MemberInv, NEW a \in Approvers, LinkWrite(a)
    PROVE  MemberInv'
<1>1. /\ calls[a] \in Call /\ Informed(members, calls[a]) /\ calls[a].pc = "link"
      /\ members \in Seq(Member) /\ calls \in [Approvers -> Call] /\ joining \subseteq Users
  BY DEF MemberInv, Typed, LinkWrite
<1>2. calls[a].who \in Users /\ calls[a].address \in Wallets \cup {None}
  BY <1>1 DEF Informed, Call
<1>3. Grows(members, members')
  BY <1>1, <1>2, Requested DEF LinkWrite
<1> DEFINE c == [calls[a] EXCEPT !.pc = "approve", !.address = None]
<1>4. c \in Call /\ c.pc = "approve" /\ c.who = calls[a].who /\ c.address = None
  BY <1>1 DEF Call
<1>5. calls' = [calls EXCEPT ![a] = c]
  BY DEF LinkWrite
<1> HIDE DEF c
<1>6. Informed(members, c)
  BY <1>2, <1>4 DEF Informed
<1>7. calls' \in [Approvers -> Call] /\ \A b \in Approvers : Informed(members, calls'[b])
  BY <1>1, <1>4, <1>5, <1>6 DEF MemberInv
<1> QED BY <1>1, <1>3, <1>7, RecordsGrow DEF LinkWrite

LEMMA JoinWrites ==
    ASSUME MemberInv, NEW u \in Users, JoinWrite(u)
    PROVE  MemberInv'
<1>1. /\ members \in Seq(Member) /\ calls \in [Approvers -> Call] /\ joining' \subseteq Users
      /\ UNCHANGED <<next_no, linked, links, calls>>
  BY DEF MemberInv, Typed, JoinWrite
<1>2. Grows(members, members')
  BY <1>1, Requested DEF JoinWrite
<1>3. \A b \in Approvers : Informed(members, calls'[b])
  BY <1>1 DEF MemberInv
<1> QED BY <1>1, <1>2, <1>3, RecordsGrow

\* The approval under the lock: granted, it stamps the record the lookup ends at, and
\* the link is made at once or, from the button, by a thread that has seen the person's
\* first record approved.
LEMMA Approves ==
    ASSUME MemberInv, NEW a \in Approvers, Approve(a)
    PROVE  MemberInv'
<1> DEFINE c == calls[a]
           ms == named(members, c.who, c.address)
           i == place(ms, c.who, c.address)
           new == [ms EXCEPT ![i].approved = TRUE, ![i].member_no = next_no]
<1>1. /\ c \in Call /\ Informed(members, c) /\ c.pc = "approve" /\ calls \in [Approvers -> Call]
      /\ members \in Seq(Member) /\ next_no \in Nat \ {0} /\ links \in SUBSET Wallets
      /\ linked \in [Users -> Wallets \cup {None}] /\ joining \subseteq Users
      /\ UNCHANGED <<linked, joining>>
  BY DEF MemberInv, Typed, Approve
<1>2. c.who \in Users \cup Wallets /\ c.address \in Wallets \cup {None}
  BY <1>1 DEF Informed, Call
<1>3. Grows(members, ms)
  BY <1>1, <1>2, Named
<1>4. CASE /\ check_approve_member(ms, i) /\ members' = new /\ next_no' = next_no + 1
           /\ IF c.button
              THEN calls' = [calls EXCEPT ![a].pc = "sign"] /\ UNCHANGED links
              ELSE calls' = [calls EXCEPT ![a] = NoCall] /\ links' = links \cup {ms[i].address}
  <2>1. /\ ms \in Seq(Member) /\ Numbered(ms, next_no) /\ Linked(ms, links)
        /\ \A b \in Approvers : Informed(ms, calls[b])
    <3>1. next_no \in Nat
      BY <1>1
    <3>2. ms \in Seq(Member)
      BY <1>3 DEF Grows
    <3>3. /\ Numbered(members, next_no) /\ Linked(members, links)
          /\ \A b \in Approvers : Informed(members, calls[b])
      BY DEF MemberInv
    <3> HIDE DEF ms
    <3> QED BY <1>1, <1>3, <3>1, <3>2, <3>3, GrowthKeeps
  <2> DEFINE w == ms[i].address
  <2> HIDE DEF c, ms
  <2>2. i # 0 /\ ~ms[i].approved /\ w # None
    BY <1>4 DEF check_approve_member
  <2>3. i \in DOMAIN ms
    BY <2>1, <2>2, MemberFound DEF place
  <2>4. /\ new \in Seq(Member) /\ Numbered(new, next_no + 1) /\ w \in Wallets
        /\ Linked(new, links \cup {w})
        /\ \A d \in Call : Informed(ms, d) => Informed(new, d)
        /\ \A u : First(ms, u, i) => First(new, u, i) /\ i \in Approved(new)
    BY <1>1, <2>1, <2>2, <2>3, Stamped
  <2>5. c.button => c.who \in Users /\ c.address = None
    BY <1>1 DEF Informed
  <2>6. c.button => First(new, c.who, i) /\ i \in Approved(new)
    <3> SUFFICES ASSUME c.button PROVE First(ms, c.who, i)
      BY <2>4
    <3>1. c.address = None /\ c.who \in Users
      BY <2>5
    <3>2. member(ms, None) = 0
      BY <2>1, MemberFound
    <3>3. i = member(ms, c.who)
      BY <2>2, <3>1, <3>2 DEF place
    <3> QED BY <2>1, <2>2, <3>1, <3>3, PersonFirst
  <2> HIDE DEF new, i, w
  <2>7. \A b \in Approvers : Informed(new, calls[b])
    BY <1>1, <2>1, <2>4
  <2>8. CASE ~c.button
    <3>1. calls' = [calls EXCEPT ![a] = NoCall] /\ links' = links \cup {w}
      BY <1>4, <2>8 DEF w
    <3>2. calls' \in [Approvers -> Call] /\ \A b \in Approvers : Informed(new, calls'[b])
      BY <1>1, <2>7, <3>1, NoCallTyped
    <3>3. Typed'
      BY <1>1, <1>4, <2>4, <3>1, <3>2 DEF Typed
    <3> QED BY <1>4, <2>4, <3>1, <3>2, <3>3 DEF MemberInv
  <2>9. CASE c.button
    <3> DEFINE d == [c EXCEPT !.pc = "sign"]
    <3>1. d \in Call /\ d.pc = "sign" /\ d.who = c.who /\ d.button = c.button
      BY <1>1 DEF Call
    <3>2. calls' = [calls EXCEPT ![a] = d] /\ links' = links
      BY <1>4, <2>9 DEF c
    <3> HIDE DEF d
    <3>3. Informed(new, d)
      BY <2>5, <2>6, <2>9, <3>1 DEF Informed
    <3>4. calls' \in [Approvers -> Call] /\ \A b \in Approvers : Informed(new, calls'[b])
      BY <1>1, <2>7, <3>1, <3>2, <3>3
    <3>5. Linked(new, links)
      BY <2>4 DEF Linked
    <3>6. Typed'
      BY <1>1, <1>4, <2>4, <3>2, <3>4 DEF Typed
    <3> QED BY <1>4, <2>4, <3>2, <3>4, <3>5, <3>6 DEF MemberInv
  <2> QED BY <2>8, <2>9
<1>5. CASE calls' = [calls EXCEPT ![a] = NoCall] /\ UNCHANGED <<members, next_no, links>>
  BY <1>1, <1>5, NoCallTyped, CallMoves
<1> QED BY <1>4, <1>5 DEF Approve, take_no

\* The button's link is made from a second read, which finds the record approved.
LEMMA HostLinks ==
    ASSUME MemberInv, NEW a \in Approvers, HostLink(a)
    PROVE  MemberInv'
<1> DEFINE i == member(members, calls[a].who)
           given == IF i = 0 THEN {} ELSE {members[i].address} \ {None}
<1>1. /\ members \in Seq(Member) /\ calls[a] \in Call /\ Informed(members, calls[a])
      /\ calls[a].pc = "sign" /\ links \subseteq Wallets /\ calls \in [Approvers -> Call]
      /\ calls' = [calls EXCEPT ![a] = NoCall]
      /\ UNCHANGED <<members, next_no, linked, joining>>
  BY DEF MemberInv, Typed, HostLink
<1>2. PICK k \in Approved(members) : First(members, calls[a].who, k)
  BY <1>1 DEF Informed
<1>3. calls[a].who \in Users /\ k \in DOMAIN members
  BY <1>1 DEF Informed, Approved
<1>4. i = k
  BY <1>1, <1>2, <1>3, PersonFirst
<1>5. members[k] \in Member /\ members[k].approved /\ k # 0
  BY <1>1, <1>3 DEF Approved
<1>6. given \subseteq {members[k].address} /\ given \subseteq Wallets
  BY <1>4, <1>5 DEF Member
<1>7. links' \subseteq links \cup given
  BY DEF HostLink
<1> HIDE DEF i, given
<1>8. Linked(members, links')
  BY <1>3, <1>5, <1>6, <1>7 DEF MemberInv, Linked
<1>9. Typed'
  BY <1>1, <1>6, <1>7, NoCallTyped DEF MemberInv, Typed
<1>10. \A b \in Approvers : Informed(members, calls'[b])
  BY <1>1, NoCallTyped DEF MemberInv
<1> QED BY <1>1, <1>8, <1>9, <1>10 DEF MemberInv

LEMMA Elsewhere ==
    ASSUME MemberInv, UNCHANGED <<members, next_no, calls, links>>,
           linked' \in [Users -> Wallets \cup {None}], joining' \subseteq Users
    PROVE  MemberInv'
<1>1. Typed'
  BY DEF MemberInv, Typed
<1>2. members' = members /\ next_no' = next_no /\ calls' = calls /\ links' = links
  OBVIOUS
<1> QED BY <1>1, <1>2 DEF MemberInv

LEMMA MembersStart == Init => MemberInv
<1> SUFFICES ASSUME Init PROVE MemberInv
  OBVIOUS
<1>1. Typed
  BY NoCallTyped DEF Init, Typed
<1>2. members = <<>> /\ next_no = 1 /\ links = {}
  BY DEF Init
<1>3. Approved(members) = {}
  BY <1>2 DEF Approved
<1>4. IsFiniteSet({}) /\ Cardinality({}) = 0
  BY FS_EmptySet
<1>5. Numbered(members, next_no)
  BY <1>2, <1>3, <1>4 DEF Numbered
<1>6. Linked(members, links)
  BY <1>2 DEF Linked
<1>7. \A a \in Approvers : Informed(members, calls[a])
  BY NoCallTyped DEF Init
<1> QED BY <1>1, <1>5, <1>6, <1>7 DEF MemberInv

LEMMA MembersStep == MemberInv /\ [Next]_vars => MemberInv'
<1> SUFFICES ASSUME MemberInv, [Next]_vars PROVE MemberInv'
  OBVIOUS
<1>1. linked \in [Users -> Wallets \cup {None}] /\ joining \subseteq Users
  BY DEF MemberInv, Typed
<1>2. CASE FundBind \/ BackWrite \/ Progress \/ UNCHANGED vars
  BY <1>1, <1>2, Elsewhere DEF FundBind, BackWrite, Progress, vars, people
<1>3. ASSUME NEW u \in Users, LinkWallet(u) \/ Join(u) \/ JoinAgain(u) \/ BackTap(u)
      PROVE  MemberInv'
  BY <1>1, <1>3, Elsewhere DEF LinkWallet, Join, JoinAgain, BackTap, people
<1>4. ASSUME NEW u \in Users, JoinWrite(u) PROVE MemberInv'
  BY <1>4, JoinWrites
<1>5. ASSUME NEW a \in Approvers,
             ApproveBegin(a) \/ Lookup(a) \/ LinkWrite(a) \/ Approve(a) \/ HostLink(a)
      PROVE  MemberInv'
  BY <1>5, Begins, Looks, LinkWrites, Approves, HostLinks
<1>6. ASSUME NEW who \in Users \cup Wallets, NEW side, VoteTool(who, side) PROVE MemberInv'
  BY <1>1, <1>6, Elsewhere DEF VoteTool, people
<1>7. ASSUME NEW g \in Agents, NEW verdict, Review(g, verdict) PROVE MemberInv'
  BY <1>1, <1>7, Elsewhere DEF Review, people
<1> QED BY <1>2, <1>3, <1>4, <1>5, <1>6, <1>7 DEF Next

-----------------------------------------------------------------------------
\* FundService.approve_member numbers members 1, 2, ... without a gap or a repetition,
\* however many threads approve whom, by id or by wallet.
THEOREM NumbersAreInOrder == Spec => []NumbersInOrder
<1>1. MemberInv => NumbersInOrder
  <2> SUFFICES ASSUME MemberInv PROVE NumbersInOrder
    OBVIOUS
  <2>1. Numbered(members, next_no)
    BY DEF MemberInv
  <2>2. {j \in DOMAIN members : members[j].approved} = Approved(members)
    BY DEF Approved
  <2>3. {members[i].member_no : i \in Approved(members)} = 1..(next_no - 1)
    BY <2>1 DEF Numbered
  <2> QED BY <2>1, <2>2, <2>3 DEF Numbered, NumbersInOrder
<1> QED BY <1>1, MembersStart, MembersStep, PTL DEF Spec

\* Every signing body made after an approval, also the button's, which reads the members a
\* second time, names the wallet of an approved member, then and ever after.
THEOREM LinksNameMembers == Spec => []LinkNamesMember
<1>1. MemberInv => LinkNamesMember
  BY DEF MemberInv, Linked, LinkNamesMember
<1> QED BY <1>1, MembersStart, MembersStep, PTL DEF Spec

-----------------------------------------------------------------------------
(* Votes.                                                                  *)

\* Approved records stay approved, under the voice they vote with.
SameVoices(ms, new) ==
    \A i \in DOMAIN ms : ms[i].approved =>
        i \in DOMAIN new /\ new[i].approved /\ tid(new[i]) = tid(ms[i])

\* A record's voice is its Telegram id or else its wallet, and approved records have one.
LEMMA GrowthKeepsVoices ==
    ASSUME NEW ms \in Seq(Member), NEW new, Grows(ms, new), NEW n \in Nat, Numbered(ms, n)
    PROVE  SameVoices(ms, new)
<1> SUFFICES ASSUME NEW i \in DOMAIN ms, ms[i].approved
             PROVE  i \in DOMAIN new /\ new[i].approved /\ tid(new[i]) = tid(ms[i])
  BY DEF SameVoices
<1>1. ms[i].address # None
  BY DEF Numbered, Approved
<1>2. new \in Seq(Member) /\ Len(ms) <= Len(new) /\ i \in 1..Len(ms)
  BY DEF Grows
<1>3. i \in DOMAIN new
  BY <1>2
<1>4. new[i].telegram_id = ms[i].telegram_id /\ new[i].approved = ms[i].approved
      /\ new[i].address = ms[i].address
  BY <1>1 DEF Grows
<1> QED BY <1>3, <1>4 DEF tid

\* No step takes an approved member's voice away.
LEMMA VoicesStay ==
    ASSUME MemberInv, [Next]_vars
    PROVE  SameVoices(members, members')
<1>0. members \in Seq(Member) /\ next_no \in Nat /\ Numbered(members, next_no)
  BY DEF MemberInv, Typed
<1>1. ASSUME UNCHANGED members PROVE SameVoices(members, members')
  BY <1>1 DEF SameVoices
<1>2. ASSUME Grows(members, members') PROVE SameVoices(members, members')
  BY <1>0, <1>2, GrowthKeepsVoices
<1>3. ASSUME NEW u \in Users, JoinWrite(u) PROVE SameVoices(members, members')
  BY <1>0, <1>2, <1>3, Requested DEF JoinWrite
<1>4. ASSUME NEW a \in Approvers, LinkWrite(a) PROVE SameVoices(members, members')
  <2>1. calls[a].who \in Users /\ calls[a].address \in Wallets \cup {None}
    BY <1>4 DEF MemberInv, Typed, LinkWrite, Informed, Call
  <2> QED BY <1>0, <1>2, <1>4, <2>1, Requested DEF LinkWrite
<1>5. ASSUME NEW a \in Approvers, Approve(a) PROVE SameVoices(members, members')
  <2> DEFINE ms == named(members, calls[a].who, calls[a].address)
             i == place(ms, calls[a].who, calls[a].address)
  <2>1. calls[a].who \in Users \cup Wallets /\ calls[a].address \in Wallets \cup {None}
    BY <1>5 DEF MemberInv, Typed, Approve, Informed, Call
  <2>2. Grows(members, ms)
    BY <1>0, <2>1, Named
  <2>3. ms \in Seq(Member) /\ SameVoices(members, ms)
    BY <1>0, <2>2, GrowthKeepsVoices DEF Grows
  <2>4. \/ UNCHANGED members
        \/ /\ check_approve_member(ms, i)
           /\ members' = [ms EXCEPT ![i].approved = TRUE, ![i].member_no = next_no]
    BY <1>5 DEF Approve, take_no
  <2> HIDE DEF ms
  <2>5. CASE /\ check_approve_member(ms, i)
             /\ members' = [ms EXCEPT ![i].approved = TRUE, ![i].member_no = next_no]
    <3>1. i # 0
      BY <2>5 DEF check_approve_member
    <3>2. i \in DOMAIN ms
      BY <2>3, <3>1, MemberFound DEF place
    <3> HIDE DEF i
    <3>3. ms[i] \in Member
      BY <2>3, <3>2
    <3> DEFINE m == [ms[i] EXCEPT !.approved = TRUE, !.member_no = next_no]
    <3>4. m.approved = TRUE /\ tid(m) = tid(ms[i])
      BY <3>3 DEF Member, tid
    <3>5. members' = [ms EXCEPT ![i] = m]
      BY <2>5
    <3> HIDE DEF m
    <3>6. DOMAIN members' = DOMAIN ms /\ \A j \in DOMAIN ms :
            (ms[j].approved => members'[j].approved) /\ tid(members'[j]) = tid(ms[j])
      BY <2>3, <3>2, <3>4, <3>5
    <3> QED BY <2>3, <3>6 DEF SameVoices
  <2> QED BY <1>1, <2>4, <2>5
<1> QED BY <1>1, <1>3, <1>4, <1>5 DEF Next, vars, people, FundBind, BackWrite, Progress, LinkWallet, Join,
            JoinAgain, BackTap, ApproveBegin, Lookup, HostLink, VoteTool, Review

Heard(ms, x) == \E i \in DOMAIN ms : ms[i].approved /\ tid(ms[i]) = x

VoiceInv ==
    /\ backers \in [Voters -> Nat] /\ objectors \in [Voters -> Nat] /\ reviews \in [Opinions -> Nat]
    /\ OneVoice

\* A member who may vote votes with the voice of an approved record, and the vote takes
\* back whatever that voice said before.
LEMMA VoteCounts ==
    ASSUME MemberInv, VoiceInv, NEW who, NEW side, check_member_vote(who), record_vote(who, side)
    PROVE  /\ backers' \in [Voters -> Nat] /\ objectors' \in [Voters -> Nat]
           /\ \A x \in Voters : backers'[x] + objectors'[x] <= 1
           /\ \A x \in Voters : backers'[x] + objectors'[x] > 0 => Heard(members, x)
<1> DEFINE i == member(members, who)
           x == tid(members[i])
<1>1. i # 0 /\ members[i].approved /\ members \in Seq(Member)
  BY DEF check_member_vote, MemberInv, Typed
<1>2. i \in DOMAIN members
  BY <1>1, MemberFound
<1> HIDE DEF i
<1>3. members[i] \in Member /\ members[i].address # None
  <2>1. members[i] \in Member
    BY <1>1, <1>2
  <2> QED BY <1>1, <1>2, <2>1 DEF MemberInv, Numbered, Approved
<1>4. x \in Voters
  BY <1>3 DEF tid, Member, Voters
<1>5. Heard(members, x)
  BY <1>1, <1>2 DEF Heard
<1>6. /\ backers' = IF side = "back" THEN appended(without(backers, x), x) ELSE without(backers, x)
      /\ objectors' = IF side = "object" THEN appended(without(objectors, x), x) ELSE without(objectors, x)
  BY DEF record_vote, i
<1> HIDE DEF x
<1>7. /\ backers' \in [Voters -> Nat] /\ backers'[x] = IF side = "back" THEN 1 ELSE 0
      /\ \A y \in Voters \ {x} : backers'[y] = backers[y]
  BY <1>4, <1>6 DEF VoiceInv, appended, without
<1>8. /\ objectors' \in [Voters -> Nat] /\ objectors'[x] = IF side = "object" THEN 1 ELSE 0
      /\ \A y \in Voters \ {x} : objectors'[y] = objectors[y]
  BY <1>4, <1>6 DEF VoiceInv, appended, without
<1>9. ASSUME NEW y \in Voters
      PROVE  backers'[y] + objectors'[y] <= 1 /\ (backers'[y] + objectors'[y] > 0 => Heard(members, y))
  <2>1. CASE y = x
    BY <1>5, <1>7, <1>8, <2>1
  <2>2. CASE y # x
    <3>1. backers'[y] = backers[y] /\ objectors'[y] = objectors[y]
      BY <1>7, <1>8, <2>2
    <3> QED BY <3>1 DEF VoiceInv, OneVoice, Heard
  <2> QED BY <2>1, <2>2
<1> QED BY <1>7, <1>8, <1>9

\* A review replaces the agent's last one.
LEMMA ReviewCounts ==
    ASSUME VoiceInv, NEW g \in Agents, NEW verdict \in {"back", "object"}, Review(g, verdict)
    PROVE  /\ reviews' \in [Opinions -> Nat]
           /\ \A h \in Agents : reviews'[<<h, "back">>] + reviews'[<<h, "object">>] <= 1
<1> DEFINE others == [o \in Opinions |-> IF o[1] = g THEN 0 ELSE reviews[o]]
<1>1. reviews' = [others EXCEPT ![<<g, verdict>>] = @ + 1]
  BY DEF Review, appended
<1>2. /\ others \in [Opinions -> Nat] /\ <<g, verdict>> \in Opinions
      /\ \A h \in Agents, v \in {"back", "object"} :
            /\ <<h, v>> \in Opinions
            /\ others[<<h, v>>] = IF h = g THEN 0 ELSE reviews[<<h, v>>]
  BY DEF VoiceInv, Opinions
<1> HIDE DEF others
<1>3. reviews' \in [Opinions -> Nat]
  BY <1>1, <1>2
<1>4. \A h \in Agents, v \in {"back", "object"} :
         reviews'[<<h, v>>] = IF h = g THEN (IF v = verdict THEN 1 ELSE 0) ELSE reviews[<<h, v>>]
  <2> TAKE h \in Agents, v \in {"back", "object"}
  <2> DEFINE o == <<h, v>>
             mine == <<g, verdict>>
  <2>1. o \in Opinions /\ mine \in Opinions /\ others[o] = (IF h = g THEN 0 ELSE reviews[o])
        /\ others[mine] = 0 /\ (o = mine <=> h = g /\ v = verdict)
    BY <1>2
  <2>2. reviews' = [others EXCEPT ![mine] = @ + 1]
    BY <1>1
  <2> HIDE DEF o, mine
  <2>3. reviews'[o] = IF o = mine THEN 1 ELSE others[o]
    BY <1>2, <2>1, <2>2
  <2>4. reviews'[o] = IF h = g THEN (IF v = verdict THEN 1 ELSE 0) ELSE reviews[o]
    BY <2>1, <2>3
  <2> QED BY <2>4 DEF o
<1>5. ASSUME NEW h \in Agents PROVE reviews'[<<h, "back">>] + reviews'[<<h, "object">>] <= 1
  <2>1. CASE h = g
    BY <1>4, <2>1
  <2>2. CASE h # g
    BY <1>4, <2>2 DEF VoiceInv, OneVoice
  <2> QED BY <2>1, <2>2
<1> QED BY <1>3, <1>5

LEMMA VoicesStart == Init => VoiceInv
<1> SUFFICES ASSUME Init PROVE VoiceInv
  OBVIOUS
<1>1. /\ backers \in [Voters -> Nat] /\ objectors \in [Voters -> Nat] /\ reviews \in [Opinions -> Nat]
      /\ \A x \in Voters : backers[x] = 0 /\ objectors[x] = 0
      /\ \A o \in Opinions : reviews[o] = 0
  BY DEF Init
<1>2. \A g \in Agents : <<g, "back">> \in Opinions /\ <<g, "object">> \in Opinions
  BY DEF Opinions
<1> QED BY <1>1, <1>2 DEF VoiceInv, OneVoice

LEMMA VoicesStep == MemberInv /\ VoiceInv /\ [Next]_vars => VoiceInv'
<1> SUFFICES ASSUME MemberInv, VoiceInv, [Next]_vars PROVE VoiceInv'
  OBVIOUS
<1>1. \A x : Heard(members, x) => Heard(members', x)
  BY VoicesStay DEF SameVoices, Heard
<1>2. ASSUME /\ backers' \in [Voters -> Nat] /\ objectors' \in [Voters -> Nat]
             /\ \A x \in Voters : backers'[x] + objectors'[x] <= 1
             /\ \A x \in Voters : backers'[x] + objectors'[x] > 0 => Heard(members, x),
             reviews' \in [Opinions -> Nat],
             \A h \in Agents : reviews'[<<h, "back">>] + reviews'[<<h, "object">>] <= 1
      PROVE  VoiceInv'
  <2>1. \A x \in Voters : backers'[x] + objectors'[x] > 0 => Heard(members', x)
    BY <1>1, <1>2
  <2> QED BY <1>2, <2>1 DEF VoiceInv, OneVoice, Heard
<1>3. /\ \A x \in Voters : backers[x] + objectors[x] > 0 => Heard(members, x)
      /\ \A x \in Voters : backers[x] + objectors[x] <= 1
      /\ \A h \in Agents : reviews[<<h, "back">>] + reviews[<<h, "object">>] <= 1
      /\ backers \in [Voters -> Nat] /\ objectors \in [Voters -> Nat] /\ reviews \in [Opinions -> Nat]
  BY DEF VoiceInv, OneVoice, Heard
<1>4. ASSUME UNCHANGED <<backers, objectors, reviews>> PROVE VoiceInv'
  BY <1>2, <1>3, <1>4
<1>5. ASSUME NEW who, NEW side, check_member_vote(who), record_vote(who, side), UNCHANGED reviews
      PROVE  VoiceInv'
  BY <1>2, <1>3, <1>5, VoteCounts
<1>6. ASSUME NEW g \in Agents, NEW verdict \in {"back", "object"}, Review(g, verdict) PROVE VoiceInv'
  <2>1. UNCHANGED <<backers, objectors>>
    BY <1>6 DEF Review
  <2> QED BY <1>2, <1>3, <1>6, <2>1, ReviewCounts
<1>7. CASE BackWrite
  BY <1>4, <1>5, <1>7 DEF BackWrite
<1>8. ASSUME NEW who, NEW side, VoteTool(who, side) PROVE VoiceInv'
  BY <1>5, <1>8 DEF VoteTool
<1> QED BY <1>4, <1>6, <1>7, <1>8 DEF Next, vars, votes, FundBind, Progress, LinkWallet, Join, JoinWrite,
            JoinAgain, BackTap, ApproveBegin, Lookup, LinkWrite, Approve, HostLink

\* For any members, wallets and agents: whoever votes, by a tap decided on an old read, by
\* id or by wallet, holds at most one place on the card and is an approved member; an agent
\* has at most one review.
THEOREM OneVoiceEach == Spec => []OneVoice
<1>1. VoiceInv => OneVoice
  BY DEF VoiceInv
<1> QED BY <1>1, MembersStart, MembersStep, VoicesStart, VoicesStep, PTL DEF Spec
=============================================================================
