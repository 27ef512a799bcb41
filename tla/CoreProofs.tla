----------------------------- MODULE CoreProofs -----------------------------
(***************************************************************************)
(* What holds of the two halves of the Core agent: of its discussions with *)
(* the experts (Council), for any number of rounds, reviews and names,     *)
(* whatever the models write and however the calls end, and of the loop    *)
(* that stops a world for one (Controller), for every level, warning and   *)
(* interval.                                                               *)
(***************************************************************************)
EXTENDS Council, Controller, FiniteSetTheorems, SequenceTheorems, TLAPS

-----------------------------------------------------------------------------
(* Council: the invariant of a discussion.                                 *)

Ids == Names \cup {Blank, Empty} \cup {New(k) : k \in Nat}

Messages ==
  [from : Everyone, proposals : Seq(Ids), reviews : SUBSET (Nat \X Ids), asks : BOOLEAN]

Talks ==
  [nr : Nat, round : 1 .. MaxRounds,
   stage : {"asking", "deciding", "planned", "failed", "cancelled"}]

Calls == {"sent", "taken", "answered", "refused", "failed"}

Sound(ids) == ~Has(ids, {Blank, Empty}) /\ ~Repeats(ids)

IsOneOf(id, ids) == ~Repeats(ids) /\ \E i \in DOMAIN ids : ids[i] = id

\* The experts' messages are sound, and every review leads to one earlier proposal.
Good(s) ==
  /\ s \in Seq(Messages)
  /\ \A k \in 1 .. Len(s) : s[k].from \in Experts => Sound(s[k].proposals) /\ s[k].asks
  /\ \A k \in 1 .. Len(s) : \A r \in s[k].reviews :
       r[1] \in 1 .. k - 1 /\ IsOneOf(r[2], s[r[1]].proposals)

\* What an expert may have answered: its reviews are of the history, as it stands.
IsReply(m, e) ==
  /\ m \in Messages /\ m.from = e /\ m.asks /\ Sound(m.proposals)
  /\ \A r \in m.reviews :
       /\ r[1] \in 1 .. Len(transcript)
       /\ \E i \in DOMAIN transcript[r[1]].proposals : transcript[r[1]].proposals[i] = r[2]

\* Three messages a round.
Length ==
  /\ talk.stage = "asking" => Len(transcript) = 3 * (talk.round - 1)
  /\ talk.stage = "deciding" => Len(transcript) = 3 * (talk.round - 1) + 2

RepliesFit ==
  talk.stage = "asking" => \A e \in Experts : call[e] = "answered" => IsReply(reply[e], e)

\* A request the Human service works on had a history it accepts.
HumanAccepts ==
  talk.stage = "asking" /\ call["human"] \in {"taken", "answered"} => ~HumanRefuses

CouncilInv ==
  /\ talk \in Talks
  /\ call \in [Experts -> Calls]
  /\ DOMAIN reply = Experts
  /\ Good(transcript)
  /\ Length
  /\ RepliesFit
  /\ HumanAccepts
  /\ RefusalIsCoresOwn

-----------------------------------------------------------------------------
(* Messages and histories.                                                 *)

LEMMA EmptyIsGood == Good(<<>>) /\ Len(<<>>) = 0
<1>1. <<>> \in Seq(Messages) /\ Len(<<>>) = 0
  OBVIOUS
<1> QED BY <1>1 DEF Good

LEMMA Extended ==
  ASSUME NEW s, Good(s), NEW m \in Messages,
         m.from \in Experts => Sound(m.proposals) /\ m.asks,
         \A r \in m.reviews : r[1] \in 1 .. Len(s) /\ IsOneOf(r[2], s[r[1]].proposals)
  PROVE  /\ Good(Append(s, m)) /\ Len(Append(s, m)) = Len(s) + 1
         /\ \A k \in 1 .. Len(s) : Append(s, m)[k] = s[k]
<1> DEFINE t == Append(s, m)
           n == Len(s)
<1>1. s \in Seq(Messages) /\ n \in Nat
  BY DEF Good
<1>2. t \in Seq(Messages) /\ Len(t) = n + 1 /\ t[n + 1] = m /\ \A k \in 1 .. n : t[k] = s[k]
  BY <1>1
<1> HIDE DEF t, n
<1>3. ASSUME NEW k \in 1 .. Len(t), t[k].from \in Experts
      PROVE  Sound(t[k].proposals) /\ t[k].asks
  BY <1>1, <1>2, <1>3 DEF Good, n
<1>4. ASSUME NEW k \in 1 .. Len(t), NEW r \in t[k].reviews
      PROVE  r[1] \in 1 .. k - 1 /\ IsOneOf(r[2], t[r[1]].proposals)
  <2>1. CASE k = n + 1
    <3>1. r \in m.reviews
      BY <1>2, <1>4, <2>1
    <3>2. r[1] \in 1 .. n /\ IsOneOf(r[2], s[r[1]].proposals)
      BY <3>1 DEF n
    <3> QED BY <1>1, <1>2, <2>1, <3>2
  <2>2. CASE k # n + 1
    <3>1. k \in 1 .. n
      BY <1>1, <1>2, <2>2
    <3>2. r[1] \in 1 .. k - 1 /\ IsOneOf(r[2], s[r[1]].proposals)
      BY <1>2, <3>1 DEF Good, n
    <3>3. t[r[1]] = s[r[1]]
      BY <1>1, <1>2, <3>1, <3>2
    <3> QED BY <3>2, <3>3
  <2> QED BY <2>1, <2>2
<1>5. Good(t)
  BY <1>2, <1>3, <1>4 DEF Good
<1> QED BY <1>2, <1>5 DEF t, n

\* Where a reference leads to.
LEMMA Referring ==
  ASSUME Good(transcript), NEW senders, NEW r \in References(senders)
  PROVE  /\ r \in Nat \X Ids
         /\ r[1] \in 1 .. Len(transcript) /\ transcript[r[1]].from \in senders
         /\ \E i \in DOMAIN transcript[r[1]].proposals : transcript[r[1]].proposals[i] = r[2]
<1>1. transcript \in Seq(Messages) /\ DOMAIN transcript = 1 .. Len(transcript)
  BY DEF Good
<1>2. PICK k \in DOMAIN transcript :
        /\ transcript[k].from \in senders
        /\ r \in {<<k, transcript[k].proposals[i]>> : i \in DOMAIN transcript[k].proposals}
  BY DEF References
<1>3. PICK i \in DOMAIN transcript[k].proposals : r = <<k, transcript[k].proposals[i]>>
  BY <1>2
<1>4. transcript[k] \in Messages /\ k \in Nat
  BY <1>1
<1>5. transcript[k].proposals \in Seq(Ids)
  BY <1>4 DEF Messages
<1>6. transcript[k].proposals[i] \in Ids
  BY <1>3, <1>5
<1> QED BY <1>1, <1>2, <1>3, <1>4, <1>6

LEMMA Naming ==
  /\ \A l \in Lists : l \in Seq(Ids)
  /\ \A k \in 1 .. 3 * MaxRounds : <<New(k)>> \in Seq(Ids) /\ Sound(<<New(k)>>)
  /\ <<>> \in Seq(Ids) /\ Sound(<<>>)
<1>1. ASSUME NEW l \in Lists PROVE l \in Seq(Ids)
  <2>1. CASE l = <<>>
    BY <2>1
  <2>2. CASE \E a \in Names \cup {Blank, Empty} : l = <<a>>
    BY <2>2 DEF Ids
  <2>3. CASE \E a \in Names : l = <<a, a>>
    BY <2>3 DEF Ids
  <2> QED BY <2>1, <2>2, <2>3 DEF Lists
<1>2. ASSUME NEW k \in 1 .. 3 * MaxRounds PROVE <<New(k)>> \in Seq(Ids) /\ Sound(<<New(k)>>)
  <2>1. New(k) \notin {Blank, Empty} /\ New(k) \in Ids
    BY CouncilAssumption DEF Ids
  <2> QED BY <2>1 DEF Sound, Has, Repeats
<1>3. <<>> \in Seq(Ids) /\ Sound(<<>>)
  BY DEF Sound, Has, Repeats
<1> QED BY <1>1, <1>2, <1>3

\* Whatever an expert answers is a reply to the history it was shown.
LEMMA Replying ==
  ASSUME CouncilInv, talk.stage = "asking", NEW e \in Experts, NEW m \in Replies(e)
  PROVE  IsReply(m, e)
<1> DEFINE n == Len(transcript)
<1>1. transcript \in Seq(Messages) /\ n \in Nat /\ n = 3 * (talk.round - 1)
        /\ talk.round \in 1 .. MaxRounds
  BY DEF CouncilInv, Good, Length, Talks
<1>2. n + 1 \in 1 .. 3 * MaxRounds /\ n + 2 \in 1 .. 3 * MaxRounds
  BY <1>1, CouncilAssumption
<1>3. ASSUME NEW ids, ids \in Seq(Ids), Sound(ids),
             NEW reviews, reviews \subseteq References(Everyone),
             m = [from |-> e, proposals |-> ids, reviews |-> reviews, asks |-> TRUE]
      PROVE  IsReply(m, e)
  <2>1. \A r \in reviews :
          /\ r \in Nat \X Ids /\ r[1] \in 1 .. Len(transcript)
          /\ \E i \in DOMAIN transcript[r[1]].proposals : transcript[r[1]].proposals[i] = r[2]
    BY <1>3, Referring DEF CouncilInv
  <2>2. reviews \in SUBSET (Nat \X Ids)
    BY <2>1
  <2>3. m \in Messages /\ m.from = e /\ m.asks /\ m.proposals = ids /\ m.reviews = reviews
    BY <1>3, <2>2 DEF Messages, Everyone
  <2> QED BY <1>3, <2>1, <2>3 DEF IsReply
<1>4. CASE e = "human"
  <2>1. /\ m = [from |-> e, proposals |-> m.proposals, reviews |-> m.reviews, asks |-> TRUE]
        /\ m.proposals \in {<<>>, <<New(Len(transcript) + 2)>>}
        /\ m.reviews \in AtMost(MaxReviews, References(Everyone))
    BY <1>4 DEF Replies, HumanReplies
  <2>2. m.proposals \in Seq(Ids) /\ Sound(m.proposals)
    BY <1>2, <2>1, Naming
  <2> QED BY <1>3, <2>1, <2>2 DEF AtMost
<1>5. CASE e = "plant" /\ m \in PlantDrafts
  <2>1. /\ m = [from |-> e, proposals |-> m.proposals, reviews |-> m.reviews, asks |-> TRUE]
        /\ m.proposals \in Lists /\ Named(m.proposals)
        /\ m.reviews \subseteq References(Everyone)
    BY <1>5 DEF PlantDrafts, AtMost
  <2>2. m.proposals \in Seq(Ids) /\ Sound(m.proposals)
    BY <2>1, Naming DEF Named, Sound
  <2> QED BY <1>3, <2>1, <2>2
<1>6. CASE e = "plant" /\ m \in PlantConflict
  <2>1. /\ m = [from |-> e, proposals |-> m.proposals, reviews |-> m.reviews, asks |-> TRUE]
        /\ m.proposals = <<New(Len(transcript) + 1)>>
        /\ m.reviews \subseteq References({"plant"})
    BY <1>6 DEF PlantConflict
  <2>2. m.reviews \subseteq References(Everyone)
    BY <2>1 DEF References, Everyone, Experts
  <2>3. m.proposals \in Seq(Ids) /\ Sound(m.proposals)
    BY <1>2, <2>1, Naming
  <2> QED BY <1>3, <2>1, <2>2, <2>3
<1> QED BY <1>4, <1>5, <1>6 DEF Replies, Experts

-----------------------------------------------------------------------------
(* The steps of the services.                                              *)

LEMMA Initial == Init => CouncilInv
<1> SUFFICES ASSUME Init PROVE CouncilInv
  OBVIOUS
<1> USE DEF Init
<1>1. talk \in Talks
  BY CouncilAssumption DEF Talks
<1>2. call \in [Experts -> Calls] /\ DOMAIN reply = Experts
  BY DEF Calls, Unanswered
<1>3. Good(transcript)
  BY EmptyIsGood
<1>4. Length /\ RepliesFit /\ HumanAccepts /\ RefusalIsCoresOwn
  BY DEF Length, RepliesFit, HumanAccepts, RefusalIsCoresOwn
<1> QED BY <1>1, <1>2, <1>3, <1>4 DEF CouncilInv

LEMMA Waits == ASSUME CouncilInv, UNCHANGED <<talk, transcript, call, reply>> PROVE CouncilInv'
<1>1. Length' /\ Good(transcript)'
  BY DEF CouncilInv, Length
<1>2. RepliesFit'
  BY DEF CouncilInv, RepliesFit, IsReply
<1>3. HumanAccepts' /\ RefusalIsCoresOwn'
  BY DEF CouncilInv, HumanAccepts, HumanRefuses, RefusalIsCoresOwn
<1> QED BY <1>1, <1>2, <1>3 DEF CouncilInv

\* One call goes on; the history is the same.
LEMMA Calling ==
  ASSUME CouncilInv, UNCHANGED <<talk, transcript>>, NEW e \in Experts, NEW c \in Calls,
         call' = [call EXCEPT ![e] = c],
         DOMAIN reply' = Experts,
         \A f \in Experts \ {e} : reply'[f] = reply[f],
         talk.stage = "asking" /\ c = "answered" => IsReply(reply'[e], e),
         e = "human" /\ c \in {"taken", "answered"} /\ talk.stage = "asking" => ~HumanRefuses,
         c = "refused" => RefusalIsCoresOwn'
  PROVE  CouncilInv'
<1>1. call' \in [Experts -> Calls] /\ call'[e] = c /\ \A f \in Experts \ {e} : call'[f] = call[f]
  BY DEF CouncilInv
<1>2. Length' /\ Good(transcript)'
  BY DEF CouncilInv, Length
<1>3. RepliesFit'
  BY <1>1 DEF CouncilInv, RepliesFit, IsReply
<1>4. HumanAccepts'
  BY <1>1 DEF CouncilInv, HumanAccepts, HumanRefuses
<1>5. RefusalIsCoresOwn'
  <2>1. CASE c = "refused"
    BY <2>1
  <2>2. CASE c # "refused"
    <3>1. \A f \in Experts : call'[f] = "refused" => call[f] = "refused"
      BY <1>1, <2>2
    <3> QED BY <3>1 DEF CouncilInv, RefusalIsCoresOwn
  <2> QED BY <2>1, <2>2
<1> QED BY <1>1, <1>2, <1>3, <1>4, <1>5 DEF CouncilInv

\* A service refuses a history only for what the Core said in it.
LEMMA Refusing ==
  ASSUME CouncilInv, NEW e \in Experts, Refuses(e)
  PROVE  \E k \in DOMAIN transcript :
           LET m == transcript[k]
           IN /\ m.from = "core"
              /\ ~m.asks \/ Has(m.proposals, {Blank, Empty}) \/ Repeats(m.proposals)
<1>1. transcript \in Seq(Messages) /\ DOMAIN transcript = 1 .. Len(transcript)
  BY DEF CouncilInv, Good
<1>2. ASSUME NEW k \in DOMAIN transcript,
             \/ ~transcript[k].asks \/ Has(transcript[k].proposals, {Blank, Empty})
             \/ Repeats(transcript[k].proposals)
      PROVE  transcript[k].from = "core"
  <2>0. transcript[k] \in Messages
    BY <1>1
  <2>1. transcript[k].from \in Everyone
    BY <2>0 DEF Messages
  <2>2. transcript[k].from \notin Experts
    BY <1>1, <1>2 DEF CouncilInv, Good, Sound
  <2> QED BY <2>1, <2>2 DEF Everyone
<1>3. CASE e = "human"
  BY <1>2, <1>3 DEF Refuses, HumanRefuses
<1>4. CASE e # "human"
  <2>1. transcript # <<>> /\ ~transcript[Len(transcript)].asks
    BY <1>4 DEF Refuses, PlantRefuses
  <2>2. Len(transcript) \in DOMAIN transcript
    BY <1>1, <2>1
  <2> QED BY <1>2, <2>1, <2>2
<1> QED BY <1>3, <1>4

LEMMA ServiceKeeps == ASSUME CouncilInv, Service PROVE CouncilInv'
<1>0. call \in [Experts -> Calls] /\ DOMAIN reply = Experts
  BY DEF CouncilInv
<1>1. ASSUME NEW e \in Experts, Receive(e) PROVE CouncilInv'
  <2>1. talk.stage = "asking" /\ UNCHANGED <<talk, transcript, reply>>
    BY <1>1 DEF Receive
  <2>2. CASE Refuses(e)
    <3>1. call' = [call EXCEPT ![e] = "refused"]
      BY <1>1, <2>2 DEF Receive
    <3>2. RefusalIsCoresOwn'
      BY <2>1, <2>2, Refusing DEF RefusalIsCoresOwn
    <3> QED BY <1>0, <2>1, <3>1, <3>2, Calling DEF Calls
  <2>3. CASE ~Refuses(e)
    <3>1. call' = [call EXCEPT ![e] = "taken"]
      BY <1>1, <2>3 DEF Receive
    <3>2. e = "human" => ~HumanRefuses
      BY <2>3 DEF Refuses
    <3> QED BY <1>0, <2>1, <3>1, <3>2, Calling DEF Calls
  <2> QED BY <2>2, <2>3
<1>2. ASSUME NEW e \in Experts, Answer(e) PROVE CouncilInv'
  <2>1. /\ talk.stage = "asking" /\ call[e] = "taken"
        /\ UNCHANGED <<talk, transcript>> /\ call' = [call EXCEPT ![e] = "answered"]
    BY <1>2 DEF Answer
  <2>2. PICK m \in Replies(e) : reply' = [reply EXCEPT ![e] = m]
    BY <1>2 DEF Answer
  <2>3. IsReply(m, e)
    BY <2>1, Replying
  <2>4. DOMAIN reply' = Experts /\ reply'[e] = m /\ \A f \in Experts \ {e} : reply'[f] = reply[f]
    BY <1>0, <2>2
  <2>5. e = "human" => ~HumanRefuses
    BY <2>1 DEF CouncilInv, HumanAccepts
  <2> QED BY <2>1, <2>3, <2>4, <2>5, Calling DEF Calls
<1>3. ASSUME NEW e \in Experts, Fail(e) \/ CoreTimesOut(e) PROVE CouncilInv'
  <2>1. UNCHANGED <<talk, transcript, reply>> /\ call' = [call EXCEPT ![e] = "failed"]
    BY <1>3 DEF Fail, CoreTimesOut
  <2> QED BY <1>0, <2>1, Calling DEF Calls
<1>4. ASSUME NEW a, Start(a) \/ Leave(a) PROVE CouncilInv'
  BY <1>4, Waits DEF Start, Leave
<1> QED BY <1>1, <1>2, <1>3, <1>4 DEF Service, Vacate

-----------------------------------------------------------------------------
(* The steps of the Core.                                                  *)

\* A new round, on a history the Core has made.
LEMMA Asking ==
  ASSUME CouncilInv, NEW nr \in Nat, NEW round \in 1 .. MaxRounds, Ask(nr, round),
         Good(transcript'), Len(transcript') = 3 * (round - 1)
  PROVE  CouncilInv'
<1>1. talk' \in Talks /\ talk'.stage = "asking" /\ talk'.round = round
  BY DEF Ask, Talks
<1>2. call' \in [Experts -> Calls] /\ DOMAIN reply' = Experts /\ \A e \in Experts : call'[e] = "sent"
  BY DEF Ask, Calls, Unanswered
<1>3. Length'
  BY <1>1 DEF Length
<1>4. RepliesFit' /\ RefusalIsCoresOwn'
  BY <1>2 DEF RepliesFit, RefusalIsCoresOwn
<1>5. HumanAccepts'
  BY <1>2 DEF HumanAccepts, Experts
<1> QED BY <1>1, <1>2, <1>3, <1>4, <1>5 DEF CouncilInv, Good

\* The Core does not wait any more.
LEMMA Entering ==
  ASSUME CouncilInv, NEW stage \in {"deciding", "planned", "failed", "cancelled"}, NEW s,
         Enter(stage, s), Good(s), stage = "deciding" => Len(s) = 3 * (talk.round - 1) + 2
  PROVE  CouncilInv'
<1>1. /\ talk' \in Talks /\ talk'.stage = stage /\ talk'.round = talk.round /\ transcript' = s
      /\ call' \in [Experts -> Calls] /\ DOMAIN reply' = Experts
  BY DEF CouncilInv, Enter, Talks, Unanswered
<1>2. Length' /\ RepliesFit' /\ HumanAccepts' /\ RefusalIsCoresOwn'
  BY <1>1 DEF Length, RepliesFit, HumanAccepts, RefusalIsCoresOwn
<1> QED BY <1>1, <1>2 DEF CouncilInv, Good

\* Both answers are about the history the Human service has accepted.
LEMMA Gathering ==
  ASSUME CouncilInv, talk.stage = "asking", \A e \in Experts : call[e] = "answered"
  PROVE  LET s == Append(Append(transcript, reply["plant"]), reply["human"])
         IN Good(s) /\ Len(s) = Len(transcript) + 2
<1> DEFINE p == reply["plant"]
           h == reply["human"]
           one == Append(transcript, p)
<1>1. IsReply(p, "plant") /\ IsReply(h, "human")
  BY DEF CouncilInv, RepliesFit, Experts
<1>2. Good(transcript) /\ transcript \in Seq(Messages) /\ Len(transcript) \in Nat
  BY DEF CouncilInv, Good
<1>3. \A k \in 1 .. Len(transcript) : ~Repeats(transcript[k].proposals)
  BY <1>2 DEF CouncilInv, HumanAccepts, HumanRefuses, Experts
<1>4. \A r \in p.reviews \cup h.reviews :
        r[1] \in 1 .. Len(transcript) /\ IsOneOf(r[2], transcript[r[1]].proposals)
  BY <1>1, <1>3 DEF IsReply, IsOneOf
<1>5. /\ p \in Messages /\ Sound(p.proposals) /\ p.asks
      /\ h \in Messages /\ Sound(h.proposals) /\ h.asks
  BY <1>1 DEF IsReply
<1> HIDE DEF p, h
<1>6. Good(one) /\ Len(one) = Len(transcript) + 1
        /\ \A k \in 1 .. Len(transcript) : one[k] = transcript[k]
  BY <1>2, <1>4, <1>5, Extended
<1> HIDE DEF one
<1>7. \A r \in h.reviews : r[1] \in 1 .. Len(one) /\ IsOneOf(r[2], one[r[1]].proposals)
  BY <1>2, <1>4, <1>6
<1>8. Good(Append(one, h)) /\ Len(Append(one, h)) = Len(one) + 1
  BY <1>5, <1>6, <1>7, Extended
<1> QED BY <1>2, <1>6, <1>8 DEF one, p, h

\* What the Core adds when it decides.
LEMMA Deciding ==
  ASSUME CouncilInv, NEW ids \in Lists, NEW asks \in BOOLEAN,
         NEW reviews \in AtMost(MaxReviews, References(Experts))
  PROVE  LET said == Append(transcript, Message("core", ids, reviews, asks))
         IN Good(said) /\ Len(said) = Len(transcript) + 1
<1> DEFINE m == Message("core", ids, reviews, asks)
<1>1. \A r \in reviews :
        /\ r \in Nat \X Ids /\ r[1] \in 1 .. Len(transcript)
        /\ transcript[r[1]].from \in Experts
        /\ \E i \in DOMAIN transcript[r[1]].proposals : transcript[r[1]].proposals[i] = r[2]
  BY Referring DEF CouncilInv, AtMost
<1>2. reviews \in SUBSET (Nat \X Ids) /\ ids \in Seq(Ids)
  BY <1>1, Naming
<1>3. m \in Messages /\ m.from \notin Experts /\ m.reviews = reviews
  BY <1>2 DEF Message, Messages, Everyone, Experts
<1>4. \A r \in m.reviews : r[1] \in 1 .. Len(transcript) /\ IsOneOf(r[2], transcript[r[1]].proposals)
  BY <1>1, <1>3 DEF CouncilInv, Good, Sound, IsOneOf
<1>5. Good(transcript)
  BY DEF CouncilInv
<1> HIDE DEF m
<1>6. Good(Append(transcript, m)) /\ Len(Append(transcript, m)) = Len(transcript) + 1
  BY <1>3, <1>4, <1>5, Extended
<1> QED BY <1>6 DEF m

LEMMA CoreKeeps == ASSUME CouncilInv, Core PROVE CouncilInv'
<1>0. talk \in Talks /\ Good(transcript) /\ transcript \in Seq(Messages) /\ Len(transcript) \in Nat
  BY DEF CouncilInv, Good
<1>1. CASE Begin
  <2>1. Ask(talk.nr + 1, 1) /\ transcript' = <<>>
    BY <1>1 DEF Begin
  <2>2. talk.nr + 1 \in Nat /\ 1 \in 1 .. MaxRounds
    BY <1>0, CouncilAssumption DEF Talks
  <2>3. Good(transcript') /\ Len(transcript') = 3 * (1 - 1)
    BY <2>1, EmptyIsGood
  <2> QED BY <2>1, <2>2, <2>3, Asking
<1>2. CASE Gather
  <2>1. talk.stage = "asking"
    BY <1>2 DEF Gather
  <2>2. CASE \A e \in Experts : Usable(e)
    <3> DEFINE s == Append(Append(transcript, reply["plant"]), reply["human"])
    <3>1. Enter("deciding", s)
      BY <1>2, <2>2 DEF Gather
    <3>2. Good(s) /\ Len(s) = Len(transcript) + 2
      BY <2>1, <2>2, Gathering DEF Usable
    <3>3. Len(s) = 3 * (talk.round - 1) + 2
      BY <2>1, <3>2 DEF CouncilInv, Length
    <3> HIDE DEF s
    <3> QED BY <3>1, <3>2, <3>3, Entering
  <2>3. CASE ~\A e \in Experts : Usable(e)
    BY <1>2, <2>3, Entering, EmptyIsGood DEF Gather, Drop
  <2> QED BY <2>2, <2>3
<1>3. CASE Decide
  <2>1. talk.stage = "deciding" /\ Len(transcript) = 3 * (talk.round - 1) + 2
    BY <1>3 DEF Decide, CouncilInv, Length
  <2>2. PICK ids \in Lists, asks \in BOOLEAN, final \in BOOLEAN,
             reviews \in AtMost(MaxReviews, References(Experts)) :
          LET said == Append(transcript, Message("core", ids, reviews, asks))
          IN IF final THEN Enter("planned", said)
             ELSE IF talk.round = MaxRounds THEN Drop("failed")
             ELSE Ask(talk.nr, talk.round + 1) /\ transcript' = said
    BY <1>3 DEF Decide
  <2> DEFINE said == Append(transcript, Message("core", ids, reviews, asks))
  <2>3. Good(said) /\ Len(said) = Len(transcript) + 1
    BY Deciding
  <2> HIDE DEF said
  <2>4. \/ Enter("planned", said)
        \/ Drop("failed")
        \/ talk.round # MaxRounds /\ Ask(talk.nr, talk.round + 1) /\ transcript' = said
    BY <2>2 DEF said
  <2>5. CASE Enter("planned", said)
    BY <2>3, <2>5, Entering
  <2>6. CASE Drop("failed")
    BY <2>6, Entering, EmptyIsGood DEF Drop
  <2>7. CASE talk.round # MaxRounds /\ Ask(talk.nr, talk.round + 1) /\ transcript' = said
    <3>1. talk.nr \in Nat /\ talk.round + 1 \in 1 .. MaxRounds /\ talk.round \in Nat
      BY <1>0, <2>7, CouncilAssumption DEF Talks
    <3>2. Len(transcript') = 3 * ((talk.round + 1) - 1)
      BY <2>1, <2>3, <2>7, <3>1
    <3> QED BY <2>3, <2>7, <3>1, <3>2, Asking
  <2> QED BY <2>4, <2>5, <2>6, <2>7
<1>4. CASE DecideFails \/ Cancel
  BY <1>4, Entering, EmptyIsGood DEF DecideFails, Cancel, Drop
<1>5. ASSUME NEW e \in Experts, CoreTimesOut(e) PROVE CouncilInv'
  <2>1. /\ UNCHANGED <<talk, transcript, reply>> /\ call' = [call EXCEPT ![e] = "failed"]
    BY <1>5 DEF CoreTimesOut
  <2> QED BY <2>1, Calling DEF CouncilInv, Calls
<1> QED BY <1>1, <1>2, <1>3, <1>4, <1>5 DEF Core

-----------------------------------------------------------------------------
(* The theorems.                                                           *)

\* However the calls end, what is said stays in order: messages, their sequence, the
\* replies on the way and the refusals.
THEOREM CouncilInvariance == Spec => []CouncilInv
<1>1. CouncilInv /\ [Next]_vars => CouncilInv'
  <2> SUFFICES ASSUME CouncilInv, [Next]_vars PROVE CouncilInv'
    OBVIOUS
  <2>1. CASE Service
    BY <2>1, ServiceKeeps
  <2>2. CASE Core
    BY <2>2, CoreKeeps
  <2>3. CASE UNCHANGED vars
    BY <2>3, Waits DEF vars
  <2> QED BY <2>1, <2>2, <2>3 DEF Next
<1> QED BY <1>1, Initial, PTL DEF Spec

\* Neither expert can make the other refuse to take part: the history a service refuses
\* holds a decision of the Core that is to blame.
THEOREM BlameIsTheCores == Spec => []RefusalIsCoresOwn
<1>1. CouncilInv => RefusalIsCoresOwn
  BY DEF CouncilInv
<1> QED BY <1>1, CouncilInvariance, PTL

\* Every review of a discussion that led to a plan leads to exactly one proposal of an
\* earlier message, for any number of rounds and any names.
THEOREM EveryReviewResolves == Spec => []ReviewsResolve
<1>1. CouncilInv => ReviewsResolve
  <2> SUFFICES ASSUME CouncilInv, NEW k \in DOMAIN transcript, NEW r \in transcript[k].reviews
               PROVE  /\ r[1] < k
                      /\ Cardinality({i \in DOMAIN transcript[r[1]].proposals :
                                         transcript[r[1]].proposals[i] = r[2]}) = 1
    BY DEF ReviewsResolve
  <2>1. k \in Nat /\ r[1] \in 1 .. k - 1 /\ IsOneOf(r[2], transcript[r[1]].proposals)
    BY DEF CouncilInv, Good
  <2> DEFINE ids == transcript[r[1]].proposals
             found == {i \in DOMAIN ids : ids[i] = r[2]}
  <2>2. PICK j \in DOMAIN ids : ids[j] = r[2]
    BY <2>1 DEF IsOneOf
  <2>3. found = {j}
    BY <2>1, <2>2 DEF IsOneOf, Repeats
  <2>4. Cardinality(found) = 1
    BY <2>3, FS_Singleton
  <2> QED BY <2>1, <2>4
<1> QED BY <1>1, CouncilInvariance, PTL

-----------------------------------------------------------------------------
(* Controller.                                                             *)
(* What a controller that is not idle is about, and what an assessment under *)
(* way was started for.                                                    *)

\* Every way of stopping for a plan keeps the level that was observed last.
AboutTheLast == step.at \in {"pausing", "planning"} => step.level = previous

\* Low resources are planned for in the resting states, LowIsPlannedFor with a
\* controller that has ended and may be started again.
Remembered ==
  step.at \in {"idle", "ended"} /\ previous < Warning =>
    ghost.planned <= previous \/ pending \/ ghost.dropped

\* An assessment is under way only in a controller that watches.  A reset takes the
\* plan it was started for away, but then the missing plan is a reason of its own.
AssessesOwnPlan ==
  assessment # Absent =>
    step.at = "idle" /\ (assessment.plan = world.plan \/ world.plan = 0)

ControllerInv == TypeOK /\ AboutTheLast /\ Remembered /\ AssessesOwnPlan

Statuses == {"running", "paused", "planning", "failed"}
Worlds == [version : Nat, tick : Nat, level : Levels, replan : BOOLEAN, plan : Nat,
           status : Statuses]
Steps == [at : {"idle", "pausing", "planning", "ended"}, version : Nat,
          level : Levels, advised : BOOLEAN]
Assessments == [says : {"nothing", "continue", "replan"}, plan : Nat]

LEMMA Bounds ==
  /\ MaxLevel \in Nat /\ Warning \in Nat /\ Warning <= MaxLevel /\ Never = MaxLevel + 1
  /\ Levels \subseteq Nat /\ 0 \in Levels /\ MaxLevel \in Levels
  /\ \A n \in Levels : n <= MaxLevel /\ n \in 0 .. Never
  /\ Never \in 0 .. Never
BY ControllerAssumption DEF Never, Levels

LEMMA StateTypes ==
  ASSUME TypeOK
  PROVE  /\ world \in Worlds /\ step \in Steps /\ previous \in 0 .. Never
         /\ assessment \in Assessments \cup {Absent} /\ assessed \in Nat \cup {Absent}
         /\ pending \in BOOLEAN /\ ghost \in [planned : 0 .. Never, dropped : BOOLEAN]
BY DEF TypeOK, Worlds, Steps, Assessments, Statuses

LEMMA InvInit == ControllerInit => ControllerInv
<1> SUFFICES ASSUME ControllerInit PROVE ControllerInv
  OBVIOUS
<1>1. TypeOK
  BY Bounds DEF ControllerInit, Idle, TypeOK
<1>2. AboutTheLast /\ Remembered /\ AssessesOwnPlan
  BY Bounds DEF ControllerInit, Idle, AboutTheLast, Remembered, AssessesOwnPlan
<1> QED
  BY <1>1, <1>2 DEF ControllerInv

-----------------------------------------------------------------------------
(* One lemma for each kind of step.                                        *)

\* The world by itself: the plan stays, or is none.
LEMMA InvWorld == ControllerInv /\ World => ControllerInv'
<1> SUFFICES ASSUME ControllerInv, World PROVE ControllerInv'
  OBVIOUS
<1>1. world \in Worlds
  BY StateTypes DEF ControllerInv
<1>2. ASSUME NEW w \in Worlds, Change(w), w.plan \in {world.plan, 0} PROVE ControllerInv'
  <2>1. /\ world' \in Worlds /\ world'.plan \in {world.plan, 0}
        /\ UNCHANGED <<step, previous, assessment, assessed, pending, ghost>>
    BY <1>2 DEF Change, own, Worlds
  <2>2. TypeOK'
    BY <2>1 DEF ControllerInv, TypeOK, Worlds, Statuses
  <2> QED
    BY <2>1, <2>2 DEF ControllerInv, AboutTheLast, Remembered, AssessesOwnPlan
<1>3. CASE Tick
  <2>1. ASSUME NEW tick \in Nat, NEW level \in Levels, NEW b \in BOOLEAN,
               NEW status \in Statuses,
               Change([world EXCEPT !.tick = tick, !.level = level, !.replan = b,
                                    !.status = status])
        PROVE  ControllerInv'
    <3> DEFINE w == [world EXCEPT !.tick = tick, !.level = level, !.replan = b,
                                  !.status = status]
    <3>1. w \in Worlds /\ w.plan = world.plan
      BY <1>1 DEF Worlds
    <3> QED
      BY <1>2, <2>1, <3>1
  <2>2. PICK level \in Levels, replan \in BOOLEAN :
          Change([world EXCEPT !.tick = @ + 1, !.level = level, !.replan = @ \/ replan,
                               !.status = IF level = 0 THEN "failed" ELSE @])
    BY <1>3 DEF Tick
  <2>3. /\ (world.replan \/ replan) \in BOOLEAN
        /\ (IF level = 0 THEN "failed" ELSE world.status) \in Statuses
        /\ world.tick + 1 \in Nat
    BY <1>1 DEF Worlds, Statuses
  <2> QED
    BY <2>1, <2>2, <2>3
<1>4. CASE PlayerPauses
  <2> DEFINE w == [world EXCEPT !.status = "paused"]
  <2>1. w \in Worlds /\ w.plan = world.plan
    BY <1>1 DEF Worlds, Statuses
  <2> QED
    BY <1>2, <1>4, <2>1 DEF PlayerPauses
<1>5. CASE PlayerResumes
  <2> DEFINE w == [world EXCEPT !.status = "running"]
  <2>1. w \in Worlds /\ w.plan = world.plan
    BY <1>1 DEF Worlds, Statuses
  <2> QED
    BY <1>2, <1>5, <2>1 DEF PlayerResumes
<1>6. CASE PlayerEdits
  <2>1. PICK level \in Levels \ {0} :
          Change([world EXCEPT !.level = level, !.replan = TRUE,
                               !.status = IF @ = "planning" THEN "paused" ELSE @])
    BY <1>6 DEF PlayerEdits
  <2> DEFINE w == [world EXCEPT !.level = level, !.replan = TRUE,
                                !.status = IF @ = "planning" THEN "paused" ELSE @]
  <2>2. w \in Worlds /\ w.plan = world.plan
    BY <1>1 DEF Worlds, Statuses
  <2> QED
    BY <1>2, <2>1, <2>2
<1>7. CASE PlayerResets
  <2> DEFINE w == [world EXCEPT !.tick = 0, !.level = MaxLevel, !.replan = FALSE, !.plan = 0,
                                !.status = "running"]
  <2>1. w \in Worlds /\ w.plan = 0
    BY <1>1, Bounds DEF Worlds, Statuses
  <2> QED
    BY <1>2, <1>7, <2>1 DEF PlayerResets
<1> QED
  BY <1>3, <1>4, <1>5, <1>6, <1>7 DEF World

\* A world that is not running: the controller rests or ends.
LEMMA InvLeftAlone ==
  ASSUME ControllerInv, Observe, world.status # "running"
  PROVE  ControllerInv'
<1>a. /\ step' \in {step, About("ended", FALSE)} /\ step.at = "idle" /\ assessment' = Absent
      /\ UNCHANGED <<world, previous, assessed, pending, ghost>>
  BY DEF Observe
<1>b. world \in Worlds /\ step \in Steps
  BY StateTypes DEF ControllerInv
<1>c. About("ended", FALSE) \in Steps /\ About("ended", FALSE).at = "ended"
  BY <1>b DEF About, Worlds, Steps
<1>1. /\ step' \in Steps
      /\ step'.at \in {"idle", "ended"} /\ step.at = "idle" /\ assessment' = Absent
      /\ UNCHANGED <<world, previous, assessed, pending, ghost>>
  BY <1>a, <1>b, <1>c
<1>2. TypeOK'
  BY <1>1 DEF ControllerInv, TypeOK, Steps
<1> QED
  BY <1>1, <1>2 DEF ControllerInv, AboutTheLast, Remembered, AssessesOwnPlan

\* A running world: the controller stops for a plan, or what is low was low before and
\* has not got worse.
LEMMA InvWatch ==
  ASSUME ControllerInv, Observe, world.status = "running"
  PROVE  ControllerInv'
<1>1. /\ step.at = "idle" /\ previous' = world.level /\ ghost' = Seen
      /\ UNCHANGED <<world, pending>>
      /\ IF pending \/ Risk THEN Plan(FALSE) ELSE Assess
  BY DEF Observe
<1>2. /\ world \in Worlds /\ step \in Steps /\ previous \in 0 .. Never
      /\ assessment \in Assessments \cup {Absent} /\ assessed \in Nat \cup {Absent}
      /\ pending \in BOOLEAN /\ ghost \in [planned : 0 .. Never, dropped : BOOLEAN]
  BY StateTypes DEF ControllerInv
<1>3. ghost' \in [planned : 0 .. Never, dropped : BOOLEAN] /\ previous' \in 0 .. Never
  BY <1>1, <1>2, Bounds DEF Seen, Worlds
<1>4. ASSUME NEW advised \in BOOLEAN, Plan(advised) PROVE ControllerInv'
  <2>1. /\ step' \in Steps /\ step'.at = "pausing" /\ step'.level = world.level
        /\ assessment' = Absent /\ assessed' = assessed
    BY <1>2, <1>4 DEF Plan, About, Steps, Worlds
  <2>2. TypeOK'
    BY <1>1, <1>2, <1>3, <2>1 DEF TypeOK, Steps, Worlds, Statuses
  <2> QED
    BY <1>1, <2>1, <2>2 DEF ControllerInv, AboutTheLast, Remembered, AssessesOwnPlan
<1>5. ASSUME ~pending, ~Risk, step' = step,
             assessment' \in {assessment, Absent, [says |-> "nothing", plan |-> world.plan]},
             assessed' \in {assessed, world.tick}
      PROVE  ControllerInv'
  <2>1. assessment' \in Assessments \cup {Absent} /\ assessed' \in Nat \cup {Absent}
    BY <1>2, <1>5 DEF Assessments, Worlds
  <2>2. TypeOK'
    BY <1>1, <1>2, <1>3, <1>5, <2>1 DEF TypeOK, Steps, Worlds, Statuses, Assessments
  <2>3. AssessesOwnPlan'
    BY <1>1, <1>5 DEF ControllerInv, AssessesOwnPlan
  <2>4. Remembered'
    <3> SUFFICES ASSUME world.level < Warning
                 PROVE  ghost'.planned <= world.level \/ ghost'.dropped
      BY <1>1 DEF Remembered
    <3>a. /\ world.level \in Nat /\ previous \in Nat /\ Warning \in Nat
          /\ ghost.planned \in Nat
      <4>1. /\ world.level \in Levels /\ previous \in 0 .. Never
            /\ ghost.planned \in 0 .. Never
        BY <1>2 DEF Worlds
      <4>2. Levels \subseteq Nat /\ Never \in Nat /\ Warning \in Nat
        BY Bounds
      <4>3. world.level \in Nat /\ Warning \in Nat
        BY <4>1, <4>2
      <4>4. \A n \in 0 .. Never : n \in Nat
        BY <4>2
      <4> QED
        BY <4>1, <4>3, <4>4
    <3>1. ghost' = ghost
      BY <1>1, <3>a DEF Seen
    <3>2. previous <= world.level
      BY <1>5, <3>a DEF Risk
    <3>3. previous < Warning
      BY <3>2, <3>a
    <3>4. ghost.planned <= previous \/ ghost.dropped
      BY <1>1, <1>5, <3>3 DEF ControllerInv, Remembered
    <3> QED
      BY <3>1, <3>2, <3>4, <3>a
  <2> QED
    BY <1>1, <1>5, <2>2, <2>3, <2>4 DEF ControllerInv, AboutTheLast
<1>6. CASE pending \/ Risk
  BY <1>1, <1>4, <1>6
<1>7. CASE ~(pending \/ Risk)
  <2>1. CASE Plan(TRUE)
    BY <1>4, <2>1
  <2>2. CASE /\ step' = step
             /\ assessment' \in {assessment, Absent, [says |-> "nothing", plan |-> world.plan]}
             /\ assessed' \in {assessed, world.tick}
    BY <1>5, <1>7, <2>2
  <2> QED
    BY <1>1, <1>7, <2>1, <2>2 DEF Assess
<1> QED
  BY <1>6, <1>7

\* The controller tries to stop the world, or has a plan for it.
LEMMA InvPause == ControllerInv /\ Pause => ControllerInv'
<1> SUFFICES ASSUME ControllerInv, Pause PROVE ControllerInv'
  OBVIOUS
<1>1. world \in Worlds /\ step \in Steps
  BY StateTypes DEF ControllerInv
<1>2. /\ step.at = "pausing" /\ assessment = Absent
      /\ UNCHANGED <<previous, assessment, assessed, ghost>>
  BY DEF Pause, ControllerInv, AssessesOwnPlan
<1>3. CASE Pausable
  <2>1. /\ world' = [world EXCEPT !.status = "planning"]
        /\ step' = [step EXCEPT !.at = "planning"]
        /\ pending' = FALSE
    BY <1>3 DEF Pause
  <2>2. world' \in Worlds /\ step' \in Steps /\ step'.at = "planning" /\ step'.level = step.level
    BY <1>1, <2>1 DEF Worlds, Steps, Statuses
  <2>3. TypeOK'
    BY <1>2, <2>1, <2>2 DEF ControllerInv, TypeOK, Worlds, Steps, Statuses
  <2> QED
    BY <1>2, <2>2, <2>3 DEF ControllerInv, AboutTheLast, Remembered, AssessesOwnPlan
<1>4. CASE ~Pausable
  <2>1. step' = Idle /\ pending' = TRUE /\ world' = world
    BY <1>4 DEF Pause
  <2>2. step' \in Steps /\ step'.at = "idle"
    BY <2>1, Bounds DEF Idle, Steps
  <2>3. TypeOK'
    BY <1>2, <2>1, <2>2 DEF ControllerInv, TypeOK, Steps
  <2> QED
    BY <1>2, <2>1, <2>2, <2>3 DEF ControllerInv, AboutTheLast, Remembered, AssessesOwnPlan
<1> QED
  BY <1>3, <1>4

LEMMA InvApply == ControllerInv /\ Apply => ControllerInv'
<1> SUFFICES ASSUME ControllerInv, Apply PROVE ControllerInv'
  OBVIOUS
<1> DEFINE applied == world.status = "planning" /\ world.version = step.version
<1>1. world \in Worlds /\ step \in Steps /\ previous \in 0 .. Never
      /\ ghost \in [planned : 0 .. Never, dropped : BOOLEAN]
  BY StateTypes DEF ControllerInv
<1>2. /\ step.at = "planning" /\ assessment = Absent /\ step.level = previous
      /\ UNCHANGED <<previous, assessment, assessed, pending>>
  BY DEF Apply, ControllerInv, AssessesOwnPlan, AboutTheLast
<1>3. step' = Idle /\ step' \in Steps /\ step'.at = "idle"
  BY Bounds DEF Apply, Idle, Steps
<1>4. CASE applied
  <2>1. /\ world' = [world EXCEPT !.status = "running", !.replan = FALSE, !.plan = @ + 1]
        /\ ghost' = [planned |-> step.level, dropped |-> FALSE]
    BY <1>4 DEF Apply
  <2>a. world' \in Worlds
    <3>1. ASSUME NEW n \in Nat
          PROVE  [world EXCEPT !.status = "running", !.replan = FALSE, !.plan = n] \in Worlds
      BY <1>1 DEF Worlds, Statuses
    <3>2. world.plan + 1 \in Nat
      BY <1>1 DEF Worlds
    <3> QED
      BY <2>1, <3>1, <3>2
  <2>b. ghost' \in [planned : 0 .. Never, dropped : BOOLEAN]
    BY <1>1, <1>2, <2>1
  <2>2. world' \in Worlds /\ ghost' \in [planned : 0 .. Never, dropped : BOOLEAN]
    BY <2>a, <2>b
  <2>3. TypeOK'
    BY <1>2, <1>3, <2>2 DEF ControllerInv, TypeOK, Worlds, Steps, Statuses
  <2> QED
    BY <1>1, <1>2, <1>3, <2>1, <2>3 DEF ControllerInv, AboutTheLast, Remembered, AssessesOwnPlan
<1>5. CASE ~applied
  <2>1. world' = world /\ ghost' = [ghost EXCEPT !.dropped = TRUE]
    BY <1>5 DEF Apply
  <2>2. ghost' \in [planned : 0 .. Never, dropped : BOOLEAN] /\ ghost'.dropped = TRUE
    BY <1>1, <2>1
  <2>3. TypeOK'
    BY <1>2, <1>3, <2>1, <2>2 DEF ControllerInv, TypeOK, Steps
  <2> QED
    BY <1>2, <1>3, <2>1, <2>2, <2>3 DEF ControllerInv, AboutTheLast, Remembered, AssessesOwnPlan
<1> QED
  BY <1>4, <1>5

\* The steps that only end, start or wait.
LEMMA InvOther == ControllerInv /\ (ModelAssesses \/ PlanFails \/ Stop \/ Relaunch) => ControllerInv'
<1> SUFFICES ASSUME ControllerInv, ModelAssesses \/ PlanFails \/ Stop \/ Relaunch PROVE ControllerInv'
  OBVIOUS
<1>1. /\ world \in Worlds /\ step \in Steps /\ assessment \in Assessments \cup {Absent}
      /\ ghost \in [planned : 0 .. Never, dropped : BOOLEAN]
  BY StateTypes DEF ControllerInv
<1>2. CASE ModelAssesses
  <2>1. PICK says \in {"continue", "replan"} : assessment' = [assessment EXCEPT !.says = says]
    BY <1>2 DEF ModelAssesses
  <2>2. assessment \in Assessments
    BY <1>1, <1>2 DEF ModelAssesses
  <2>3. assessment' \in Assessments /\ assessment'.plan = assessment.plan
    BY <2>1, <2>2 DEF Assessments
  <2>4. UNCHANGED <<world, step, previous, assessed, pending, ghost>> /\ assessment # Absent
    BY <1>2 DEF ModelAssesses
  <2>5. TypeOK'
    BY <2>3, <2>4 DEF ControllerInv, TypeOK, Assessments
  <2> QED
    BY <2>3, <2>4, <2>5 DEF ControllerInv, AboutTheLast, Remembered, AssessesOwnPlan
<1>3. CASE PlanFails
  <2>1. /\ step' = [step EXCEPT !.at = "ended"] /\ ghost' = [ghost EXCEPT !.dropped = TRUE]
        /\ step.at = "planning"
        /\ UNCHANGED <<world, previous, assessment, assessed, pending>>
    BY <1>3 DEF PlanFails
  <2>2. /\ step' \in Steps /\ step'.at = "ended" /\ ghost'.dropped = TRUE
        /\ ghost' \in [planned : 0 .. Never, dropped : BOOLEAN]
    BY <1>1, <2>1 DEF Steps
  <2>3. TypeOK'
    BY <2>1, <2>2 DEF ControllerInv, TypeOK, Steps
  <2> QED
    BY <2>1, <2>2, <2>3 DEF ControllerInv, AboutTheLast, Remembered, AssessesOwnPlan
<1>4. CASE Stop
  <2>1. /\ step' \in Steps /\ step'.at = "ended" /\ step.at = "idle" /\ assessment' = Absent
        /\ UNCHANGED <<world, previous, assessed, pending, ghost>>
    BY <1>1, <1>4 DEF Stop, About, Steps, Worlds
  <2>2. TypeOK'
    BY <2>1 DEF ControllerInv, TypeOK, Steps
  <2> QED
    BY <2>1, <2>2 DEF ControllerInv, AboutTheLast, Remembered, AssessesOwnPlan
<1>5. CASE Relaunch
  <2>1. /\ step' \in Steps /\ step'.at = "idle" /\ step.at = "ended"
        /\ UNCHANGED <<world, previous, assessment, assessed, pending, ghost>>
    BY <1>5, Bounds DEF Relaunch, Idle, Steps
  <2>2. TypeOK'
    BY <2>1 DEF ControllerInv, TypeOK, Steps
  <2> QED
    BY <2>1, <2>2 DEF ControllerInv, AboutTheLast, Remembered, AssessesOwnPlan
<1> QED
  BY <1>2, <1>3, <1>4, <1>5

LEMMA InvStep == ControllerInv /\ [ControllerNext]_controllerVars => ControllerInv'
<1>1. ControllerInv /\ UNCHANGED controllerVars => ControllerInv'
  BY DEF controllerVars, ControllerInv, TypeOK, AboutTheLast, Remembered, AssessesOwnPlan
<1> QED
  BY <1>1, InvWorld, InvLeftAlone, InvWatch, InvPause, InvApply, InvOther
     DEF ControllerNext, CoreController

\* The invariant holds whatever the world, the player and the models do.
THEOREM ControllerInvariance == ControllerSpec => []ControllerInv
BY InvInit, InvStep, PTL DEF ControllerSpec

\* The state keeps its types.
THEOREM Types == ControllerSpec => []TypeOK
<1>1. ControllerInv => TypeOK
  BY DEF ControllerInv
<1> QED
  BY <1>1, ControllerInvariance, PTL

\* A low resource the controller has seen is planned for, or the reason is kept, for
\* every threshold: only a plan that failed or was refused as late loses it.
THEOREM LowResourcesArePlannedFor == ControllerSpec => []LowIsPlannedFor
<1>1. ControllerInv => LowIsPlannedFor
  BY DEF ControllerInv, Remembered, LowIsPlannedFor
<1> QED
  BY <1>1, ControllerInvariance, PTL

\* No advice is acted on under another plan than the one that was assessed: the reset
\* that takes the plan away is a reason to plan before any assessment is read.
THEOREM AdviceIsAlwaysCurrent == ControllerSpec => AdviceIsCurrent
<1>1. ASSUME ControllerInv, [ControllerNext]_controllerVars, step.at = "idle", step'.at = "pausing", step'.advised
      PROVE  assessment.plan = world.plan
  <2>1. CASE Observe
    <3>1. world.status # "running" => step' \in {step, About("ended", FALSE)}
      BY <2>1 DEF Observe
    <3>2. About("ended", FALSE).at = "ended"
      BY DEF About
    <3>3. world.status = "running"
      BY <1>1, <3>1, <3>2
    <3>4. CASE Plan(FALSE)
      <4>1. ~step'.advised
        BY <3>4 DEF Plan, About
      <4> QED
        BY <1>1, <4>1
    <3>5. CASE ~Risk /\ Assess
      <4>1. assessment # Absent
        BY <1>1, <3>5 DEF Assess
      <4>2. world.plan # 0
        BY <3>5 DEF Risk
      <4> QED
        BY <1>1, <4>1, <4>2 DEF ControllerInv, AssessesOwnPlan
    <3> QED
      BY <2>1, <3>3, <3>4, <3>5 DEF Observe
  <2>2. CASE World \/ ModelAssesses \/ UNCHANGED controllerVars
    <3>1. step' = step
      BY <2>2 DEF World, Tick, PlayerPauses, PlayerResumes, PlayerEdits, PlayerResets, Change,
                  own, ModelAssesses, controllerVars
    <3> QED
      BY <1>1, <3>1
  <2>3. CASE Stop
    <3>1. step'.at = "ended"
      BY <2>3 DEF Stop, About
    <3> QED
      BY <1>1, <3>1
  <2>4. CASE Pause \/ Apply \/ PlanFails \/ Relaunch
    BY <1>1, <2>4 DEF Pause, Apply, PlanFails, Relaunch
  <2> QED
    BY <1>1, <2>1, <2>2, <2>3, <2>4 DEF ControllerNext, CoreController
<1> QED
  BY <1>1, ControllerInvariance, PTL DEF ControllerSpec, AdviceIsCurrent

=============================================================================
