--------------------------- MODULE ReleaseProofs ---------------------------
(***************************************************************************)
(* Theorems about what is released.                                        *)
(*                                                                         *)
(* The first half is about GithubRelease, for any set of jobs and any      *)
(* number of tries of each: the release implements the register of         *)
(* ReleaseRegister, and jobs run one after the other leave the notes of    *)
(* the last.  The inductive invariant has five parts besides the types:    *)
(*   Busy           a job has an exit code when its run is over;           *)
(*   KnownIds       a request or an answer names a release that exists;    *)
(*   OnePublished   at most one release of the tag is published;           *)
(*   EarnedSuccess  an answer that lets a job exit with 0 reaches it only  *)
(*                  after its notes were written, by that try or an        *)
(*                  earlier one;                                           *)
(*   Undisturbed    while the last job started alone, whatever is on its   *)
(*                  way is its own.                                        *)
(*                                                                         *)
(* The second half is about ReleasePackage, for any files, changes, runs   *)
(* and faults: between its steps the script owes the archive what the      *)
(* manifest lists (Listed).                                                *)
(***************************************************************************)
EXTENDS GithubRelease, ReleasePackage, SequenceTheorems, TLAPS

Release == [notes : Updaters, draft : BOOLEAN]
Request == [method : Methods, by : Updaters, id : Nat, try : Nat]
Statuses == {0, 200, 201, 404, 422}

TypeInv ==
  /\ drafts \in SUBSET Updaters
  /\ releases \in Seq(Release)
  /\ transit \in SUBSET Request
  /\ reply \in [Updaters -> [status : Statuses, id : Nat]]
  /\ pc \in [Updaters -> Methods \union {"idle", "done"}]
  /\ try \in [Updaters -> Nat]
  /\ code \in [Updaters -> {0, 1, 2, Running}]
  /\ written \in SUBSET Updaters
  /\ alone \in Updaters \union {Nobody}

KnownIds ==
  /\ \A r \in transit : r.method = "PATCH" => r.id \in DOMAIN releases
  /\ \A r \in transit : r.method = "POST" => r.id = 0
  /\ \A p \in Updaters :
       pc[p] = "GET" /\ reply[p].status = 200 => reply[p].id \in DOMAIN releases

OnePublished == \A i, j \in Published : i = j

Busy == \A p \in Updaters : pc[p] # "done" => code[p] = Running

(* p has been told that what it asked for was done. *)
Told(p) == \/ pc[p] = "POST" /\ reply[p].status = 201
           \/ pc[p] = "PATCH" /\ reply[p].status = 200

EarnedSuccess == \A p \in Updaters : Told(p) \/ code[p] = 0 => p \in written

Undisturbed ==
  \A p \in Updaters : alone = p =>
    /\ \A q \in Updaters \ {p} : ~Waiting(q)
    /\ \A r \in transit : r.by = p
    /\ p \notin drafts /\ (Told(p) \/ code[p] = 0) => Shown = p

IInv == TypeInv /\ Busy /\ KnownIds /\ OnePublished /\ EarnedSuccess
        /\ Undisturbed
-----------------------------------------------------------------------------
(* What the releases rel show, and the ids of those that are published. *)
Visible(rel) == {i \in DOMAIN rel : ~rel[i].draft}

Notes(rel) == IF Visible(rel) = {} THEN Nobody
              ELSE rel[CHOOSE i \in Visible(rel) : TRUE].notes

LEMMA ShownNow == Shown = Notes(releases) /\ Published = Visible(releases)
  BY DEF Shown, Notes, Published, Visible

LEMMA ShownNext == Shown' = Notes(releases') /\ Published' = Visible(releases')
  BY DEF Shown, Notes, Published, Visible

(* With one published release, its notes are what is shown. *)
LEMMA TheOneShown ==
  ASSUME NEW rel, NEW i, Visible(rel) = {i}
  PROVE  Notes(rel) = rel[i].notes
  BY DEF Notes

(***************************************************************************)
(* What a create does to the published releases: nothing for a draft, else *)
(* it is the only one, if none was published.                              *)
(***************************************************************************)
LEMMA CreatePublishes ==
  ASSUME NEW rel \in Seq(Release), NEW s \in Release
  PROVE  /\ Append(rel, s) \in Seq(Release)
         /\ DOMAIN rel \subseteq DOMAIN Append(rel, s)
         /\ s.draft => Visible(Append(rel, s)) = Visible(rel)
                       /\ Notes(Append(rel, s)) = Notes(rel)
         /\ ~s.draft /\ Visible(rel) = {} =>
              /\ Visible(Append(rel, s)) = {Len(rel) + 1}
              /\ Notes(Append(rel, s)) = s.notes
  <1> DEFINE new == Append(rel, s)
  <1>1. /\ new \in Seq(Release)
        /\ Len(new) = Len(rel) + 1
        /\ \A i \in 1..Len(rel) : new[i] = rel[i]
        /\ new[Len(rel) + 1] = s
    BY AppendProperties
  <1>2. DOMAIN new = 1..(Len(rel) + 1) /\ DOMAIN rel = 1..Len(rel) /\ Len(rel) \in Nat
    BY <1>1, LenProperties
  <1> HIDE DEF new
  <1>3. s.draft => Visible(new) = Visible(rel)
    BY <1>1, <1>2 DEF Visible
  <1>4. s.draft => Notes(new) = Notes(rel)
    <2> SUFFICES ASSUME s.draft
                 PROVE  Notes(new) = Notes(rel)
      OBVIOUS
    <2>1. CASE Visible(rel) = {}
      BY <1>3, <2>1 DEF Notes
    <2>2. CASE Visible(rel) # {}
      <3>1. (CHOOSE i \in Visible(rel) : TRUE) \in 1..Len(rel)
        BY <1>2, <2>2 DEF Visible
      <3>2. QED
        BY <1>1, <1>3, <2>2, <3>1 DEF Notes
    <2>3. QED
      BY <2>1, <2>2
  <1>5. ~s.draft /\ Visible(rel) = {} => Visible(new) = {Len(rel) + 1}
    BY <1>1, <1>2 DEF Visible
  <1>6. ~s.draft /\ Visible(rel) = {} => Notes(new) = s.notes
    BY <1>1, <1>5, TheOneShown
  <1>7. QED
    BY <1>1, <1>2, <1>3, <1>4, <1>5, <1>6 DEF new

(***************************************************************************)
(* What an update does: a draft hides what it replaces, else the release   *)
(* becomes the only published one, if no other was.                        *)
(***************************************************************************)
LEMMA UpdatePublishes ==
  ASSUME NEW rel \in Seq(Release), NEW s \in Release, NEW k \in DOMAIN rel,
         \A i, j \in Visible(rel) : i = j
  PROVE  LET new == [rel EXCEPT ![k] = s]
         IN  /\ new \in Seq(Release)
             /\ DOMAIN new = DOMAIN rel
             /\ s.draft => Visible(new) = Visible(rel) \ {k}
                           /\ Notes(new) \in {Notes(rel), Nobody}
             /\ ~s.draft /\ Visible(rel) \ {k} = {} =>
                  Visible(new) = {k} /\ Notes(new) = s.notes
  <1> DEFINE new == [rel EXCEPT ![k] = s]
  <1>1. /\ new \in Seq(Release)
        /\ DOMAIN new = DOMAIN rel
        /\ new[k] = s
        /\ \A i \in DOMAIN rel \ {k} : new[i] = rel[i]
    OBVIOUS
  <1> HIDE DEF new
  <1>2. s.draft => Visible(new) = Visible(rel) \ {k}
    BY <1>1 DEF Visible
  <1>3. s.draft => Notes(new) \in {Notes(rel), Nobody}
    <2> SUFFICES ASSUME s.draft, Visible(new) # {}
                 PROVE  Notes(new) = Notes(rel)
      BY DEF Notes
    <2>1. PICK i : i \in Visible(new)
      OBVIOUS
    <2>2. i \in Visible(rel) /\ i # k
      BY <1>2, <2>1
    <2>3. Visible(rel) = {i} /\ Visible(new) = {i}
      BY <1>2, <2>1, <2>2
    <2>4. i \in DOMAIN rel \ {k}
      BY <2>2 DEF Visible
    <2>5. QED
      BY <1>1, <2>3, <2>4, TheOneShown
  <1>4. ~s.draft /\ Visible(rel) \ {k} = {} => Visible(new) = {k}
    BY <1>1 DEF Visible
  <1>5. ~s.draft /\ Visible(rel) \ {k} = {} => Notes(new) = s.notes
    BY <1>1, <1>4, TheOneShown
  <1>6. QED
    BY <1>1, <1>2, <1>3, <1>4, <1>5 DEF new
-----------------------------------------------------------------------------
(* The initial state has every part of the invariant. *)
LEMMA InitIInv == Init => IInv
  <1> SUFFICES ASSUME Init
               PROVE  IInv
    OBVIOUS
  <1>1. releases \in Seq(Release) /\ DOMAIN releases = {}
    BY DEF Init
  <1>2. TypeInv
    BY <1>1 DEF Init, TypeInv, Silence, Running, Statuses, Request
  <1>3. KnownIds /\ OnePublished
    BY <1>1 DEF Init, KnownIds, OnePublished, Published, Silence
  <1>4. Busy /\ EarnedSuccess
    BY DEF Init, Busy, EarnedSuccess, Told, Running
  <1>5. Undisturbed
    BY GithubAssumption DEF Init, Undisturbed
  <1>6. QED
    BY <1>2, <1>3, <1>4, <1>5 DEF IInv

(* Sending, and answering, keep the types of what they touch. *)
LEMMA SendTypes ==
  ASSUME TypeInv, NEW p \in Updaters, NEW method \in Methods, NEW id \in Nat,
         NEW n \in Nat, Send(p, method, id, n)
  PROVE  /\ transit' \in SUBSET Request
         /\ reply' \in [Updaters -> [status : Statuses, id : Nat]]
         /\ pc' \in [Updaters -> Methods \union {"idle", "done"}]
  <1>1. [method |-> method, by |-> p, id |-> id, try |-> n] \in Request
    BY DEF Request
  <1>2. Silence \in [status : Statuses, id : Nat]
    BY DEF Silence, Statuses
  <1>3. transit' \in SUBSET Request
    BY <1>1 DEF TypeInv, Send
  <1>4. reply' \in [Updaters -> [status : Statuses, id : Nat]]
    BY <1>2 DEF TypeInv, Send
  <1>5. pc' \in [Updaters -> Methods \union {"idle", "done"}]
    BY DEF TypeInv, Send, Goto
  <1>6. QED
    BY <1>3, <1>4, <1>5

LEMMA AnswerTypes ==
  ASSUME TypeInv, NEW r \in transit, NEW status \in Statuses, NEW id \in Nat,
         Answer(r, status, id)
  PROVE  /\ transit' \in SUBSET Request
         /\ reply' \in [Updaters -> [status : Statuses, id : Nat]]
         /\ <<drafts, pc, try, code, alone>>' = <<drafts, pc, try, code, alone>>
  <1>1. r.by \in Updaters /\ [status |-> status, id |-> id] \in [status : Statuses, id : Nat]
    BY DEF TypeInv, Request
  <1>2. transit' \in SUBSET Request
    BY DEF TypeInv, Answer
  <1>3. reply' \in [Updaters -> [status : Statuses, id : Nat]]
    BY <1>1 DEF TypeInv, Answer
  <1>4. QED
    BY <1>2, <1>3 DEF Answer

(* Every step keeps the types; releases only grow. *)
LEMMA NextTypes ==
  ASSUME TypeInv, KnownIds, OnePublished, [Next]_vars
  PROVE  TypeInv' /\ DOMAIN releases \subseteq DOMAIN releases'
  <1>1. ASSUME NEW p \in Updaters, start(p)
        PROVE  TypeInv' /\ DOMAIN releases \subseteq DOMAIN releases'
    <2>1. /\ try[p] \in Nat
          /\ Send(p, "GET", 0, try[p] + 1)
          /\ try' = [try EXCEPT ![p] = try[p] + 1]
          /\ code' = [code EXCEPT ![p] = Running]
          /\ alone' \in {p, Nobody}
          /\ <<drafts, releases, written>>' = <<drafts, releases, written>>
      BY <1>1 DEF TypeInv, start
    <2>2. QED
      BY <2>1, SendTypes DEF TypeInv, Methods
  <1>2. ASSUME NEW p \in Updaters, refuse(p)
        PROVE  TypeInv' /\ DOMAIN releases \subseteq DOMAIN releases'
    BY <1>2 DEF TypeInv, refuse, Exit, Goto
  <1>3. ASSUME NEW p \in Updaters, get_release_by_tag(p)
        PROVE  TypeInv' /\ DOMAIN releases \subseteq DOMAIN releases'
    <2>1. try[p] \in Nat /\ reply[p].id \in Nat
      BY DEF TypeInv
    <2>2. /\ Send(p, "POST", 0, try[p]) \/ Send(p, "PATCH", reply[p].id, try[p])
          /\ UNCHANGED <<drafts, releases, try, code, written, alone>>
      BY <1>3 DEF get_release_by_tag
    <2>3. /\ transit' \in SUBSET Request
          /\ reply' \in [Updaters -> [status : Statuses, id : Nat]]
          /\ pc' \in [Updaters -> Methods \union {"idle", "done"}]
      BY <2>1, <2>2, SendTypes DEF Methods
    <2>4. QED
      BY <2>2, <2>3 DEF TypeInv
  <1>4. ASSUME NEW p \in Updaters,
               create_release(p) \/ update_release(p) \/ give_up(p)
        PROVE  TypeInv' /\ DOMAIN releases \subseteq DOMAIN releases'
    <2>1. /\ Exit(p, 0) \/ Exit(p, 1)
          /\ UNCHANGED <<drafts, releases, transit, reply, try, written, alone>>
      BY <1>4 DEF create_release, update_release, give_up
    <2>2. QED
      BY <2>1 DEF TypeInv, Exit, Goto
  <1>5. ASSUME NEW r \in transit, serve_get(r) \/ serve_refuses(r)
        PROVE  TypeInv' /\ DOMAIN releases \subseteq DOMAIN releases'
    <2>1. Published \subseteq Nat
      BY LenProperties DEF TypeInv, Published
    <2>2. /\ \E status \in Statuses, id \in Nat : Answer(r, status, id)
          /\ UNCHANGED <<releases, written>>
      BY <1>5, <2>1 DEF serve_get, serve_refuses, Statuses
    <2>3. QED
      BY <2>2, AnswerTypes DEF TypeInv
  <1>6. ASSUME NEW r \in transit, serve_post(r)
        PROVE  TypeInv' /\ DOMAIN releases \subseteq DOMAIN releases'
    <2>1. r.by \in Updaters /\ Sent(r) \in Release
      BY DEF TypeInv, Sent, Release, Request
    <2>2. releases' \in Seq(Release) /\ DOMAIN releases \subseteq DOMAIN releases'
      BY <1>6, <2>1, CreatePublishes DEF serve_post, TypeInv
    <2>3. Answer(r, 201, Len(releases) + 1) /\ Len(releases) + 1 \in Nat
      BY <1>6, LenProperties DEF TypeInv, serve_post
    <2>4. written' \in SUBSET Updaters
      BY <1>6, <2>1 DEF TypeInv, serve_post
    <2>5. QED
      BY <2>2, <2>3, <2>4, AnswerTypes DEF TypeInv, Statuses
  <1>7. ASSUME NEW r \in transit, serve_patch(r)
        PROVE  TypeInv' /\ DOMAIN releases \subseteq DOMAIN releases'
    <2>1. r.by \in Updaters /\ Sent(r) \in Release /\ r.id \in Nat
      BY DEF TypeInv, Sent, Release, Request
    <2>2. /\ releases' = [releases EXCEPT ![r.id] = Sent(r)]
          /\ r.id \in DOMAIN releases
      BY <1>7 DEF serve_patch, KnownIds
    <2>3. releases' \in Seq(Release) /\ DOMAIN releases \subseteq DOMAIN releases'
      BY <2>1, <2>2 DEF TypeInv
    <2>4. Answer(r, 200, r.id) /\ written' \in SUBSET Updaters
      BY <1>7, <2>1 DEF TypeInv, serve_patch
    <2>5. QED
      BY <2>1, <2>3, <2>4, AnswerTypes DEF TypeInv, Statuses
  <1>8. ASSUME UNCHANGED vars
        PROVE  TypeInv' /\ DOMAIN releases \subseteq DOMAIN releases'
    BY <1>8 DEF TypeInv, vars
  <1>9. QED
    BY <1>1, <1>2, <1>3, <1>4, <1>5, <1>6, <1>7, <1>8 DEF Next, main, serve, Done

(* A run has no exit code before it ends. *)
LEMMA NextBusy ==
  ASSUME TypeInv, Busy, [Next]_vars
  PROVE  Busy'
  <1>1. ASSUME NEW p \in Updaters, start(p)
        PROVE  Busy'
    BY <1>1 DEF TypeInv, Busy, start, Send, Goto
  <1>2. ASSUME NEW p \in Updaters, refuse(p) \/ give_up(p)
        PROVE  Busy'
    BY <1>2 DEF TypeInv, Busy, refuse, give_up, Exit, Goto
  <1>3. ASSUME NEW p \in Updaters, get_release_by_tag(p)
        PROVE  Busy'
    <2>1. pc[p] = "GET" /\ code' = code /\ \E to : pc' = [pc EXCEPT ![p] = to]
      BY <1>3 DEF get_release_by_tag, Send, Goto
    <2>2. QED
      BY <2>1 DEF TypeInv, Busy
  <1>4. ASSUME NEW p \in Updaters, create_release(p) \/ update_release(p)
        PROVE  Busy'
    <2>1. Exit(p, 0) \/ Exit(p, 1)
      BY <1>4 DEF create_release, update_release
    <2>2. QED
      BY <2>1 DEF TypeInv, Busy, Exit, Goto
  <1>5. ASSUME NEW r \in transit, serve(r)
        PROVE  Busy'
    <2>1. pc' = pc /\ code' = code
      BY <1>5 DEF serve, serve_get, serve_post, serve_patch, serve_refuses, Answer
    <2>2. QED
      BY <2>1 DEF Busy
  <1>6. ASSUME UNCHANGED vars
        PROVE  Busy'
    BY <1>6 DEF Busy, vars
  <1>7. QED
    BY <1>1, <1>2, <1>3, <1>4, <1>5, <1>6 DEF Next, main, Done

(* Ids come from the server, and a release is never removed. *)
LEMMA NextKnownIds ==
  ASSUME TypeInv, KnownIds, [Next]_vars, DOMAIN releases \subseteq DOMAIN releases'
  PROVE  KnownIds'
  <1>1. ASSUME NEW p \in Updaters, start(p)
        PROVE  KnownIds'
    <2>1. Send(p, "GET", 0, try[p] + 1) /\ releases' = releases
      BY <1>1 DEF start
    <2>2. QED
      BY <2>1 DEF TypeInv, KnownIds, Send, Goto, Silence
  <1>2. ASSUME NEW p \in Updaters,
               refuse(p) \/ create_release(p) \/ update_release(p) \/ give_up(p)
        PROVE  KnownIds'
    <2>1. /\ transit' = transit /\ reply' = reply /\ releases' = releases
          /\ pc' = [pc EXCEPT ![p] = "done"]
      BY <1>2 DEF refuse, create_release, update_release, give_up, Exit, Goto
    <2>2. QED
      BY <2>1 DEF TypeInv, KnownIds
  <1>3. ASSUME NEW p \in Updaters, get_release_by_tag(p)
        PROVE  KnownIds'
    <2>1. /\ \/ Send(p, "POST", 0, try[p])
             \/ Send(p, "PATCH", reply[p].id, try[p]) /\ reply[p].id \in DOMAIN releases
          /\ releases' = releases
      BY <1>3 DEF get_release_by_tag, KnownIds
    <2>2. \A r \in transit' : \/ r \in transit
                              \/ r.method = "POST" /\ r.id = 0
                              \/ r.method = "PATCH" /\ r.id \in DOMAIN releases
      BY <2>1 DEF Send
    <2>3. \A q \in Updaters : pc'[q] = "GET" => pc[q] = "GET" /\ reply'[q] = reply[q]
      BY <2>1 DEF TypeInv, Send, Goto
    <2>4. QED
      BY <2>1, <2>2, <2>3 DEF KnownIds
  <1>4. ASSUME NEW r \in transit, serve(r)
        PROVE  KnownIds'
    <2>1. transit' \subseteq transit /\ pc' = pc
      BY <1>4 DEF serve, serve_get, serve_post, serve_patch, serve_refuses, Answer
    <2>2. ASSUME NEW q \in Updaters, pc[q] = "GET", reply'[q].status = 200
          PROVE  reply'[q].id \in DOMAIN releases
      <3>1. CASE serve_get(r)
        <4>1. \/ Answer(r, 404, 0)
              \/ \E i \in DOMAIN releases : Answer(r, 200, i)
          BY <3>1 DEF serve_get, Published
        <4>2. CASE reply'[q] = reply[q]
          BY <2>2, <4>2 DEF KnownIds
        <4>3. CASE reply'[q] # reply[q] /\ Answer(r, 404, 0)
          <5>1. reply'[q] = [status |-> 404, id |-> 0]
            BY <4>3 DEF Answer, TypeInv
          <5>2. QED
            BY <2>2, <5>1
        <4>4. ASSUME NEW i \in DOMAIN releases, Answer(r, 200, i), reply'[q] # reply[q]
              PROVE  reply'[q].id \in DOMAIN releases
          <5>1. reply'[q] = [status |-> 200, id |-> i]
            BY <4>4 DEF Answer, TypeInv
          <5>2. QED
            BY <5>1
        <4>5. QED
          BY <4>1, <4>2, <4>3, <4>4
      <3>2. CASE ~serve_get(r)
        <4>1. r.method # "GET" /\ \E status, id : Answer(r, status, id)
          BY <1>4, <3>2 DEF serve, serve_post, serve_patch, serve_refuses
        <4>2. reply'[q] = reply[q]
          BY <2>2, <4>1 DEF Answer, TypeInv
        <4>3. QED
          BY <2>2, <4>2 DEF KnownIds
      <3>3. QED
        BY <3>1, <3>2
    <2>3. QED
      BY <2>1, <2>2 DEF KnownIds
  <1>5. ASSUME UNCHANGED vars
        PROVE  KnownIds'
    BY <1>5 DEF KnownIds, vars
  <1>6. QED
    BY <1>1, <1>2, <1>3, <1>4, <1>5 DEF Next, main, Done

(***************************************************************************)
(* What the server does to the releases: nothing, or it puts the notes of  *)
(* the request there, alone in view unless its writer drafts.              *)
(***************************************************************************)
LEMMA ServeWrites ==
  ASSUME TypeInv, KnownIds, OnePublished, NEW r \in transit, serve(r)
  PROVE  /\ OnePublished'
         /\ serve_get(r) \/ serve_refuses(r) => Shown' = Shown /\ written' = written
         /\ serve_post(r) \/ serve_patch(r) =>
              /\ written' = written \union {r.by}
              /\ r.by \notin drafts => Shown' = r.by
              /\ r.by \in drafts => Shown' \in {Shown, Nobody}
  <1> DEFINE Writes == /\ written' = written \union {r.by}
                       /\ r.by \notin drafts => Shown' = r.by
                       /\ r.by \in drafts => Shown' \in {Shown, Nobody}
  <1>1. /\ releases \in Seq(Release)
        /\ r.by \in Updaters
        /\ Sent(r) \in Release
        /\ Sent(r).notes = r.by
        /\ Sent(r).draft <=> r.by \in drafts
        /\ \A i, j \in Visible(releases) : i = j
    <2>1. releases \in Seq(Release) /\ r.by \in Updaters
      BY DEF TypeInv, Request
    <2>2. Sent(r) \in Release /\ Sent(r).notes = r.by /\ Sent(r).draft = (r.by \in drafts)
      BY <2>1 DEF Sent, Release
    <2>3. \A i, j \in Visible(releases) : i = j
      BY ShownNow DEF OnePublished
    <2>4. QED
      BY <2>1, <2>2, <2>3
  <1>2. ASSUME serve_get(r) \/ serve_refuses(r)
        PROVE  OnePublished' /\ Shown' = Shown /\ written' = written
    <2>1. releases' = releases /\ written' = written
      BY <1>2 DEF serve_get, serve_refuses
    <2>2. Shown' = Shown /\ Published' = Published
      BY <2>1, ShownNow, ShownNext
    <2>3. QED
      BY <2>1, <2>2 DEF OnePublished
  <1>3. ASSUME serve_post(r)
        PROVE  OnePublished' /\ Writes
    <2>1. /\ releases' = Append(releases, Sent(r))
          /\ written' = written \union {r.by}
          /\ ~Taken(r)
      BY <1>3 DEF serve_post
    <2>2. CASE r.by \in drafts
      <3>1. Visible(releases') = Visible(releases) /\ Notes(releases') = Notes(releases)
        BY <1>1, <2>1, <2>2, CreatePublishes
      <3>2. QED
        BY <1>1, <2>1, <2>2, <3>1, ShownNow, ShownNext DEF OnePublished
    <2>3. CASE r.by \notin drafts
      <3>1. Visible(releases) \ {r.id} = {}
        BY <2>1, <2>3, ShownNow DEF Taken
      <3>2. Visible(releases) = {}
        <4>1. r.id = 0
          BY <1>3 DEF serve_post, KnownIds
        <4>2. 0 \notin DOMAIN releases
          BY <1>1, LenProperties
        <4>3. QED
          BY <3>1, <4>1, <4>2 DEF Visible
      <3>3. /\ Visible(releases') = {Len(releases) + 1}
            /\ Notes(releases') = r.by
        BY <1>1, <2>1, <2>3, <3>2, CreatePublishes
      <3>4. QED
        BY <2>1, <2>3, <3>3, ShownNext DEF OnePublished
    <2>4. QED
      BY <2>2, <2>3
  <1>4. ASSUME serve_patch(r)
        PROVE  OnePublished' /\ Writes
    <2>1. /\ releases' = [releases EXCEPT ![r.id] = Sent(r)]
          /\ written' = written \union {r.by}
          /\ ~Taken(r)
          /\ r.id \in DOMAIN releases
      BY <1>4 DEF serve_patch, KnownIds
    <2>2. CASE r.by \in drafts
      <3>1. /\ Visible(releases') = Visible(releases) \ {r.id}
            /\ Notes(releases') \in {Notes(releases), Nobody}
        BY <1>1, <2>1, <2>2, UpdatePublishes
      <3>2. QED
        BY <1>1, <2>1, <2>2, <3>1, ShownNow, ShownNext DEF OnePublished
    <2>3. CASE r.by \notin drafts
      <3>1. Visible(releases) \ {r.id} = {}
        BY <2>1, <2>3, ShownNow DEF Taken
      <3>2. Visible(releases') = {r.id} /\ Notes(releases') = r.by
        BY <1>1, <2>1, <2>3, <3>1, UpdatePublishes
      <3>3. QED
        BY <2>1, <2>3, <3>2, ShownNext DEF OnePublished
    <2>4. QED
      BY <2>2, <2>3
  <1>5. QED
    BY <1>2, <1>3, <1>4 DEF serve

(***************************************************************************)
(* The server tells a job that its write was done in the step that does    *)
(* it.                                                                     *)
(***************************************************************************)
LEMMA ToldIsWritten ==
  ASSUME TypeInv, NEW r \in transit, serve(r), NEW q \in Updaters, Told(q)', ~Told(q)
  PROVE  /\ serve_post(r) \/ serve_patch(r)
         /\ r.by = q
         /\ q \in written'
  <1>1. pc' = pc
    BY DEF serve, serve_get, serve_post, serve_patch, serve_refuses, Answer
  <1>2. reply'[q] # reply[q] /\ pc[q] \in {"POST", "PATCH"}
    BY <1>1 DEF Told
  <1>3. r.by = q /\ r.method = pc[q]
    BY <1>2 DEF TypeInv, serve, serve_get, serve_post, serve_patch, serve_refuses, Answer
  <1>4. ~serve_get(r)
    BY <1>2, <1>3 DEF serve_get
  <1>5. ASSUME serve_refuses(r)
        PROVE  FALSE
    <2>1. Answer(r, 422, 0)
      BY <1>5 DEF serve_refuses
    <2>2. reply'[q].status = 422
      BY <1>2, <1>3, <2>1 DEF Answer, TypeInv
    <2>3. QED
      BY <2>2 DEF Told
  <1>6. serve_post(r) \/ serve_patch(r)
    BY <1>4, <1>5 DEF serve
  <1>7. QED
    BY <1>3, <1>6 DEF serve_post, serve_patch

(* A job that can exit with 0 has had its notes written. *)
LEMMA NextEarned ==
  ASSUME TypeInv, KnownIds, OnePublished, EarnedSuccess, [Next]_vars
  PROVE  OnePublished' /\ EarnedSuccess'
  <1>1. ASSUME NEW p \in Updaters, start(p)
        PROVE  OnePublished' /\ EarnedSuccess'
    <2>1. /\ Send(p, "GET", 0, try[p] + 1)
          /\ code' = [code EXCEPT ![p] = Running]
          /\ UNCHANGED <<releases, written>>
      BY <1>1 DEF start
    <2>2. QED
      BY <2>1 DEF TypeInv, OnePublished, Published, EarnedSuccess, Told, Send, Goto,
                  Silence, Running
  <1>2. ASSUME NEW p \in Updaters, refuse(p) \/ give_up(p)
        PROVE  OnePublished' /\ EarnedSuccess'
    <2>1. /\ Exit(p, 1) \/ Exit(p, 2)
          /\ UNCHANGED <<releases, reply, written>>
      BY <1>2 DEF refuse, give_up
    <2>2. QED
      BY <2>1 DEF TypeInv, OnePublished, Published, EarnedSuccess, Told, Exit, Goto
  <1>3. ASSUME NEW p \in Updaters, get_release_by_tag(p)
        PROVE  OnePublished' /\ EarnedSuccess'
    <2>1. /\ reply' = [reply EXCEPT ![p] = Silence]
          /\ \E to \in Methods : pc' = [pc EXCEPT ![p] = to]
          /\ UNCHANGED <<releases, code, written>>
      BY <1>3 DEF get_release_by_tag, Send, Goto, Methods
    <2>2. QED
      BY <2>1 DEF TypeInv, OnePublished, Published, EarnedSuccess, Told, Silence
  <1>4. ASSUME NEW p \in Updaters, create_release(p) \/ update_release(p)
        PROVE  OnePublished' /\ EarnedSuccess'
    <2>1. /\ (Told(p) /\ Exit(p, 0)) \/ Exit(p, 1)
          /\ UNCHANGED <<releases, reply, written>>
      BY <1>4 DEF create_release, update_release, Told
    <2>2. Told(p) => p \in written
      BY DEF EarnedSuccess
    <2>3. QED
      BY <2>1, <2>2 DEF TypeInv, OnePublished, Published, EarnedSuccess, Told, Exit, Goto
  <1>5. ASSUME NEW r \in transit, serve(r)
        PROVE  OnePublished' /\ EarnedSuccess'
    <2>1. /\ OnePublished'
          /\ written \subseteq written'
          /\ UNCHANGED <<pc, code>>
      BY <1>5, ServeWrites DEF serve, serve_get, serve_post, serve_patch, serve_refuses,
                              Answer
    <2>2. ASSUME NEW q \in Updaters, Told(q)', ~Told(q)
          PROVE  q \in written'
      BY <1>5, <2>1, <2>2, ToldIsWritten
    <2>3. QED
      BY <2>1, <2>2 DEF EarnedSuccess
  <1>6. ASSUME UNCHANGED vars
        PROVE  OnePublished' /\ EarnedSuccess'
    BY <1>6 DEF OnePublished, Published, EarnedSuccess, Told, vars
  <1>7. QED
    BY <1>1, <1>2, <1>3, <1>4, <1>5, <1>6 DEF Next, main, Done

(***************************************************************************)
(* Nothing of another is on its way to a job that started alone, and what  *)
(* it was told to have written is what is shown.                           *)
(***************************************************************************)
LEMMA NextUndisturbed ==
  ASSUME TypeInv, KnownIds, OnePublished, Undisturbed, [Next]_vars
  PROVE  Undisturbed'
  <1>1. ASSUME NEW p \in Updaters, start(p)
        PROVE  Undisturbed'
    <2>1. /\ Send(p, "GET", 0, try[p] + 1)
          /\ code' = [code EXCEPT ![p] = Running]
          /\ alone' = p \/ alone' = Nobody
          /\ alone' = p => /\ \A q \in Updaters \ {p} : ~Waiting(q)
                          /\ \A r \in transit : r.by = p
      BY <1>1, GithubAssumption DEF start
    <2>2. /\ \A q \in Updaters \ {p} : pc'[q] = pc[q]
          /\ \A r \in transit' : r \in transit \/ r.by = p
          /\ ~Told(p)'
          /\ code'[p] = Running
      BY <2>1 DEF TypeInv, Send, Goto, Told
    <2>3. QED
      BY <2>1, <2>2, GithubAssumption DEF Undisturbed, Waiting, Running
  <1>2. ASSUME NEW p \in Updaters, refuse(p) \/ give_up(p)
        PROVE  Undisturbed'
    <2>1. /\ Exit(p, 1) \/ Exit(p, 2)
          /\ UNCHANGED <<drafts, releases, transit, reply, alone>>
      BY <1>2 DEF refuse, give_up
    <2>2. Shown' = Shown
      BY <2>1, ShownNow, ShownNext
    <2>3. \A q \in Updaters : /\ Told(q)' => Told(q)
                              /\ code'[q] = 0 => code[q] = 0
                              /\ Waiting(q)' => Waiting(q)
      BY <2>1 DEF TypeInv, Exit, Goto, Told, Waiting, Methods
    <2>4. QED
      BY <2>1, <2>2, <2>3 DEF Undisturbed
  <1>3. ASSUME NEW p \in Updaters, get_release_by_tag(p)
        PROVE  Undisturbed'
    <2>1. /\ Waiting(p)
          /\ \A r \in transit' : r \in transit \/ r.by = p
          /\ reply' = [reply EXCEPT ![p] = Silence]
          /\ \E to \in Methods : pc' = [pc EXCEPT ![p] = to]
          /\ UNCHANGED <<drafts, releases, code, alone>>
      BY <1>3 DEF get_release_by_tag, Send, Goto, Methods, Waiting
    <2>2. Shown' = Shown
      BY <2>1, ShownNow, ShownNext
    <2>3. \A q \in Updaters : /\ Told(q)' => Told(q)
                              /\ Waiting(q)' => Waiting(q)
      BY <2>1 DEF TypeInv, Told, Waiting, Silence
    <2>4. QED
      BY <2>1, <2>2, <2>3 DEF Undisturbed
  <1>4. ASSUME NEW p \in Updaters, create_release(p) \/ update_release(p)
        PROVE  Undisturbed'
    <2>1. /\ (Told(p) /\ Exit(p, 0)) \/ Exit(p, 1)
          /\ UNCHANGED <<drafts, releases, transit, reply, alone>>
      BY <1>4 DEF create_release, update_release, Told
    <2>2. Shown' = Shown
      BY <2>1, ShownNow, ShownNext
    <2>3. \A q \in Updaters : /\ Told(q)' => Told(q)
                              /\ code'[q] = 0 => code[q] = 0 \/ Told(q)
                              /\ Waiting(q)' => Waiting(q)
      BY <2>1 DEF TypeInv, Exit, Goto, Told, Waiting, Methods
    <2>4. QED
      BY <2>1, <2>2, <2>3 DEF Undisturbed
  <1>5. ASSUME NEW r \in transit, serve(r)
        PROVE  Undisturbed'
    <2>1. /\ transit' \subseteq transit
          /\ UNCHANGED <<drafts, pc, code, alone>>
      BY <1>5 DEF serve, serve_get, serve_post, serve_patch, serve_refuses, Answer
    <2>2. \A q \in Updaters : Waiting(q)' => Waiting(q)
      BY <2>1 DEF Waiting
    <2>3. ASSUME NEW p \in Updaters, alone = p, p \notin drafts, Told(p)' \/ code[p] = 0
          PROVE  Shown' = p
      <3>1. r.by = p
        BY <2>3 DEF Undisturbed
      <3>2. CASE Told(p) \/ code[p] = 0
        <4>1. Shown = p
          BY <2>3, <3>2 DEF Undisturbed
        <4>2. QED
          BY <1>5, <2>3, <3>1, <4>1, ServeWrites DEF serve
      <3>3. CASE ~Told(p) /\ Told(p)'
        <4>1. serve_post(r) \/ serve_patch(r)
          BY <1>5, <3>3, ToldIsWritten
        <4>2. QED
          BY <1>5, <2>3, <3>1, <4>1, ServeWrites
      <3>4. QED
        BY <2>3, <3>2, <3>3
    <2>4. QED
      BY <2>1, <2>2, <2>3 DEF Undisturbed
  <1>6. ASSUME UNCHANGED vars
        PROVE  Undisturbed'
    <2>1. Shown' = Shown
      BY <1>6, ShownNow, ShownNext DEF vars
    <2>2. QED
      BY <1>6, <2>1 DEF Undisturbed, Waiting, Told, vars
  <1>7. QED
    BY <1>1, <1>2, <1>3, <1>4, <1>5, <1>6 DEF Next, main, Done

LEMMA NextIInv == IInv /\ [Next]_vars => IInv'
  <1> SUFFICES ASSUME IInv, [Next]_vars
               PROVE  IInv'
    OBVIOUS
  <1>1. TypeInv' /\ DOMAIN releases \subseteq DOMAIN releases'
    BY NextTypes DEF IInv
  <1>2. KnownIds'
    BY <1>1, NextKnownIds DEF IInv
  <1>3. OnePublished' /\ EarnedSuccess'
    BY NextEarned DEF IInv
  <1>4. Undisturbed'
    BY NextUndisturbed DEF IInv
  <1>5. Busy'
    BY NextBusy DEF IInv
  <1>6. QED
    BY <1>1, <1>2, <1>3, <1>4, <1>5 DEF IInv

(* The inductive invariant holds in every reachable state. *)
THEOREM Invariance == Spec => []IInv
  BY InitIInv, NextIInv, PTL DEF Spec

(* Every variable of the jobs, their requests and the server keeps its type. *)
THEOREM TypeCorrect == Spec => []TypeInv
  BY Invariance, PTL DEF IInv

(***************************************************************************)
(* Jobs run one after the other leave the notes of the last, whatever its  *)
(* own earlier tries still do and whatever is lost or delayed.             *)
(***************************************************************************)
THEOREM LastOneShows == Spec => []LastJobShows
  <1>1. IInv => LastJobShows
    BY DEF IInv, TypeInv, Undisturbed, LastJobShows
  <1>2. QED
    BY <1>1, Invariance, PTL

(***************************************************************************)
(* The release, as the server and the jobs make it, is the register that   *)
(* ReleaseRegister promises: an update or a creation that is handled is a  *)
(* Write of the register, an exit with 0 a Succeed, and nothing else shows *)
(* in it.                                                                  *)
(***************************************************************************)
THEOREM ImplementsRegister == Spec => RegisterSpec
  <1> DEFINE succeeded == {p \in Updaters : code[p] = 0}
  <1>1. Init => Register!Init
    <2> SUFFICES ASSUME Init
                 PROVE  Register!Init
      OBVIOUS
    <2>1. Published = {}
      BY DEF Init, Published
    <2>2. succeeded = {}
      BY DEF Init, Running
    <2>3. QED
      BY <2>1, <2>2 DEF Init, Register!Init, Shown
  <1>2. ASSUME IInv, [Next]_vars
        PROVE  [Register!Next]_(Register!vars)
    <2>1. ASSUME NEW p \in Updaters,
                 start(p) \/ refuse(p) \/ get_release_by_tag(p) \/ give_up(p)
          PROVE  UNCHANGED Register!vars
      <3>1. /\ UNCHANGED <<drafts, releases, written>>
            /\ \/ code' = code
               \/ /\ code[p] # 0
                  /\ \E c \in {1, 2, Running} : code' = [code EXCEPT ![p] = c]
        BY <1>2, <2>1 DEF IInv, Busy, Running, start, refuse, get_release_by_tag,
                          give_up, Exit, Waiting, Methods
      <3>2. Shown' = Shown
        BY <3>1, ShownNow, ShownNext
      <3>3. succeeded' = succeeded
        BY <1>2, <3>1 DEF IInv, TypeInv, Running
      <3>4. QED
        BY <3>1, <3>2, <3>3 DEF Register!vars
    <2>2. ASSUME NEW p \in Updaters, create_release(p) \/ update_release(p)
          PROVE  [Register!Next]_(Register!vars)
      <3>1. /\ UNCHANGED <<drafts, releases, written>>
            /\ \/ Told(p) /\ code' = [code EXCEPT ![p] = 0]
               \/ code' = [code EXCEPT ![p] = 1] /\ code[p] # 0
        BY <1>2, <2>2 DEF IInv, Busy, Running, create_release, update_release, Exit, Told
      <3>2. Shown' = Shown
        BY <3>1, ShownNow, ShownNext
      <3>3. CASE Told(p) /\ code' = [code EXCEPT ![p] = 0]
        <4>1. p \in written
          BY <1>2, <3>3 DEF IInv, EarnedSuccess
        <4>2. succeeded' = succeeded \union {p}
          BY <1>2, <3>3 DEF IInv, TypeInv
        <4>3. Register!Succeed(p)
          BY <3>1, <3>2, <4>1, <4>2 DEF Register!Succeed
        <4>4. QED
          BY <4>3 DEF Register!Next
      <3>4. CASE code' = [code EXCEPT ![p] = 1] /\ code[p] # 0
        <4>1. succeeded' = succeeded
          BY <1>2, <3>4 DEF IInv, TypeInv
        <4>2. QED
          BY <3>1, <3>2, <4>1 DEF Register!vars
      <3>5. QED
        BY <3>1, <3>3, <3>4
    <2>3. ASSUME NEW r \in transit, serve(r)
          PROVE  [Register!Next]_(Register!vars)
      <3>1. r.by \in Updaters /\ UNCHANGED <<drafts, code>>
        BY <1>2, <2>3 DEF IInv, TypeInv, Request, serve, serve_get, serve_post,
                          serve_patch, serve_refuses, Answer
      <3>2. succeeded' = succeeded
        BY <3>1
      <3>3. CASE serve_get(r) \/ serve_refuses(r)
        BY <1>2, <2>3, <3>1, <3>2, <3>3, ServeWrites DEF IInv, Register!vars
      <3>4. CASE serve_post(r) \/ serve_patch(r)
        <4>1. Register!Write(r.by)
          BY <1>2, <2>3, <3>1, <3>2, <3>4, ServeWrites DEF IInv, Register!Write
        <4>2. QED
          BY <3>1, <4>1 DEF Register!Next
      <3>5. QED
        BY <2>3, <3>3, <3>4 DEF serve
    <2>4. CASE UNCHANGED vars
      <3>1. Shown' = Shown
        BY <2>4, ShownNow, ShownNext DEF vars
      <3>2. QED
        BY <2>4, <3>1 DEF vars, Register!vars
    <2>5. QED
      BY <1>2, <2>1, <2>2, <2>3, <2>4 DEF Next, main, Done
  <1>3. QED
    BY <1>1, <1>2, Invariance, PTL DEF Spec, RegisterSpec, Register!Spec
-----------------------------------------------------------------------------
(* What job p has left at most: its tries, and the rest of the one it is in. *)
RunLeft(p) == CASE pc[p] = "GET" -> 2
                [] pc[p] \in {"POST", "PATCH", "idle"} -> 1
                [] OTHER -> 0
JobLeft(p) == 3 * (Tries - try[p]) + RunLeft(p)

(***************************************************************************)
(* Every step of a job leaves it less to do, and nothing another job, the  *)
(* server or the network does gives it more or moves it: a job makes at    *)
(* most 3 * Tries + 1 steps.  A waiting run can always make one, by giving *)
(* up, which is why EveryRunEnds needs no fairness of the server.          *)
(***************************************************************************)
JobCounts == \A p \in Updaters :
               IF start(p) \/ refuse(p) \/ main(p)
               THEN JobLeft(p)' < JobLeft(p)
               ELSE UNCHANGED <<pc[p], try[p]>>

(* A run that looks the release up has been counted, and none too many. *)
TriesInv == \A p \in Updaters : /\ try[p] \in 0..Tries
                                /\ RunLeft(p) = 2 => try[p] >= 1

LEMMA InitTries == Init => TriesInv
  <1>1. Tries \in Nat
    BY GithubAssumption
  <1>2. Init => \A p \in Updaters : try[p] = 0 /\ RunLeft(p) = 1
    BY DEF Init, RunLeft
  <1>3. ASSUME Init, NEW p \in Updaters
        PROVE  try[p] \in 0..Tries /\ (RunLeft(p) = 2 => try[p] >= 1)
    BY <1>1, <1>2, <1>3
  <1>4. QED
    BY <1>3 DEF TriesInv

(* What the step of a job does to its own place, and to that of another. *)
LEMMA JobStep ==
  ASSUME TypeInv, NEW p \in Updaters, start(p) \/ refuse(p) \/ main(p)
  PROVE  /\ \/ /\ try[p] < Tries /\ try' = [try EXCEPT ![p] = try[p] + 1]
               /\ RunLeft(p)' = 2
            \/ try' = try /\ RunLeft(p)' < RunLeft(p)
         /\ \A q \in Updaters \ {p} : pc'[q] = pc[q] /\ try'[q] = try[q]
  <1>1. pc \in [Updaters -> Methods \union {"idle", "done"}] /\ try \in [Updaters -> Nat]
    BY DEF TypeInv
  <1>2. CASE start(p)
    <2>1. /\ pc' = [pc EXCEPT ![p] = "GET"] /\ try[p] < Tries
          /\ try' = [try EXCEPT ![p] = try[p] + 1]
      BY <1>2 DEF start, Send, Goto
    <2>2. QED
      BY <1>1, <2>1 DEF RunLeft
  <1>3. CASE refuse(p) \/ main(p)
    <2>1. PICK to \in {"POST", "PATCH", "done"} : pc' = [pc EXCEPT ![p] = to]
      BY <1>3 DEF refuse, main, get_release_by_tag, create_release, update_release,
                  give_up, Send, Exit, Goto
    <2>2. try' = try
      BY <1>3 DEF refuse, main, get_release_by_tag, create_release, update_release,
                  give_up, Send
    <2>3. CASE get_release_by_tag(p)
      <3>1. pc[p] = "GET"
        BY <2>3 DEF get_release_by_tag
      <3>2. QED
        BY <1>1, <2>1, <2>2, <3>1 DEF RunLeft
    <2>4. CASE ~get_release_by_tag(p)
      <3>1. to = "done" \/ pc'[p] = "done"
        BY <1>1, <1>3, <2>1, <2>4 DEF refuse, main, create_release, update_release,
                                      give_up, Exit, Goto
      <3>2. pc'[p] = "done"
        BY <1>1, <2>1, <3>1
      <3>3. pc[p] \in {"GET", "POST", "PATCH", "idle"}
        BY <1>3, <2>4 DEF refuse, main, create_release, update_release, give_up,
                          Waiting, Methods
      <3>4. QED
        BY <1>1, <2>1, <2>2, <3>2, <3>3 DEF RunLeft
    <2>5. QED
      BY <2>3, <2>4
  <1>4. QED
    BY <1>2, <1>3

LEMMA NextTries == TypeInv /\ TriesInv /\ [Next]_vars => TriesInv'
  <1> SUFFICES ASSUME TypeInv, TriesInv, [Next]_vars PROVE TriesInv'
    OBVIOUS
  <1>1. ASSUME NEW p \in Updaters, start(p) \/ refuse(p) \/ main(p)
        PROVE  TriesInv'
    <2>1. /\ try \in [Updaters -> Nat] /\ Tries \in Nat
          /\ RunLeft(p) \in 0..2 /\ RunLeft(p)' \in 0..2
      BY GithubAssumption DEF TypeInv, RunLeft
    <2>2. \/ /\ try[p] < Tries /\ try' = [try EXCEPT ![p] = try[p] + 1]
             /\ RunLeft(p)' = 2
          \/ try' = try /\ RunLeft(p)' < RunLeft(p)
      BY <1>1, JobStep
    <2>3. try'[p] \in 0..Tries /\ (RunLeft(p)' = 2 => try'[p] >= 1)
      BY <2>1, <2>2 DEF TriesInv
    <2>4. ASSUME NEW q \in Updaters, q # p
          PROVE  try'[q] = try[q] /\ RunLeft(q)' = RunLeft(q)
      BY <1>1, <2>4, JobStep DEF RunLeft
    <2>5. QED
      BY <2>3, <2>4 DEF TriesInv
  <1>2. ASSUME (\E r \in transit : serve(r)) \/ Done \/ UNCHANGED vars
        PROVE  TriesInv'
    <2>1. try' = try /\ pc' = pc
      BY <1>2 DEF serve, serve_get, serve_post, serve_patch, serve_refuses, Answer,
                  Done, vars
    <2>2. QED
      BY <2>1 DEF TriesInv, RunLeft
  <1>3. QED
    BY <1>1, <1>2 DEF Next

(***************************************************************************)
(* A job makes at most 3 * Tries + 1 steps, whatever the others, the       *)
(* server and the network do (JobCounts).                                  *)
(***************************************************************************)
THEOREM JobsRunDown ==
  Spec => /\ [](\A p \in Updaters : JobLeft(p) \in 0..3 * Tries + 1)
          /\ [][JobCounts]_vars
  <1>1. TypeInv /\ TriesInv => \A p \in Updaters : JobLeft(p) \in 0..3 * Tries + 1
    <2> SUFFICES ASSUME TypeInv, TriesInv, NEW p \in Updaters
                 PROVE  JobLeft(p) \in 0..3 * Tries + 1
      OBVIOUS
    <2>1. Tries \in Nat /\ try[p] \in 0..Tries
      BY GithubAssumption DEF TriesInv
    <2>2. RunLeft(p) \in 0..2
      BY DEF RunLeft
    <2>3. RunLeft(p) = 2 => try[p] >= 1
      BY DEF TriesInv
    <2>4. QED
      BY <2>1, <2>2, <2>3 DEF JobLeft
  <1>2. TypeInv /\ TriesInv /\ [Next]_vars => [JobCounts]_vars
    <2> SUFFICES ASSUME TypeInv, TriesInv, Next, NEW p \in Updaters
                 PROVE  IF start(p) \/ refuse(p) \/ main(p)
                        THEN JobLeft(p)' < JobLeft(p)
                        ELSE UNCHANGED <<pc[p], try[p]>>
      BY DEF JobCounts
    <2>1. CASE start(p) \/ refuse(p) \/ main(p)
      <3>1. \/ try' = [try EXCEPT ![p] = try[p] + 1] /\ RunLeft(p)' = 2
            \/ try' = try /\ RunLeft(p)' < RunLeft(p)
        BY <2>1, JobStep
      <3>2. Tries \in Nat /\ try \in [Updaters -> Nat]
        BY GithubAssumption DEF TypeInv
      <3>3. RunLeft(p) \in 0..2 /\ RunLeft(p)' \in 0..2
        BY DEF RunLeft
      <3>4. \/ try'[p] = try[p] + 1 /\ RunLeft(p)' = 2
            \/ try'[p] = try[p] /\ RunLeft(p)' < RunLeft(p)
        BY <3>1, <3>2
      <3>5. JobLeft(p)' = 3 * (Tries - try'[p]) + RunLeft(p)'
        BY DEF JobLeft
      <3>6. try[p] \in Nat
        BY <3>2
      <3>7. JobLeft(p)' < JobLeft(p)
        BY <3>2, <3>3, <3>4, <3>5, <3>6 DEF JobLeft
      <3>8. QED
        BY <2>1, <3>7
    <2>2. CASE ~(start(p) \/ refuse(p) \/ main(p))
      <3>1. ASSUME NEW q \in Updaters, start(q) \/ refuse(q) \/ main(q)
            PROVE  pc'[p] = pc[p] /\ try'[p] = try[p]
        <4>1. p # q
          BY <2>2, <3>1
        <4>2. QED
          BY <3>1, <4>1, JobStep
      <3>2. ASSUME (\E r \in transit : serve(r)) \/ Done
            PROVE  pc'[p] = pc[p] /\ try'[p] = try[p]
        BY <3>2 DEF serve, serve_get, serve_post, serve_patch, serve_refuses, Answer,
                    Done, vars
      <3>3. QED
        BY <2>2, <3>1, <3>2 DEF Next
    <2>3. QED
      BY <2>1, <2>2
  <1>3. QED
    BY <1>1, <1>2, InitTries, NextTries, TypeCorrect, PTL DEF Spec
-----------------------------------------------------------------------------
(* What was copied is what the manifest lists, until the archive has it. *)
Listed == /\ stage = "zip" => manifest.files = tmp /\ manifest.run = runs
          /\ stage = "sign" =>
               /\ \A p \in DOMAIN manifest.files :
                    p \in DOMAIN archive.files /\ archive.files[p] = manifest.files[p]
               /\ manifest.run = runs /\ archive.run = runs

(* No signature is of the packaging under way, before it signs. *)
Unsigned == /\ runs \in Nat /\ sig \in Nat /\ sig =< runs
            /\ stage # "idle" => runs > 0 /\ sig < runs

PackageInv == Listed /\ Unsigned /\ OutputsFit

LEMMA InitPackage == PackageInit => PackageInv
  BY DEF PackageInit, PackageInv, Listed, Unsigned, OutputsFit, NoOutput

(* The steps that leave all outputs alone while no packaging has finished. *)
LEMMA NextPackage == PackageInv /\ [PackageNext]_packager => PackageInv'
  <1> SUFFICES ASSUME PackageInv, [PackageNext]_packager PROVE PackageInv'
    OBVIOUS
  <1>1. CASE change_file
    <2>1. UNCHANGED <<stage, runs, signing, gpg, tmp, manifest, archive, sig, outcome>>
      BY <1>1 DEF change_file, args
    <2>2. QED
      BY <2>1 DEF PackageInv, Listed, Unsigned, OutputsFit
  <1>2. CASE start_script
    BY <1>2 DEF start_script, PackageInv, Listed, Unsigned, OutputsFit, outside
  <1>3. CASE copy_artifacts
    <2>1. /\ stage # "idle" /\ UNCHANGED <<runs, sig>>
          /\ \/ stage' = "manifest"
             \/ stage' = "idle" /\ outcome' = 1
      BY <1>3 DEF copy_artifacts, End, args
    <2>2. QED
      BY <2>1 DEF PackageInv, Listed, Unsigned, OutputsFit
  <1>4. CASE write_manifest
    <2>1. /\ stage # "idle" /\ UNCHANGED <<runs, sig>>
          /\ \/ /\ stage' = "zip" /\ manifest' = [files |-> tmp, run |-> runs]
                /\ tmp' = tmp
             \/ stage' = "idle" /\ outcome' = 1
      BY <1>4 DEF write_manifest, End, args
    <2>2. QED
      BY <2>1 DEF PackageInv, Listed, Unsigned, OutputsFit
  <1>5. CASE zip
    <2>1. stage = "zip" /\ UNCHANGED <<runs, sig, manifest>>
      BY <1>5 DEF zip, args
    <2>2. \/ stage' = "sign" /\ archive' = [files |-> Over(tmp, archive.files), run |-> runs]
          \/ stage' = "idle" /\ outcome' = 1
      BY <1>5 DEF zip, End
    <2>3. manifest.files = tmp /\ manifest.run = runs
      BY <2>1 DEF PackageInv, Listed
    <2>4. CASE stage' = "sign" /\ archive' = [files |-> Over(tmp, archive.files), run |-> runs]
      <3>1. /\ DOMAIN Over(tmp, archive.files) = DOMAIN tmp \union DOMAIN archive.files
            /\ \A p \in DOMAIN tmp : Over(tmp, archive.files)[p] = tmp[p]
        BY DEF Over
      <3>2. archive'.files = Over(tmp, archive.files) /\ archive'.run = runs
        BY <2>4
      <3>3. \A p \in DOMAIN manifest'.files :
              p \in DOMAIN archive'.files /\ archive'.files[p] = manifest'.files[p]
        BY <2>1, <2>3, <3>1, <3>2
      <3>4. QED
        BY <2>1, <2>3, <2>4, <3>2, <3>3 DEF PackageInv, Listed, Unsigned, OutputsFit
    <2>5. CASE stage' = "idle" /\ outcome' = 1
      BY <2>1, <2>5 DEF PackageInv, Listed, Unsigned, OutputsFit
    <2>6. QED
      BY <2>2, <2>4, <2>5
  <1>6. CASE sign
    <2>1. /\ stage = "sign" /\ stage' = "idle"
          /\ UNCHANGED <<runs, signing, gpg, manifest, archive>>
          /\ \/ outcome' = 0 /\ signing /\ gpg /\ sig' = archive.run
             \/ outcome' = 0 /\ ~(signing /\ gpg) /\ sig' = sig
             \/ outcome' = 1 /\ sig' \in {sig, 0}
      BY <1>6 DEF sign, End, args
    <2>2. archive.run = runs /\ runs \in Nat /\ sig \in Nat /\ sig < runs
      BY <2>1 DEF PackageInv, Listed, Unsigned
    <2>3. QED
      BY <2>1, <2>2 DEF PackageInv, Listed, Unsigned, OutputsFit
  <1>7. CASE UNCHANGED packager
    <2>1. UNCHANGED <<stage, runs, signing, gpg, tmp, manifest, archive, sig, outcome>>
      BY <1>7 DEF packager, args
    <2>2. QED
      BY <2>1 DEF PackageInv, Listed, Unsigned, OutputsFit
  <1>8. QED
    BY <1>1, <1>2, <1>3, <1>4, <1>5, <1>6, <1>7 DEF PackageNext

(***************************************************************************)
(* After a successful packaging the archive and the manifest are of the    *)
(* same run, the archive holds what the manifest lists, and the signature  *)
(* is of this archive exactly when it was asked for and gpg is there, for  *)
(* any files, changes and runs.                                            *)
(***************************************************************************)
THEOREM PackageFits == PackageSpec => []OutputsFit
  <1>1. PackageInv => OutputsFit
    BY DEF PackageInv
  <1>2. QED
    BY <1>1, InitPackage, NextPackage, PTL DEF PackageSpec
=============================================================================
