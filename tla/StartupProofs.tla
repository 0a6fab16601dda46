---------------------------- MODULE StartupProofs ----------------------------
(***************************************************************************)
(* Proofs about Startup.  The list of what a step frees when it fails is,  *)
(* but for the tracker's response, exactly what is held when it begins:    *)
(* the lemmas go through the steps of main, and the theorems follow.       *)
(***************************************************************************)
EXTENDS Startup, TLAPS

USE StartupAssumption, SizeAssumption

-----------------------------------------------------------------------------
(* The lists of steps, put together.                                       *)

\* Announce is what comes before the URL is built, BuildUrl, and what follows.
BeforeUrl == <<
  Step("curl_easy_init",    {}, {}, {"curl"}, ByAnnounce({}), {}),
  Step("curl_easy_setopt",  {"curl"}, {}, {}, ByAnnounce({"curl"}), {}) >>

AfterUrl == <<
  Step("set_CURLOPT_URL",   {"curl", "tracker_url"}, {}, {},
                            ByAnnounce({"curl", "tracker_url"}), {"tracker_url"}),
  Step("curl_easy_perform", {"curl"}, {}, {}, Transfer, {}),
  Step("response_code_200", {"curl"}, {}, {}, Transfer, {"curl"}) >>

\* All the steps: a set that every one of the lists is a sequence over.
Elements(s, n) == {s[k] : k \in 1 .. n}

EveryStep ==
  Elements(ReadTorrent, 7) \cup Elements(UseTorrent, 4) \cup Elements(BeforeUrl, 2)
    \cup Elements(BuildUrl, 8) \cup Elements(AfterUrl, 3)
    \cup Elements(UseResponse, 8) \cup Elements(OpenOutput, 2)

List(s, n) == n \in Nat /\ s \in Seq(EveryStep) /\ Len(s) = n

\* s occurs in u behind the first n elements.
Within(s, m, u, n) == \A k \in 1 .. m : u[n + k] = s[k]

LEMMA IsList ==
  ASSUME NEW s, NEW n \in Nat, s = [k \in 1 .. n |-> s[k]],
         \A k \in 1 .. n : s[k] \in EveryStep
  PROVE  List(s, n)
BY DEF List

Joins(u, s, t) == u = s \o t

LEMMA Joined ==
  ASSUME NEW s, NEW t, NEW u, NEW m, NEW n, List(s, m), List(t, n), Joins(u, s, t)
  PROVE  List(u, m + n) /\ Within(s, m, u, 0) /\ Within(t, n, u, m)
<1>1. /\ s \in Seq(EveryStep) /\ Len(s) = m /\ m \in Nat
      /\ t \in Seq(EveryStep) /\ Len(t) = n /\ n \in Nat
      /\ u = s \o t
  BY DEF List, Joins
<1>2. u \in Seq(EveryStep) /\ Len(u) = m + n
  <2>1. s \o t \in Seq(EveryStep) /\ Len(s \o t) = Len(s) + Len(t)
    <3>1. s \in Seq(EveryStep) /\ t \in Seq(EveryStep)
      BY <1>1
    <3> QED
      BY <3>1
  <2> QED
    BY <1>1, <2>1
<1>3. ASSUME NEW k \in 1 .. m PROVE u[0 + k] = s[k]
  BY <1>1
<1>4. ASSUME NEW k \in 1 .. n PROVE u[m + k] = t[k]
  BY <1>1
<1> QED
  BY <1>1, <1>2, <1>3, <1>4 DEF List, Within

LEMMA Deeper ==
  ASSUME NEW s, NEW t, NEW u, NEW m \in Nat, NEW n \in Nat, NEW j \in Nat, NEW k \in Nat,
         Within(s, j, t, m), Within(t, k, u, n), m + j <= k
  PROVE  Within(s, j, u, n + m)
<1> SUFFICES ASSUME NEW e \in 1 .. j PROVE u[(n + m) + e] = s[e]
  BY DEF Within
<1>1. t[m + e] = s[e]
  BY DEF Within
<1>2. m + e \in 1 .. k /\ n + (m + e) = (n + m) + e
  OBVIOUS
<1>3. u[n + (m + e)] = t[m + e]
  BY <1>2 DEF Within
<1> QED
  BY <1>1, <1>2, <1>3

LEMMA Lists ==
  /\ List(ReadTorrent, 7) /\ List(UseTorrent, 4) /\ List(BeforeUrl, 2) /\ List(BuildUrl, 8)
  /\ List(AfterUrl, 3) /\ List(UseResponse, 8) /\ List(OpenOutput, 2)
<1>1. ReadTorrent = [k \in 1 .. 7 |-> ReadTorrent[k]]
  BY DEF ReadTorrent
<1>2. UseTorrent = [k \in 1 .. 4 |-> UseTorrent[k]]
  BY DEF UseTorrent
<1>3. BeforeUrl = [k \in 1 .. 2 |-> BeforeUrl[k]]
  BY DEF BeforeUrl
<1>4. BuildUrl = [k \in 1 .. 8 |-> BuildUrl[k]]
  BY DEF BuildUrl
<1>5. AfterUrl = [k \in 1 .. 3 |-> AfterUrl[k]]
  BY DEF AfterUrl
<1>6. UseResponse = [k \in 1 .. 8 |-> UseResponse[k]]
  BY DEF UseResponse
<1>7. OpenOutput = [k \in 1 .. 2 |-> OpenOutput[k]]
  BY DEF OpenOutput
<1>8. /\ \A k \in 1 .. 7 : ReadTorrent[k] \in EveryStep
      /\ \A k \in 1 .. 4 : UseTorrent[k] \in EveryStep
      /\ \A k \in 1 .. 2 : BeforeUrl[k] \in EveryStep
      /\ \A k \in 1 .. 8 : BuildUrl[k] \in EveryStep
      /\ \A k \in 1 .. 3 : AfterUrl[k] \in EveryStep
      /\ \A k \in 1 .. 8 : UseResponse[k] \in EveryStep
      /\ \A k \in 1 .. 2 : OpenOutput[k] \in EveryStep
  BY DEF EveryStep, Elements
<1> QED
  BY <1>1, <1>2, <1>3, <1>4, <1>5, <1>6, <1>7, <1>8, IsList

LEMMA Order ==
  /\ Len(Steps) = 34
  /\ Within(ReadTorrent, 7, Steps, 0) /\ Within(UseTorrent, 4, Steps, 7)
  /\ Within(BeforeUrl, 2, Steps, 11) /\ Within(BuildUrl, 8, Steps, 13)
  /\ Within(AfterUrl, 3, Steps, 21) /\ Within(UseResponse, 8, Steps, 24)
  /\ Within(OpenOutput, 2, Steps, 32)
<1> DEFINE url == BeforeUrl \o BuildUrl
           torrent == ReadTorrent \o UseTorrent
           announced == torrent \o Announce
           used == announced \o UseResponse
<1>a. /\ Joins(url, BeforeUrl, BuildUrl) /\ Joins(Announce, url, AfterUrl)
      /\ Joins(torrent, ReadTorrent, UseTorrent) /\ Joins(announced, torrent, Announce)
      /\ Joins(used, announced, UseResponse) /\ Joins(Steps, used, OpenOutput)
  BY DEF Joins, Announce, BeforeUrl, AfterUrl, Steps
<1> HIDE DEF url, torrent, announced, used
<1>1. List(url, 10) /\ Within(BeforeUrl, 2, url, 0) /\ Within(BuildUrl, 8, url, 2)
  BY <1>a, Lists, Joined
<1>2. List(torrent, 11) /\ Within(ReadTorrent, 7, torrent, 0) /\ Within(UseTorrent, 4, torrent, 7)
  BY <1>a, Lists, Joined, SMTT(40)
<1>3. List(Announce, 13) /\ Within(url, 10, Announce, 0) /\ Within(AfterUrl, 3, Announce, 10)
  <2>1. Joins(Announce, url, AfterUrl) /\ List(url, 10) /\ List(AfterUrl, 3)
    BY <1>a, <1>1, Lists
  <2> QED
    BY <2>1, Joined
<1>4. List(announced, 24) /\ Within(torrent, 11, announced, 0) /\ Within(Announce, 13, announced, 11)
  BY <1>a, <1>2, <1>3, Joined
<1>5. List(used, 32) /\ Within(announced, 24, used, 0) /\ Within(UseResponse, 8, used, 24)
  BY <1>a, <1>4, Lists, Joined, SMTT(40)
<1>6. List(Steps, 34) /\ Within(used, 32, Steps, 0) /\ Within(OpenOutput, 2, Steps, 32)
  <2>1. Joins(Steps, used, OpenOutput) /\ List(used, 32) /\ List(OpenOutput, 2)
    BY <1>a, <1>5, Lists
  <2> QED
    BY <2>1, Joined
<1>7. Within(announced, 24, Steps, 0) /\ Within(UseResponse, 8, Steps, 24)
  BY <1>5, <1>6, Deeper
<1>8. Within(torrent, 11, Steps, 0) /\ Within(Announce, 13, Steps, 11)
  BY <1>4, <1>7, Deeper
<1>9. Within(ReadTorrent, 7, Steps, 0) /\ Within(UseTorrent, 4, Steps, 7)
  <2>1. Within(ReadTorrent, 7, torrent, 0) /\ Within(UseTorrent, 4, torrent, 7)
    BY <1>2
  <2>2. Within(torrent, 11, Steps, 0)
    BY <1>8
  <2> QED
    BY <2>1, <2>2, Deeper
<1>10. Within(url, 10, Steps, 11) /\ Within(AfterUrl, 3, Steps, 21)
  BY <1>3, <1>8, Deeper
<1>11. Within(BeforeUrl, 2, Steps, 11) /\ Within(BuildUrl, 8, Steps, 13)
  BY <1>1, <1>10, Deeper
<1> QED
  BY <1>6, <1>7, <1>9, <1>10, <1>11 DEF List

LEMMA Shifted ==
  ASSUME NEW s, NEW m \in Nat, NEW u, NEW n \in Nat, Within(s, m, u, n), NEW k \in n + 1 .. n + m
  PROVE  u[k] = s[k - n]
<1>1. k - n \in 1 .. m /\ n + (k - n) = k
  OBVIOUS
<1> QED
  BY <1>1 DEF Within

-----------------------------------------------------------------------------
(* Each step against the next one.                                         *)

\* Three lists that name nothing twice.
Apart(a, b, c) == a \cap b = {} /\ a \cap c = {} /\ b \cap c = {}

\* What a step works on is what its failure frees, the body's bytes are looked
\* for before the tree that borrows them is made, and no two of the functions
\* that fail with the step free the same.
WellFormed(s) ==
  /\ s.gets \subseteq Resources
  /\ s.borrows \subseteq s.frees
  /\ "response" \notin s.gets \cup s.releases
  /\ "response" \in s.borrows => "response_obj" \in s.frees
  /\ "response_obj" \in s.gets => "response" \in s.finds
  /\ s.call = "curl_easy_perform" => "response" \in s.frees
  /\ Apart(s.lists[1], s.lists[2], s.lists[3])

\* What the next failure frees is what this one frees, with what the step
\* got and without what it released.
HandsOver(s, frees) ==
  /\ ((s.frees \cup s.gets) \ s.releases) \cup {"response"} = frees \cup {"response"}
  /\ "response" \in s.frees => "response" \in frees

Fits(s, frees) == WellFormed(s) /\ HandsOver(s, frees)

LEMMA ReadTorrentFits ==
  /\ Fits(ReadTorrent[1], ReadTorrent[2].frees)
  /\ Fits(ReadTorrent[2], ReadTorrent[3].frees)
  /\ Fits(ReadTorrent[3], ReadTorrent[4].frees)
  /\ Fits(ReadTorrent[4], ReadTorrent[5].frees)
  /\ Fits(ReadTorrent[5], ReadTorrent[6].frees)
  /\ Fits(ReadTorrent[6], ReadTorrent[7].frees)
  /\ Fits(ReadTorrent[7], UseTorrent[1].frees)
<1> USE DEF Fits, WellFormed, Apart, HandsOver, Step, Torrent, Tracker, Transfer, Escaping,
            Escaped, ByMain, ByReader, ByAnnounce, ByBuildUrl, WithPeers, NothingGiven,
            ReleasedOnceParsed, CleanupAtEnd, Resources
<1>1. Fits(ReadTorrent[1], ReadTorrent[2].frees)
  BY DEF ReadTorrent
<1>2. Fits(ReadTorrent[2], ReadTorrent[3].frees)
  BY DEF ReadTorrent
<1>3. Fits(ReadTorrent[3], ReadTorrent[4].frees)
  BY DEF ReadTorrent
<1>4. Fits(ReadTorrent[4], ReadTorrent[5].frees)
  BY DEF ReadTorrent
<1>5. Fits(ReadTorrent[5], ReadTorrent[6].frees)
  BY DEF ReadTorrent
<1>6. Fits(ReadTorrent[6], ReadTorrent[7].frees)
  BY DEF ReadTorrent
<1>7. Fits(ReadTorrent[7], UseTorrent[1].frees)
  BY DEF ReadTorrent, UseTorrent
<1> QED
  BY <1>1, <1>2, <1>3, <1>4, <1>5, <1>6, <1>7

LEMMA UseTorrentFits ==
  /\ Fits(UseTorrent[1], UseTorrent[2].frees)
  /\ Fits(UseTorrent[2], UseTorrent[3].frees)
  /\ Fits(UseTorrent[3], UseTorrent[4].frees)
  /\ Fits(UseTorrent[4], BeforeUrl[1].frees)
<1> USE DEF Fits, WellFormed, Apart, HandsOver, Step, Torrent, Tracker, Transfer, Escaping,
            Escaped, ByMain, ByReader, ByAnnounce, ByBuildUrl, WithPeers, NothingGiven,
            ReleasedOnceParsed, CleanupAtEnd, Resources
<1>1. Fits(UseTorrent[1], UseTorrent[2].frees)
  BY DEF UseTorrent
<1>2. Fits(UseTorrent[2], UseTorrent[3].frees)
  BY DEF UseTorrent
<1>3. Fits(UseTorrent[3], UseTorrent[4].frees)
  BY DEF UseTorrent
<1>4. Fits(UseTorrent[4], BeforeUrl[1].frees)
  BY DEF UseTorrent, BeforeUrl
<1> QED
  BY <1>1, <1>2, <1>3, <1>4

LEMMA BeforeUrlFits ==
  /\ Fits(BeforeUrl[1], BeforeUrl[2].frees)
  /\ Fits(BeforeUrl[2], BuildUrl[1].frees)
<1> USE DEF Fits, WellFormed, Apart, HandsOver, Step, Torrent, Tracker, Transfer, Escaping,
            Escaped, ByMain, ByReader, ByAnnounce, ByBuildUrl, WithPeers, NothingGiven,
            ReleasedOnceParsed, CleanupAtEnd, Resources
<1>1. Fits(BeforeUrl[1], BeforeUrl[2].frees)
  BY DEF BeforeUrl
<1>2. Fits(BeforeUrl[2], BuildUrl[1].frees)
  BY DEF BeforeUrl, BuildUrl
<1> QED
  BY <1>1, <1>2

LEMMA BuildUrlFits ==
  /\ Fits(BuildUrl[1], BuildUrl[2].frees)
  /\ Fits(BuildUrl[2], BuildUrl[3].frees)
  /\ Fits(BuildUrl[3], BuildUrl[4].frees)
  /\ Fits(BuildUrl[4], BuildUrl[5].frees)
  /\ Fits(BuildUrl[5], BuildUrl[6].frees)
  /\ Fits(BuildUrl[6], BuildUrl[7].frees)
  /\ Fits(BuildUrl[7], BuildUrl[8].frees)
  /\ Fits(BuildUrl[8], AfterUrl[1].frees)
<1> USE DEF Fits, WellFormed, Apart, HandsOver, Step, Torrent, Tracker, Transfer, Escaping,
            Escaped, ByMain, ByReader, ByAnnounce, ByBuildUrl, WithPeers, NothingGiven,
            ReleasedOnceParsed, CleanupAtEnd, Resources
<1>1. Fits(BuildUrl[1], BuildUrl[2].frees)
  BY DEF BuildUrl
<1>2. Fits(BuildUrl[2], BuildUrl[3].frees)
  BY DEF BuildUrl
<1>3. Fits(BuildUrl[3], BuildUrl[4].frees)
  BY DEF BuildUrl
<1>4. Fits(BuildUrl[4], BuildUrl[5].frees)
  BY DEF BuildUrl
<1>5. Fits(BuildUrl[5], BuildUrl[6].frees)
  BY DEF BuildUrl
<1>6. Fits(BuildUrl[6], BuildUrl[7].frees)
  BY DEF BuildUrl
<1>7. Fits(BuildUrl[7], BuildUrl[8].frees)
  BY DEF BuildUrl
<1>8. Fits(BuildUrl[8], AfterUrl[1].frees)
  BY DEF BuildUrl, AfterUrl
<1> QED
  BY <1>1, <1>2, <1>3, <1>4, <1>5, <1>6, <1>7, <1>8

LEMMA AfterUrlFits ==
  /\ Fits(AfterUrl[1], AfterUrl[2].frees)
  /\ Fits(AfterUrl[2], AfterUrl[3].frees)
  /\ Fits(AfterUrl[3], UseResponse[1].frees)
<1> USE DEF Fits, WellFormed, Apart, HandsOver, Step, Torrent, Tracker, Transfer, Escaping,
            Escaped, ByMain, ByReader, ByAnnounce, ByBuildUrl, WithPeers, NothingGiven,
            ReleasedOnceParsed, CleanupAtEnd, Resources
<1>1. Fits(AfterUrl[1], AfterUrl[2].frees)
  BY DEF AfterUrl
<1>2. Fits(AfterUrl[2], AfterUrl[3].frees)
  BY DEF AfterUrl
<1>3. Fits(AfterUrl[3], UseResponse[1].frees)
  BY DEF AfterUrl, UseResponse
<1> QED
  BY <1>1, <1>2, <1>3

LEMMA UseResponseFits ==
  /\ Fits(UseResponse[1], UseResponse[2].frees)
  /\ Fits(UseResponse[2], UseResponse[3].frees)
  /\ Fits(UseResponse[3], UseResponse[4].frees)
  /\ Fits(UseResponse[4], UseResponse[5].frees)
  /\ Fits(UseResponse[5], UseResponse[6].frees)
  /\ Fits(UseResponse[6], UseResponse[7].frees)
  /\ Fits(UseResponse[7], UseResponse[8].frees)
  /\ Fits(UseResponse[8], OpenOutput[1].frees)
<1> USE DEF Fits, WellFormed, Apart, HandsOver, Step, Torrent, Tracker, Transfer, Escaping,
            Escaped, ByMain, ByReader, ByAnnounce, ByBuildUrl, WithPeers, NothingGiven,
            ReleasedOnceParsed, CleanupAtEnd, Resources
<1>1. Fits(UseResponse[1], UseResponse[2].frees)
  BY DEF UseResponse
<1>2. Fits(UseResponse[2], UseResponse[3].frees)
  BY DEF UseResponse
<1>3. Fits(UseResponse[3], UseResponse[4].frees)
  BY DEF UseResponse
<1>4. Fits(UseResponse[4], UseResponse[5].frees)
  BY DEF UseResponse
<1>5. Fits(UseResponse[5], UseResponse[6].frees)
  BY DEF UseResponse
<1>6. Fits(UseResponse[6], UseResponse[7].frees)
  BY DEF UseResponse
<1>7. Fits(UseResponse[7], UseResponse[8].frees)
  BY DEF UseResponse
<1>8. Fits(UseResponse[8], OpenOutput[1].frees)
  BY DEF UseResponse, OpenOutput
<1> QED
  BY <1>1, <1>2, <1>3, <1>4, <1>5, <1>6, <1>7, <1>8

LEMMA OpenOutputFits ==
  /\ Fits(OpenOutput[1], OpenOutput[2].frees)
  /\ Fits(OpenOutput[2], CleanupAtEnd)
<1> USE DEF Fits, WellFormed, Apart, HandsOver, Step, Torrent, Tracker, Transfer, Escaping,
            Escaped, ByMain, ByReader, ByAnnounce, ByBuildUrl, WithPeers, NothingGiven,
            ReleasedOnceParsed, CleanupAtEnd, Resources
<1>1. Fits(OpenOutput[1], OpenOutput[2].frees)
  BY DEF OpenOutput
<1>2. Fits(OpenOutput[2], CleanupAtEnd)
  BY DEF OpenOutput
<1> QED
  BY <1>1, <1>2

FreesNext(k) == IF k < 34 THEN Steps[k + 1].frees ELSE CleanupAtEnd

\* s stands in Steps behind the first n steps, and next stands behind s.
LEMMA PartFits ==
  ASSUME NEW s, NEW m \in Nat \ {0}, NEW n \in Nat, NEW last \in 1 .. 34, last = n + m,
         Within(s, m, Steps, n),
         \A k \in 1 .. m : k < m => Fits(s[k], s[k + 1].frees),
         Fits(s[m], FreesNext(last))
  PROVE  \A k \in n + 1 .. last : Fits(Steps[k], FreesNext(k))
<1> SUFFICES ASSUME NEW k \in n + 1 .. last PROVE Fits(Steps[k], FreesNext(k))
  OBVIOUS
<1>1. Steps[k] = s[k - n]
  BY Shifted
<1>2. CASE k = last
  BY <1>1, <1>2
<1>3. CASE k < last
  <2>1. Steps[k + 1] = s[(k + 1) - n]
    BY <1>3, Shifted
  <2>2. k - n \in 1 .. m /\ k - n < m /\ (k + 1) - n = (k - n) + 1 /\ k < 34
    BY <1>3
  <2> QED
    BY <1>1, <2>1, <2>2 DEF FreesNext
<1> QED
  BY <1>2, <1>3

LEMMA StepFits == \A k \in 1 .. 34 : Fits(Steps[k], FreesNext(k))
<1>1. \A k \in 1 .. 7 : Fits(Steps[k], FreesNext(k))
  <2>1. \A k \in 1 .. 7 : k < 7 => Fits(ReadTorrent[k], ReadTorrent[k + 1].frees)
    BY ReadTorrentFits
  <2>2. Steps[8] = UseTorrent[1]
    BY Order, Shifted
  <2>3. Fits(ReadTorrent[7], FreesNext(7))
    BY <2>2, ReadTorrentFits DEF FreesNext
  <2>4. Within(ReadTorrent, 7, Steps, 0)
    BY Order
  <2> QED
    BY <2>1, <2>3, <2>4, PartFits
<1>2. \A k \in 8 .. 11 : Fits(Steps[k], FreesNext(k))
  <2>1. \A k \in 1 .. 4 : k < 4 => Fits(UseTorrent[k], UseTorrent[k + 1].frees)
    BY UseTorrentFits
  <2>2. Steps[12] = BeforeUrl[1]
    BY Order, Shifted
  <2>3. Fits(UseTorrent[4], FreesNext(11))
    BY <2>2, UseTorrentFits DEF FreesNext
  <2>4. Within(UseTorrent, 4, Steps, 7)
    BY Order
  <2> QED
    BY <2>1, <2>3, <2>4, PartFits
<1>3. \A k \in 12 .. 13 : Fits(Steps[k], FreesNext(k))
  <2>1. \A k \in 1 .. 2 : k < 2 => Fits(BeforeUrl[k], BeforeUrl[k + 1].frees)
    BY BeforeUrlFits
  <2>2. Steps[14] = BuildUrl[1]
    BY Order, Shifted
  <2>3. Fits(BeforeUrl[2], FreesNext(13))
    BY <2>2, BeforeUrlFits DEF FreesNext
  <2>4. Within(BeforeUrl, 2, Steps, 11)
    BY Order
  <2> QED
    BY <2>1, <2>3, <2>4, PartFits
<1>4. \A k \in 14 .. 21 : Fits(Steps[k], FreesNext(k))
  <2>1. \A k \in 1 .. 8 : k < 8 => Fits(BuildUrl[k], BuildUrl[k + 1].frees)
    BY BuildUrlFits
  <2>2. Steps[22] = AfterUrl[1]
    BY Order, Shifted
  <2>3. Fits(BuildUrl[8], FreesNext(21))
    BY <2>2, BuildUrlFits DEF FreesNext
  <2>4. Within(BuildUrl, 8, Steps, 13)
    BY Order
  <2> QED
    BY <2>1, <2>3, <2>4, PartFits
<1>5. \A k \in 22 .. 24 : Fits(Steps[k], FreesNext(k))
  <2>1. \A k \in 1 .. 3 : k < 3 => Fits(AfterUrl[k], AfterUrl[k + 1].frees)
    BY AfterUrlFits
  <2>2. Steps[25] = UseResponse[1]
    BY Order, Shifted
  <2>3. Fits(AfterUrl[3], FreesNext(24))
    BY <2>2, AfterUrlFits DEF FreesNext
  <2>4. Within(AfterUrl, 3, Steps, 21)
    BY Order
  <2> QED
    BY <2>1, <2>3, <2>4, PartFits
<1>6. \A k \in 25 .. 32 : Fits(Steps[k], FreesNext(k))
  <2>1. \A k \in 1 .. 8 : k < 8 => Fits(UseResponse[k], UseResponse[k + 1].frees)
    BY UseResponseFits
  <2>2. Steps[33] = OpenOutput[1]
    BY Order, Shifted
  <2>3. Fits(UseResponse[8], FreesNext(32))
    BY <2>2, UseResponseFits DEF FreesNext
  <2>4. Within(UseResponse, 8, Steps, 24)
    BY Order
  <2> QED
    BY <2>1, <2>3, <2>4, PartFits
<1>7. \A k \in 33 .. 34 : Fits(Steps[k], FreesNext(k))
  <2>1. \A k \in 1 .. 2 : k < 2 => Fits(OpenOutput[k], OpenOutput[k + 1].frees)
    BY OpenOutputFits
  <2>2. Fits(OpenOutput[2], FreesNext(34))
    BY OpenOutputFits DEF FreesNext
  <2>3. Within(OpenOutput, 2, Steps, 32)
    BY Order
  <2> QED
    BY <2>1, <2>2, <2>3, PartFits
<1> QED
  BY <1>1, <1>2, <1>3, <1>4, <1>5, <1>6, <1>7

-----------------------------------------------------------------------------
(* The invariant.                                                          *)

LEMMA StartupInit == Init => StartupInv
<1> SUFFICES ASSUME Init PROVE StartupInv
  OBVIOUS
<1>1. This.frees = {}
  <2>1. Steps[1] = ReadTorrent[1]
    BY Order, Shifted
  <2> QED
    BY <2>1 DEF Init, This, ReadTorrent, Step, ByMain
<1> QED
  BY <1>1, Order
  DEF Init, StartupInv, TypeOK, Running, HeldIsFreed, ResponseHeld, NothingLeaks, Resources

LEMMA StepSucceeds == StartupInv /\ Succeed => StartupInv'
<1> SUFFICES ASSUME StartupInv, Succeed PROVE StartupInv'
  OBVIOUS
<1>1. Running /\ step \in 1 .. 34
  BY Order DEF StartupInv, TypeOK, Succeed
<1>2. /\ WellFormed(This) /\ HandsOver(This, FreesNext(step))
  BY <1>1, StepFits DEF This, Fits
<1>3. /\ HeldIsFreed /\ ResponseHeld /\ held \subseteq Resources /\ acquired \subseteq Resources
      /\ response_length \in 0 .. SizeMax
  BY <1>1 DEF StartupInv, TypeOK
<1>4. /\ This.finds \subseteq held
      /\ held' = (held \cup This.gets) \ This.releases
      /\ acquired' = acquired \cup This.gets
      /\ step' = step + 1
      /\ status' = IF step = 34 THEN "downloading" ELSE "running"
      /\ response_length' = response_length
  BY Order DEF Succeed
<1>5. TypeOK'
  BY <1>1, <1>2, <1>3, <1>4, Order DEF TypeOK, WellFormed
<1>6. held' \cup {"response"} = FreesNext(step) \cup {"response"}
  BY <1>2, <1>3, <1>4 DEF HandsOver, HeldIsFreed, WellFormed
<1>7. /\ "response" \in held' => "response" \in FreesNext(step)
      /\ "response" \in acquired' => "response" \in held'
      /\ "response_obj" \in held' => "response" \in held'
  BY <1>2, <1>3, <1>4 DEF HandsOver, ResponseHeld, WellFormed
<1>8. CASE step = 34
  <2>1. status' = "downloading" /\ FreesNext(step) = CleanupAtEnd
    BY <1>4, <1>8 DEF FreesNext
  <2>2. "response_obj" \in held'
    BY <1>6, <2>1 DEF CleanupAtEnd, Tracker
  <2>3. held' = CleanupAtEnd
    BY <1>6, <1>7, <2>1, <2>2
  <2> QED
    BY <1>5, <2>1, <2>3 DEF StartupInv, Running, NothingLeaks
<1>9. CASE step # 34
  <2>1. status' = "running" /\ step' \in 1 .. 34 /\ FreesNext(step) = This'.frees
    BY <1>1, <1>4, <1>9 DEF FreesNext, This
  <2> QED
    BY <1>5, <1>6, <1>7, <2>1, Order
    DEF StartupInv, Running, NothingLeaks, HeldIsFreed, ResponseHeld
<1> QED
  BY <1>8, <1>9

LEMMA StepFails == StartupInv /\ Fail => StartupInv'
<1> SUFFICES ASSUME StartupInv, Fail PROVE StartupInv'
  OBVIOUS
<1>1. HeldIsFreed /\ ResponseHeld
  BY DEF StartupInv, Fail
<1>2. held' = held \ This.frees /\ status' = "failed"
  BY DEF Fail, Freed
<1>3. held' = {}
  BY <1>1, <1>2 DEF HeldIsFreed, ResponseHeld
<1> QED
  BY <1>2, <1>3 DEF StartupInv, TypeOK, Fail, Running, NothingLeaks

LEMMA ChunkAppended ==
  ASSUME StartupInv, NEW size \in 0 .. MaxChunk, WriteChunk(size)
  PROVE  response_length' = response_length + size /\ response_length' \in 0 .. SizeMax
<1>1. response_length \in Nat /\ size \in Nat /\ SizeMax \in Nat
  BY DEF StartupInv, TypeOK
<1>2. response_length + size <= SizeMax
  BY <1>1 DEF WriteChunk, ChunkFits
<1>3. (response_length + size) % (SizeMax + 1) = response_length + size
  BY <1>1, <1>2
<1> QED
  BY <1>1, <1>2, <1>3 DEF WriteChunk

LEMMA ChunkKeeps ==
  ASSUME StartupInv, NEW size \in 0 .. MaxChunk, WriteChunk(size)
  PROVE  StartupInv'
<1>1. Running /\ step \in 1 .. 34
  BY Order DEF StartupInv, TypeOK, WriteChunk
<1>2. WellFormed(This) /\ This.call = "curl_easy_perform"
  BY <1>1, StepFits DEF This, Fits, WriteChunk
<1>3. /\ held' = held \cup {"response"} /\ acquired' = acquired \cup {"response"}
      /\ This' = This /\ step' = step /\ status' = status
  BY DEF WriteChunk, This
<1>4. response_length' \in 0 .. SizeMax
  BY ChunkAppended
<1>5. TypeOK'
  BY <1>3, <1>4 DEF StartupInv, TypeOK, Resources
<1>6. HeldIsFreed /\ ResponseHeld /\ step <= Len(Steps)
  BY <1>1 DEF StartupInv
<1>7. HeldIsFreed' /\ ResponseHeld'
  BY <1>2, <1>3, <1>6 DEF HeldIsFreed, ResponseHeld, WellFormed
<1> QED
  BY <1>1, <1>3, <1>5, <1>6, <1>7 DEF StartupInv, Running, NothingLeaks

LEMMA DownloadEnds == StartupInv /\ EndDownload => StartupInv'
BY DEF StartupInv, EndDownload, TypeOK, Running, NothingLeaks

LEMMA StartupNext == StartupInv /\ [Next]_vars => StartupInv'
<1> SUFFICES ASSUME StartupInv, [Next]_vars PROVE StartupInv'
  OBVIOUS
<1>1. CASE Succeed
  BY <1>1, StepSucceeds
<1>2. CASE Fail
  BY <1>2, StepFails
<1>3. ASSUME NEW size \in 0 .. MaxChunk, WriteChunk(size) PROVE StartupInv'
  BY <1>3, ChunkKeeps
<1>4. CASE EndDownload
  BY <1>4, DownloadEnds
<1>5. CASE UNCHANGED vars
  BY <1>5
  DEF vars, StartupInv, TypeOK, Running, HeldIsFreed, ResponseHeld, NothingLeaks, This
<1> QED
  BY <1>1, <1>2, <1>3, <1>4, <1>5 DEF Next

-----------------------------------------------------------------------------
(* The theorems.                                                           *)

(***************************************************************************)
(* Before every step of main, what is held is what that step's failure     *)
(* frees, but for the response, which a server may not send (main.c:40-280 *)
(* and tracker.c:315-383).                                                 *)
(***************************************************************************)
THEOREM StartupInvariant == Spec => []StartupInv
BY StartupInit, StartupNext, PTL DEF Spec

(***************************************************************************)
(* By whichever exit main returns, it has freed all it got                 *)
(* (main.c:40-280 and 586-593).                                            *)
(***************************************************************************)
THEOREM StartupNothingLeaks == Spec => []NothingLeaks
<1>1. StartupInv => NothingLeaks
  BY DEF StartupInv
<1> QED
  BY <1>1, StartupInvariant, PTL

(***************************************************************************)
(* No list of what to free names something freed before, by an earlier     *)
(* step or by a function that failed with the same one (main.c:40-280,     *)
(* 586-593, file_reader.c:56-93 and tracker.c:333-381).                    *)
(***************************************************************************)
THEOREM StartupFreedOnce == Spec => []FreedOnce
<1>1. StartupInv => FreedOnce
  <2> SUFFICES ASSUME StartupInv PROVE FreedOnce
    OBVIOUS
  <2>1. status = "downloading" => CleanupAtEnd \subseteq held
    BY DEF StartupInv
  <2>2. ASSUME Running PROVE This.frees \cap (acquired \ held) = {}
    BY <2>2 DEF StartupInv, HeldIsFreed, ResponseHeld
  <2>3. ASSUME Running, NEW m \in 1 .. 3, NEW n \in 1 .. 3, m # n
        PROVE  This.lists[m] \cap This.lists[n] = {}
    <3>1. step \in 1 .. 34
      BY <2>3, Order DEF StartupInv, TypeOK
    <3>2. WellFormed(This)
      BY <3>1, StepFits DEF This, Fits
    <3> QED
      BY <2>3, <3>2 DEF WellFormed, Apart
  <2> QED
    BY <2>1, <2>2, <2>3 DEF FreedOnce
<1> QED
  BY <1>1, StartupInvariant, PTL

(***************************************************************************)
(* Whatever a step works on is alive: the bytes under a bencode tree are   *)
(* not freed before the last use of the tree (main.c:94-204).              *)
(***************************************************************************)
THEOREM StartupBorrowedAlive == Spec => []BorrowedAlive
<1>1. StartupInv => BorrowedAlive
  <2> SUFFICES ASSUME StartupInv, Running PROVE This.borrows \subseteq held
    BY DEF BorrowedAlive
  <2>1. HeldIsFreed /\ ResponseHeld /\ step \in 1 .. 34
    BY Order DEF StartupInv, TypeOK
  <2>2. WellFormed(This)
    BY <2>1, StepFits DEF This, Fits
  <2> QED
    BY <2>1, <2>2 DEF HeldIsFreed, ResponseHeld, WellFormed
<1> QED
  BY <1>1, StartupInvariant, PTL

(***************************************************************************)
(* The length of the tracker's answer never wraps round, whatever chunks   *)
(* libcurl delivers (tracker.c:395-411).                                   *)
(***************************************************************************)
THEOREM StartupResponseGrows == Spec => ResponseGrows
<1>1. StartupInv /\ [Next]_vars => [response_length' >= response_length]_vars
  <2> SUFFICES ASSUME StartupInv, [Next]_vars
               PROVE  response_length' >= response_length
    OBVIOUS
  <2>1. response_length \in Nat
    BY DEF StartupInv, TypeOK
  <2>2. ASSUME NEW size \in 0 .. MaxChunk, WriteChunk(size)
        PROVE  response_length' >= response_length
    BY <2>1, <2>2, ChunkAppended
  <2>3. CASE UNCHANGED response_length
    BY <2>1, <2>3
  <2> QED
    BY <2>2, <2>3 DEF Next, Succeed, Fail, EndDownload, vars
<1> QED
  BY <1>1, StartupInvariant, PTL DEF Spec, ResponseGrows
=============================================================================
