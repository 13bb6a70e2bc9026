------------------------------ MODULE SccsSid ------------------------------
(***************************************************************************)
(* SIDs and the delta table of an SCCS file: which delta `get -e' finds    *)
(* for the SID a user asks for (getser) and which SID it gives to the      *)
(* delta that user will make (newsid).                                     *)
(*                                                                         *)
(* An SID is <<release, level, branch, sequence>>, its missing parts 0.    *)
(* The delta table is a sequence indexed by serial number; an entry that   *)
(* rmdel has removed (type 'R') keeps its serial number and loses its SID. *)
(***************************************************************************)
EXTENDS Naturals, Sequences, FiniteSets, FiniteSetsExt

SID == Nat \X Nat \X Nat \X Nat

Rel(sid) == sid[1]
Lev(sid) == sid[2]
Br(sid)  == sid[3]
Seqn(sid) == sid[4]

NoSid == <<0, 0, 0, 0>>

\* The serial numbers of the deltas that rmdel has not removed.
Serials(table) == {n \in DOMAIN table : table[n].type = "D"}

Sids(table) == {table[n].sid : n \in Serials(table)}

\* sidtoser: the serial number of an SID, 0 when no delta has it.
sidtoser(sid, table) ==
  LET found == {n \in Serials(table) : table[n].sid = sid}
  IN  IF found = {} THEN 0 ELSE Max(found)

\* p_maxr: the highest release of the file.
maxr(table) == Max({0} \cup {Rel(sid) : sid \in Sids(table)})

(***************************************************************************)
(* getser: the serial number that the requested SID stands for, 0 for      *)
(* "nonexistent sid".  No SID at all means the top of the trunk; a release *)
(* means the top of the trunk of that release, or of the highest release   *)
(* below it; a branch means its last delta, or the oldest delta of the     *)
(* same release and level when the branch is empty.                        *)
(***************************************************************************)
getser(req, table) ==
  LET Trunk  == {n \in Serials(table) :
                   /\ Br(table[n].sid) = 0
                   /\ Rel(req) = 0 \/ Rel(table[n].sid) <= Rel(req)}
      Newest == {n \in Trunk : \A m \in Trunk :
                   Rel(table[m].sid) <= Rel(table[n].sid)}
      Level  == {n \in Serials(table) :
                   Rel(table[n].sid) = Rel(req) /\ Lev(table[n].sid) = Lev(req)}
      Branch == {n \in Level : Br(table[n].sid) = Br(req)}
  IN  CASE Lev(req) = 0 -> Max({0} \cup Newest)
        [] Lev(req) # 0 /\ Br(req) # 0 /\ Seqn(req) = 0 ->
             IF Branch # {} THEN Max(Branch)
             ELSE IF Level # {} THEN Min(Level) ELSE 0
        [] OTHER -> sidtoser(req, table)

\* The requested SID as getser leaves it: the gotten one when the user named
\* nothing, or a release that the file already has.
Requested(req, got) ==
  IF Lev(req) = 0 /\ Rel(req) \in {0, Rel(got)} THEN got ELSE req

(***************************************************************************)
(* newsid: the SID of the new delta.  The next level of the trunk, or the  *)
(* next of the branch, unless that one is there already, is promised to    *)
(* another edit, or a branch was asked for: then the first free branch.    *)
(* `planned' are the new SIDs of the p-file that in_pfile sees.            *)
(***************************************************************************)
newsid(req, got, branch, table, planned) ==
  LET taken == Sids(table) \cup planned
      FirstFree(sid) ==
        LET k == Min({i \in Br(sid) .. Br(sid) + Cardinality(taken) :
                           <<Rel(sid), Lev(sid), i, 1>> \notin taken})
        IN  <<Rel(sid), Lev(sid), k, 1>>
      trunk == <<Rel(req), Lev(req) + 1, 0, 0>>
      along == <<Rel(req), Lev(req), Br(req), Seqn(req) + 1>>
  IN  CASE Br(req) = 0 ->
             IF trunk \in taken \/ maxr(table) > Rel(req) \/ branch
             THEN FirstFree(<<Rel(got), Lev(got), Br(got) + 1, 1>>)
             ELSE trunk
        [] Br(req) # 0 /\ Seqn(req) = 0 /\ ~branch ->
             <<Rel(req), Lev(req), Br(req), Seqn(got) + 1>>
        [] OTHER ->
             IF branch \/ along \in taken
             THEN FirstFree(<<Rel(req), Lev(req), Br(req) + 1, 1>>)
             ELSE along
============================================================================
