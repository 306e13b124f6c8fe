---------------------------- MODULE LinkPipeline ----------------------------
(***************************************************************************)
(* phyLinkTrans and ochLinkTrans as the operator runs them, one after the  *)
(* other and each as often as it takes.  phyLinkTrans writes the list      *)
(* files that ochLinkTrans reads: for every fibre link of type os-link it  *)
(* appends the id of the optical channel link it carries.  Both are the    *)
(* loop of DocTransfer, each on a collection of its own.                   *)
(***************************************************************************)
EXTENDS DocTransfer

CONSTANTS
  OchDocs, OchKeys, OchKeyOf, OchDbOf, OchMentions,   \* the collection of optical channel links
  OchOf,       \* OchOf[k]: the channel that the os-link k carries, NoOch for other links
  NoOch

VARIABLES
  ochList,     \* the list file of each leg
  ochSrc, ochGd, ochPc, ochWork, ochI, ochNew, ochPending, ochReported, ochAttempts, ochReinserts

phyVars == vars
ochVars == <<ochSrc, ochGd, ochPc, ochWork, ochI, ochNew, ochPending, ochReported, ochAttempts,
             ochReinserts>>
pipelineVars == <<vars, ochVars, ochList>>

\* ochLinkTrans.  Its lists are not given: it is started with the list files.
och == INSTANCE DocTransfer WITH
         Docs <- OchDocs, Keys <- OchKeys, KeyOf <- OchKeyOf, DbOf <- OchDbOf,
         Mentions <- OchMentions, Script <- ochLinkProcess, Lists <- {},
         src <- ochSrc, gd <- ochGd, pc <- ochPc, list <- ochWork, i <- ochI, new <- ochNew,
         pending <- ochPending, reported <- ochReported, attempts <- ochAttempts,
         reinserts <- ochReinserts

ASSUME PipelineAssumption ==
  /\ Script = phyLinkProcess
  /\ OchOf \in [Keys -> OchKeys \cup {NoOch}]
  /\ NoOch \notin OchKeys
  /\ OchKeyOf \in [OchDocs -> OchKeys] /\ OchDbOf \in [OchDocs -> {"30", "35"}]

PipelineInit ==
  /\ Init /\ och!Init
  /\ ochList = [leg \in Legs |-> <<>>]

\* Mutant: the file is written anew, not appended to.
WriteOchAnew(item) ==
  ochList' = IF OchOf[item.key] = NoOch THEN ochList
             ELSE [ochList EXCEPT ![item.leg] = <<OchOf[item.key]>>]

\* The id is appended whenever the link is visited, before it is looked up.
AppendOch(item) ==
  ochList' = IF OchOf[item.key] = NoOch THEN ochList
             ELSE [ochList EXCEPT ![item.leg] = Append(@, OchOf[item.key])]

phyStep ==
  /\ ochPc \in Ended
  /\ (\E l \in Lists : Start(l)) \/ Step \/ Crash
  /\ IF pc = "query" /\ i <= Len(list)
       THEN AppendOch(list[i]) \/ (pc' = "crashed" /\ ochList' = ochList)
       ELSE ochList' = ochList
  /\ UNCHANGED ochVars

\* The list files, leg by leg.
OchItems ==
  LET Of(leg) == [n \in DOMAIN ochList[leg] |-> [leg |-> leg, key |-> ochList[leg][n]]]
  IN  Of("BH_S1") \o Of("TD_S1") \o Of("BH_S2") \o Of("TD_S2")

ochStep ==
  /\ pc \in Ended
  /\ och!Start(OchItems) \/ och!Step \/ och!Crash
  /\ UNCHANGED <<phyVars, ochList>>

PipelineSpec == PipelineInit /\ [][phyStep \/ ochStep]_pipelineVars

\* A started ochLinkTrans runs until it ends: it waits for nothing but the
\* databases.  phyLinkTrans asks a controller for the links of each tunnel,
\* with no timeout, so it gets no fairness; nor does the operator.
PipelineFairSpec ==
  PipelineSpec /\ WF_pipelineVars(ochStep /\ och!Step)

-----------------------------------------------------------------------------
(* Properties *)

\* Whenever ochLinkTrans ends well, the optical channels of all the fibre
\* links that have left South have left it too, whatever crashes and re-runs
\* came before: a link is listed before it can be moved, and being listed
\* twice does no harm.
ChannelsFollowLinks ==
  [][ochPc # "done" /\ ochPc' = "done" =>
       \A d \in Docs \ src : \A e \in OchDocs :
         OchKeyOf[e] = OchOf[KeyOf[d]] /\ OchDbOf[e] = DbOf[d] => e \notin ochSrc]_pipelineVars

\* Every started run of ochLinkTrans ends, however often its list files name a
\* channel whose document is gone: each path through the loop, the `continue'
\* for a null document included, gets to the next line of the file.
OchRunEnds == ochPc \in Running ~> ochPc \in Ended
=============================================================================
