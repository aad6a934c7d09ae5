------------------------------- MODULE Guidance -------------------------------
(***************************************************************************)
(* mcpeval guidance (src/src/guidance.rs, main.rs:226-257): a session of   *)
(* its own for each client profile, whose instructions are compared with   *)
(* the catalog it lists, page by page.  The server answers as it likes and *)
(* may register tools at any time; the evaluation's budget, shared by the  *)
(* sessions, may refuse any request.                                       *)
(***************************************************************************)
EXTENDS Naturals, Sequences

CONSTANTS
    Profiles,       \* the selected client profiles
    ToolNames,      \* names that may be listed
    RequiredTools,  \* --require-tool
    Pages,          \* answers to tools/list: [tools, next], tools a sequence
    MaxToolPages    \* MAX_TOOL_PAGES, 20

ASSUME GuidanceAssumption ==
    Profiles \in Nat \ {0} /\ \A page \in Pages : page.tools \in Seq(ToolNames)

VARIABLES
    stage,          \* of run and of the inspection it is at
    at,             \* the profile it is at
    mentioned,      \* per profile: tools its instructions name in backticks
    listed,         \* per profile: tools its session listed
    cursors,        \* that this session was given
    guide,          \* the report
    status,         \* of the process
    served          \* auxiliary: per profile, the pages its session answered
guidanceVars == <<stage, at, mentioned, listed, cursors, guide, status, served>>

Positions == 1 .. Profiles  \* the profiles are a sorted set
NoCursor == "none"
BadCursor == "bad"

GuidanceInit ==
    /\ stage = "connect" /\ at = 1 /\ cursors = {}
    /\ mentioned = [p \in Positions |-> {}] /\ listed = [p \in Positions |-> {}]
    /\ guide = [complete |-> TRUE, passed |-> {TRUE}, defects |-> {}, candidates |-> {}]
    /\ status = "none"
    /\ served = [p \in Positions |-> <<>>]

\* The profile has been inspected; the next one gets a session of its own.
NextProfile ==
    /\ stage' = IF at = Profiles THEN "judge" ELSE "connect"
    /\ at' = at + 1
    /\ cursors' = {}
    /\ UNCHANGED <<mentioned, status>>

Abandon ==
    /\ guide' = [guide EXCEPT !.complete = FALSE, !.passed = {}]
    /\ NextProfile
    /\ UNCHANGED listed

\* No connection, a request that fails or that the budget refuses, or an
\* answer that inspect does not take.
InspectionFails ==
    /\ stage \in {"connect", "initialize", "settle", "list"}
    /\ Abandon
    /\ UNCHANGED served
-----------------------------------------------------------------------------
ConnectProfile ==
    /\ stage = "connect"
    /\ stage' = "initialize"
    /\ UNCHANGED <<at, mentioned, listed, cursors, guide, status, served>>

\* initialize is answered, with this protocol version and maybe instructions.
Initialize ==
    /\ stage = "initialize"
    /\ \E named \in SUBSET ToolNames : mentioned' = [mentioned EXCEPT ![at] = named]
    /\ stage' = "settle"
    /\ UNCHANGED <<at, listed, cursors, guide, status, served>>

\* A server without the capability has no tools; any other is given time to
\* register them.
NoToolsCapability ==
    /\ stage = "settle"
    /\ served' = [served EXCEPT ![at] = <<[tools |-> <<>>, next |-> NoCursor]>>]
    /\ NextProfile
    /\ UNCHANGED <<listed, guide>>
Settle ==
    /\ stage = "settle"
    /\ stage' = "list"
    /\ UNCHANGED <<at, mentioned, listed, cursors, guide, status, served>>

\* No tool is listed twice, in one page or in two.
Distinct(page) ==
    /\ \A i, j \in DOMAIN page.tools : page.tools[i] = page.tools[j] => i = j
    /\ \A i \in DOMAIN page.tools : page.tools[i] \notin listed[at]

\* (Mutant of IsLast.) The last page that may be asked for is the last.
IsLastAllowed(page) == page.next = NoCursor \/ Len(served[at]) + 1 = MaxToolPages
IsLast(page) == page.next = NoCursor
\* A new cursor, and a page left to ask for.
IsContinued(page) ==
    /\ page.next \notin cursors \cup {BadCursor}
    /\ Len(served[at]) + 1 < MaxToolPages

\* A page of tools/list.
ListPage ==
    /\ stage = "list"
    /\ \E page \in Pages :
        LET all == [listed EXCEPT ![at] = @ \cup {page.tools[i] : i \in DOMAIN page.tools}]
        IN  /\ served' = [served EXCEPT ![at] = Append(@, page)]
            /\ \/ /\ Distinct(page) /\ IsLast(page)
                  /\ listed' = all
                  /\ NextProfile /\ UNCHANGED guide
               \/ /\ Distinct(page) /\ ~IsLast(page) /\ IsContinued(page)
                  /\ listed' = all /\ cursors' = cursors \cup {page.next}
                  /\ UNCHANGED <<stage, at, mentioned, guide, status>>
               \/ /\ ~(Distinct(page) /\ (IsLast(page) \/ IsContinued(page)))
                  /\ Abandon
-----------------------------------------------------------------------------
\* Only tools that some profile listed can be references of instructions.
Known == UNION {listed[p] : p \in Positions}
Findings(wanted) ==
    UNION {{[profile |-> p, tool |-> t, in |-> {q \in Positions : t \in listed[q]}] :
              t \in wanted[p] \ listed[p]} : p \in Positions}

\* Without a complete discovery there is nothing to judge by.
JudgeGuidance ==
    /\ stage = "judge"
    /\ LET missing == Findings([p \in Positions |-> RequiredTools])
           named == Findings([p \in Positions |-> mentioned[p] \cap Known])
       IN guide' = IF ~guide.complete THEN guide
                   ELSE [guide EXCEPT !.defects = missing,
                                      !.candidates = named,
                                      !.passed = {missing = {}}]
    /\ stage' = "report"
    /\ UNCHANGED <<at, mentioned, listed, cursors, status, served>>

ReportGuidance ==
    /\ stage = "report"
    /\ status' = IF ~guide.complete THEN "infrastructure"
                 ELSE IF guide.passed = {FALSE} THEN "verdict" ELSE "success"
    /\ stage' = "done"
    /\ UNCHANGED <<at, mentioned, listed, cursors, guide, served>>

GuidanceNext ==
    \/ ConnectProfile \/ Initialize \/ NoToolsCapability \/ Settle \/ ListPage
    \/ InspectionFails \/ JudgeGuidance \/ ReportGuidance
GuidanceSpec == GuidanceInit /\ [][GuidanceNext]_guidanceVars
-----------------------------------------------------------------------------
\* What the session of profile p was seen to offer.
Offered(p) == UNION {{page.tools[i] : i \in DOMAIN page.tools} :
                       page \in {served[p][k] : k \in DOMAIN served[p]}}
\* Its catalog was read to the end; that of a server without tools is.
WholeCatalog(p) == served[p] # <<>> /\ served[p][Len(served[p])].next = NoCursor

\* "Incomplete discovery is not evidence that a tool is unavailable"
\* (docs/mcp-eval/source/pages/guides/instruction-coherence.md:67): the
\* process fails for a missing tool, passes, or asks for a review of a
\* reference, only on catalogs that every session served to their end.
GuidanceOnWholeCatalogs ==
    /\ status \in {"success", "verdict"} => \A p \in Positions : WholeCatalog(p)
    /\ status = "success" => \A p \in Positions : RequiredTools \subseteq Offered(p)
    /\ status = "verdict" => \E p \in Positions : ~(RequiredTools \subseteq Offered(p))
    /\ \A c \in guide.candidates :
          /\ c.tool \notin Offered(c.profile) /\ c.in # {}
          /\ \A q \in c.in : c.tool \in Offered(q)
=============================================================================
