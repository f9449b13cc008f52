------------------------------- MODULE DualCore -------------------------------
(***************************************************************************)
(* Two cores that render one strip: spikes/s4-dual-core/src/main.rs.  The  *)
(* main core publishes a frame in WORK, renders the front half and waits   *)
(* for DONE; the app core renders the back half into APP_OUT.              *)
(*                                                                         *)
(* The memory is release/acquire.  A location keeps every value stored in  *)
(* it, a core has a view of how much of each location it must have seen,   *)
(* and a load returns any value not older than that: a release store       *)
(* publishes the storing core's view, and an acquire load that reads it    *)
(* takes the view on.  APP_OUT is not atomic, so two accesses to it, one   *)
(* of them a write, must be ordered by the views; the counts of its writes *)
(* and reads are locations that only views refer to.                       *)
(*                                                                         *)
(* A renderer keeps the history of each LED from frame to frame.  What it  *)
(* kept from before a program's first frame shows in that frame, which is  *)
(* the least an effect that reads its history can leave behind.            *)
(***************************************************************************)
EXTENDS Integers, Sequences

CONSTANTS
    PROGRAMS,   \* how many effects are compared
    FRAMES,     \* frames of each
    PASSES,     \* bound: how often the table is measured
    None        \* no history

ASSUME DualCoreAssumption ==
    /\ PROGRAMS \in Nat \ {0}
    /\ FRAMES \in Nat \ {0, 1}
    /\ PASSES \in Nat \ {0}

VARIABLES
    mem,            \* mem[loc]: what has been stored, oldest first
    view,           \* view[core][loc]: how much of it the core must have seen
    \* the main core
    main_pc, pass, program, frame, front, back,
    verdict,        \* the last comparison: did both render the same?
    \* the app core
    app_pc, last, which, t_q16,
    app_out,        \* APP_OUT
    app_history     \* what its renderer last drew

shared == <<mem, view>>
mainVars == <<main_pc, pass, program, frame, front, back, verdict>>
appVars == <<app_pc, last, which, t_q16, app_out, app_history>>
vars == <<shared, mainVars, appVars>>

Atomics == {"PROGRAM", "T_Q16", "WORK", "DONE"}
Locations == Atomics \cup {"written", "copied"}
Cores == {"main", "app"}

Nowhere == [loc \in Locations |-> 0]
Larger(x, y) == IF x < y THEN y ELSE x
Joined(v, w) == [loc \in Locations |-> Larger(v[loc], w[loc])]

\* A pixel of program p at frame f, by a renderer that last drew h.
Drawn(p, f, h) == [program |-> p, time |-> f, trail |-> IF f = 0 THEN h ELSE None]
Black == [program |-> None, time |-> 0, trail |-> None]

\* What one core renders: measure_single() has a renderer of its own each time.
Single(p, f) == Drawn(p, f, None)

Init ==
    /\ mem = [loc \in Locations |-> <<[value |-> 0, sees |-> Nowhere]>>]
    /\ view = [core \in Cores |-> [loc \in Locations |-> 1]]
    /\ main_pc = "program" /\ pass = 0 /\ program = 0 /\ frame = 0
    /\ front = Black /\ back = Black
    /\ verdict = TRUE
    /\ app_pc = "poll" /\ last = 0 /\ which = 0 /\ t_q16 = 0
    /\ app_out = Black /\ app_history = None

------------------------------------------------------------------------------
\* A store: of the value alone, or with all that the core has seen.
StoreWith(core, loc, value, seen) ==
    LET newest == Len(mem[loc]) + 1
    IN  /\ mem' = [mem EXCEPT ![loc] = Append(@, [value |-> value, sees |-> seen])]
        /\ view' = [view EXCEPT ![core][loc] = newest]

Relaxed(core, loc, value) == StoreWith(core, loc, value, Nowhere)
Release(core, loc, value) ==
    StoreWith(core, loc, value, [view[core] EXCEPT ![loc] = Len(mem[loc]) + 1])

\* The values a load may return, and what the core has seen after it.
Readable(core, loc) == view[core][loc] .. Len(mem[loc])
Loaded(core, loc, i) ==
    /\ view' = [view EXCEPT ![core][loc] = i]
    /\ UNCHANGED mem
Acquired(core, loc, i) ==
    /\ view' = [view EXCEPT ![core] = Joined([@ EXCEPT ![loc] = i], mem[loc][i].sees)]
    /\ UNCHANGED mem

\* The access to APP_OUT that a core makes, told by a count of such accesses.
Access(core, count) == Relaxed(core, count, 0)

------------------------------------------------------------------------------
(***************************************************************************)
(* The main core: measure_split() for one program after another.           *)
(***************************************************************************)

\* A mutant of the token: the frame itself, of which the first is no change, and
\* answered before it is asked.
TokenFromZero(f) == f
Token(f) == f + 1

SetProgram ==
    /\ main_pc = "program"
    /\ Relaxed("main", "PROGRAM", program)
    /\ main_pc' = "time"
    /\ UNCHANGED <<pass, program, frame, front, back, verdict, appVars>>

SetTime ==
    /\ main_pc = "time"
    /\ Relaxed("main", "T_Q16", frame)
    /\ main_pc' = "work"
    /\ UNCHANGED <<pass, program, frame, front, back, verdict, appVars>>

\* A mutant of publishing: nothing is released with the frame.
PublishRelaxed ==
    /\ main_pc = "work"
    /\ Relaxed("main", "WORK", Token(frame))
    /\ main_pc' = "render"
    /\ UNCHANGED <<pass, program, frame, front, back, verdict, appVars>>

Publish ==
    /\ main_pc = "work"
    /\ Release("main", "WORK", Token(frame))
    /\ main_pc' = "render"
    /\ UNCHANGED <<pass, program, frame, front, back, verdict, appVars>>

RenderFront ==
    /\ main_pc = "render"
    /\ front' = Drawn(program, frame, None)
    /\ main_pc' = "join"
    /\ UNCHANGED <<shared, pass, program, frame, back, verdict, appVars>>

\* A mutant of the join: what the app core released is not acquired.
JoinRelaxed ==
    /\ main_pc = "join"
    /\ \E i \in Readable("main", "DONE") :
           /\ Loaded("main", "DONE", i)
           /\ main_pc' = IF mem["DONE"][i].value = Token(frame) THEN "copy" ELSE "join"
    /\ UNCHANGED <<pass, program, frame, front, back, verdict, appVars>>

\* One turn of the wait for the app core.
Join ==
    /\ main_pc = "join"
    /\ \E i \in Readable("main", "DONE") :
           /\ Acquired("main", "DONE", i)
           /\ main_pc' = IF mem["DONE"][i].value = Token(frame) THEN "copy" ELSE "join"
    /\ UNCHANGED <<pass, program, frame, front, back, verdict, appVars>>

\* The app core's half is copied in after the join.
Copy ==
    /\ main_pc = "copy"
    /\ Access("main", "copied")
    /\ back' = app_out
    /\ IF frame + 1 < FRAMES
       THEN frame' = frame + 1 /\ main_pc' = "time"
       ELSE frame' = frame /\ main_pc' = "compare"
    /\ UNCHANGED <<pass, program, front, verdict, appVars>>

\* main(): the two outputs are compared as they are after the last frame, and
\* the table goes on with the next program and then from the start.
Compare ==
    /\ main_pc = "compare"
    /\ verdict' = (front = Single(program, frame) /\ back = Single(program, frame))
    /\ frame' = 0
    /\ front' = Black /\ back' = Black
    /\ program' = (program + 1) % PROGRAMS
    /\ pass' = IF program' = 0 THEN pass + 1 ELSE pass
    /\ main_pc' = IF pass' = PASSES THEN "finished" ELSE "program"
    /\ UNCHANGED <<shared, appVars>>

Main == SetProgram \/ SetTime \/ Publish \/ RenderFront \/ Join \/ Copy \/ Compare

------------------------------------------------------------------------------
(***************************************************************************)
(* The app core: app_core().                                               *)
(***************************************************************************)

\* A mutant of the wait for a frame: tokens are taken to grow.
PollGrowing ==
    /\ app_pc = "poll"
    /\ \E i \in Readable("app", "WORK") :
           /\ Acquired("app", "WORK", i)
           /\ last' = Larger(mem["WORK"][i].value, last)
           /\ app_pc' = IF last' = last THEN "poll" ELSE "program"
    /\ UNCHANGED <<mainVars, which, t_q16, app_out, app_history>>

\* One turn of the wait for a frame: any token but the last one is one.
Poll ==
    /\ app_pc = "poll"
    /\ \E i \in Readable("app", "WORK") :
           /\ Acquired("app", "WORK", i)
           /\ last' = mem["WORK"][i].value
           /\ app_pc' = IF last' = last THEN "poll" ELSE "program"
    /\ UNCHANGED <<mainVars, which, t_q16, app_out, app_history>>

ReadProgram ==
    /\ app_pc = "program"
    /\ \E i \in Readable("app", "PROGRAM") :
           Loaded("app", "PROGRAM", i) /\ which' = mem["PROGRAM"][i].value
    /\ app_pc' = "time"
    /\ UNCHANGED <<mainVars, last, t_q16, app_out, app_history>>

ReadTime ==
    /\ app_pc = "time"
    /\ \E i \in Readable("app", "T_Q16") :
           Loaded("app", "T_Q16", i) /\ t_q16' = mem["T_Q16"][i].value
    /\ app_pc' = "fill"
    /\ UNCHANGED <<mainVars, last, which, app_out, app_history>>

Fill ==
    /\ app_pc = "fill"
    /\ Access("app", "written")
    /\ app_out' = Black
    /\ app_pc' = "render"
    /\ UNCHANGED <<mainVars, last, which, t_q16, app_history>>

\* Its renderer lives as long as the core does.
RenderBack ==
    /\ app_pc = "render"
    /\ Access("app", "written")
    /\ app_out' = Drawn(which, t_q16, app_history)
    /\ app_history' = which
    /\ app_pc' = "done"
    /\ UNCHANGED <<mainVars, last, which, t_q16>>

Done ==
    /\ app_pc = "done"
    /\ Release("app", "DONE", last)
    /\ app_pc' = "poll"
    /\ UNCHANGED <<mainVars, last, which, t_q16, app_out, app_history>>

App == Poll \/ ReadProgram \/ ReadTime \/ Fill \/ RenderBack \/ Done

Next == Main \/ App

------------------------------------------------------------------------------
\* Both cores run, and a store is seen in the end: a core that goes on loading
\* does not go on returning an old value.
SeesWork == Poll /\ view'["app"]["WORK"] = Len(mem["WORK"])
SeesDone == Join /\ view'["main"]["DONE"] = Len(mem["DONE"])

Fairness ==
    /\ WF_vars(SetProgram) /\ WF_vars(SetTime) /\ WF_vars(Publish) /\ WF_vars(RenderFront)
    /\ WF_vars(SeesDone) /\ WF_vars(Copy) /\ WF_vars(Compare)
    /\ WF_vars(SeesWork) /\ WF_vars(ReadProgram) /\ WF_vars(ReadTime)
    /\ WF_vars(Fill) /\ WF_vars(RenderBack) /\ WF_vars(Done)

Spec == Init /\ [][Next]_vars /\ Fairness

------------------------------------------------------------------------------
\* "Two atomics and no lock": every read of APP_OUT is ordered after every write
\* so far, and every write after every read so far, by what the atomics release
\* and acquire - not by luck.
NoDataRace ==
    /\ main_pc = "copy" => view["main"]["written"] = Len(mem["written"])
    /\ app_pc \in {"fill", "render"} => view["app"]["copied"] = Len(mem["copied"])

\* The app core renders the very program and time that were published with the
\* token it took: relaxed as they are, it reads neither the frame before nor the
\* one after.
RendersWhatWasPublished ==
    app_pc \in {"fill", "render", "done"} =>
        which = program /\ t_q16 = frame /\ last = Token(frame)

\* A frame is of one piece: once copied, both halves show the same moment of the
\* same program.
OneFrame ==
    main_pc \in {"time", "compare"} => front.program = back.program /\ front.time = back.time

\* The cores never end up waiting for each other: every program of every pass is
\* measured, although the tokens start again with each of them.
EveryPassEnds == <>(main_pc = "finished")
==============================================================================
