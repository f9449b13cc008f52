---------------------------- MODULE DualCoreProofs ----------------------------
(***************************************************************************)
(* What the two cores guarantee for every number of programs, frames and   *)
(* passes, whatever value the memory lets each load return.                *)
(***************************************************************************)
EXTENDS DualCore, TLAPS

(***************************************************************************)
(* The inductive invariant.  Of the memory: what a core has seen, and what *)
(* a store passes on, exists; a store passes on no later store to its own  *)
(* location; and a core has seen whatever it has stored itself.            *)
(***************************************************************************)
Newest(loc) == Len(mem[loc])
Said(loc) == mem[loc][Newest(loc)].value
Shown(loc) == mem[loc][Newest(loc)].sees

Stores == [value : Nat, sees : [Locations -> Nat]]
MemTyped ==
    /\ mem \in [Locations -> Seq(Stores)]
    /\ view \in [Cores -> [Locations -> Nat]]
    /\ \A loc \in Locations : Newest(loc) > 0
ViewsExist ==
    /\ \A core \in Cores, loc \in Locations : view[core][loc] \in 1 .. Newest(loc)
    /\ \A loc \in Locations : \A i \in 1 .. Newest(loc) :
           /\ \A other \in Locations : mem[loc][i].sees[other] <= Newest(other)
           /\ mem[loc][i].sees[loc] <= i
OwnStores ==
    /\ \A loc \in {"PROGRAM", "T_Q16", "WORK", "copied"} : view["main"][loc] = Newest(loc)
    /\ \A loc \in {"DONE", "written"} : view["app"][loc] = Newest(loc)
MemInv == MemTyped /\ ViewsExist /\ OwnStores

CoresTyped ==
    /\ main_pc \in {"program", "time", "work", "render", "join", "copy", "compare", "finished"}
    /\ app_pc \in {"poll", "program", "time", "fill", "render", "done"}
    /\ program \in Nat /\ frame \in 0 .. FRAMES - 1
    /\ last \in Nat /\ which \in Nat /\ t_q16 \in Nat

\* What the main core has to do with its frame, and what it has rendered of it.
ShowsFrame(half) == half.program = program /\ half.time = frame
FrameAtHand ==
    /\ main_pc = "program" => frame = 0 /\ front = Black /\ back = Black
    /\ main_pc = "compare" => frame = FRAMES - 1
    /\ main_pc \in {"time", "work", "render", "join", "copy"} => Said("PROGRAM") = program
    /\ main_pc \in {"work", "render", "join"} => Said("T_Q16") = frame
    /\ main_pc \in {"join", "copy"} => ShowsFrame(front)
    /\ OneFrame

\* The app core waits, and both cores have seen all that the other has done.
Idle ==
    /\ app_pc = "poll"
    /\ view["app"]["WORK"] = Newest("WORK") /\ Said("WORK") = last
    /\ view["main"]["DONE"] = Newest("DONE") /\ Said("DONE") = last
    /\ view["main"]["written"] = Newest("written")
    /\ main_pc \in {"program", "time", "work"} => last # Token(frame)
    /\ main_pc \in {"copy", "compare"} => last = Token(frame)
    /\ main_pc = "copy" => ShowsFrame(app_out)

\* A frame is published, with all that the app core needs to have seen.
Published ==
    /\ Said("WORK") = Token(frame)
    /\ \A loc \in {"PROGRAM", "T_Q16", "copied"} : Shown("WORK")[loc] = Newest(loc)

\* The app core has not seen the frame; it is at work on it; it has answered.
Waiting ==
    /\ app_pc = "poll"
    /\ view["app"]["WORK"] = Newest("WORK") - 1
    /\ mem["WORK"][Newest("WORK") - 1].value = last
    /\ view["main"]["DONE"] = Newest("DONE") /\ Said("DONE") = last
    /\ last # Token(frame)

Working ==
    /\ app_pc # "poll"
    /\ \A loc \in {"PROGRAM", "T_Q16", "WORK", "copied"} : view["app"][loc] = Newest(loc)
    /\ last = Token(frame)
    /\ view["main"]["DONE"] = Newest("DONE") /\ Said("DONE") # last
    /\ app_pc # "program" => which = program
    /\ app_pc \in {"fill", "render", "done"} => t_q16 = frame
    /\ app_pc = "done" => ShowsFrame(app_out)

Answered ==
    /\ app_pc = "poll"
    /\ view["app"]["WORK"] = Newest("WORK") /\ last = Token(frame)
    /\ view["main"]["DONE"] = Newest("DONE") - 1
    /\ mem["DONE"][Newest("DONE") - 1].value # last
    /\ Said("DONE") = last /\ Shown("DONE")["written"] = Newest("written")
    /\ ShowsFrame(app_out)

Handshake ==
    IF main_pc \in {"render", "join"}
    THEN Published /\ (Waiting \/ Working \/ Answered)
    ELSE Idle

DualCoreInv == MemInv /\ CoresTyped /\ FrameAtHand /\ Handshake

------------------------------------------------------------------------------
(***************************************************************************)
(* The memory.  A core stores where no other does, and loads only what it  *)
(* does not store.                                                         *)
(***************************************************************************)
Owns(core) ==
    IF core = "main" THEN {"PROGRAM", "T_Q16", "WORK", "copied"} ELSE {"DONE", "written"}

\* What the memory's types say of one location.
LEMMA MemFacts ==
    ASSUME MemInv
    PROVE  /\ \A loc \in Locations : mem[loc] \in Seq(Stores) /\ Newest(loc) \in Nat \ {0}
           /\ \A loc \in Locations : \A i \in 1 .. Newest(loc) : mem[loc][i] \in Stores
           /\ \A core \in Cores, loc \in Locations : view[core][loc] \in Nat
           /\ \A core \in Cores : Owns(core) \subseteq Locations
  <1>1. \A loc \in Locations : mem[loc] \in Seq(Stores)
    BY DEF MemInv, MemTyped
  <1>2. \A loc \in Locations : Newest(loc) \in Nat \ {0}
    <2> SUFFICES ASSUME NEW loc \in Locations PROVE Newest(loc) \in Nat \ {0}
      OBVIOUS
    <2>1. Len(mem[loc]) \in Nat
      BY <1>1
    <2>2. Newest(loc) > 0
      BY DEF MemInv, MemTyped
    <2> QED
      BY <2>1, <2>2 DEF Newest
  <1>3. \A loc \in Locations : \A i \in 1 .. Newest(loc) : mem[loc][i] \in Stores
    BY <1>1 DEF Newest
  <1>4. \A core \in Cores, loc \in Locations : view[core][loc] \in Nat
    BY DEF MemInv, MemTyped
  <1>5. \A core \in Cores : Owns(core) \subseteq Locations
    BY DEF Owns, Locations, Atomics
  <1> QED
    BY <1>1, <1>2, <1>3, <1>4, <1>5

\* A store adds one value to one location, which the storing core has seen.
LEMMA Stored ==
    ASSUME MemInv, NEW core \in Cores, NEW loc \in Owns(core), NEW value \in Nat,
           NEW seen \in [Locations -> Nat],
           \A other \in Locations :
               seen[other] <= IF other = loc THEN Newest(loc) + 1 ELSE Newest(other),
           StoreWith(core, loc, value, seen)
    PROVE  /\ MemInv'
           /\ Newest(loc)' = Newest(loc) + 1 /\ Said(loc)' = value /\ Shown(loc)' = seen
           /\ mem'[loc][Newest(loc)] = mem[loc][Newest(loc)]
           /\ \A other \in Locations \ {loc} :
                  /\ mem'[other] = mem[other] /\ Newest(other)' = Newest(other)
                  /\ Said(other)' = Said(other) /\ Shown(other)' = Shown(other)
           /\ \A c \in Cores, l \in Locations :
                  view'[c][l] = IF c = core /\ l = loc THEN Newest(loc) + 1 ELSE view[c][l]
  <1> DEFINE store == [value |-> value, sees |-> seen]
             old == mem[loc]
             n == Len(old)
  <1>1. loc \in Locations /\ old \in Seq(Stores) /\ n \in Nat \ {0} /\ store \in Stores
    <2>1. loc \in Locations
      BY MemFacts
    <2>2. old \in Seq(Stores) /\ n \in Nat \ {0}
      BY <2>1, MemFacts DEF Newest
    <2>3. store \in Stores
      BY DEF Stores
    <2> QED
      BY <2>1, <2>2, <2>3
  <1>2. /\ mem' = [mem EXCEPT ![loc] = Append(old, store)]
        /\ view' = [view EXCEPT ![core][loc] = n + 1]
    BY DEF StoreWith
  <1>3. /\ Append(old, store) \in Seq(Stores) /\ Len(Append(old, store)) = n + 1
        /\ Append(old, store)[n + 1] = store
        /\ \A i \in 1 .. n : Append(old, store)[i] = old[i]
    BY <1>1
  <1> HIDE DEF n, store, old
  <1>4. mem'[loc] = Append(old, store) /\ \A other \in Locations \ {loc} : mem'[other] = mem[other]
    BY <1>1, <1>2 DEF MemInv, MemTyped
  <1>5. \A c \in Cores, l \in Locations :
            view'[c][l] = IF c = core /\ l = loc THEN n + 1 ELSE view[c][l]
    BY <1>1, <1>2 DEF MemInv, MemTyped
  <1>6. /\ Newest(loc) = n /\ Newest(loc)' = n + 1
        /\ \A other \in Locations \ {loc} : Newest(other)' = Newest(other)
    BY <1>1, <1>3, <1>4 DEF Newest, old, n
  <1>7. MemTyped'
    <2>1. mem' \in [Locations -> Seq(Stores)]
      BY <1>1, <1>2, <1>3 DEF MemInv, MemTyped
    <2>2. view' \in [Cores -> [Locations -> Nat]]
      BY <1>1, <1>2 DEF MemInv, MemTyped
    <2>3. \A l \in Locations : Newest(l)' > 0
      <3> SUFFICES ASSUME NEW l \in Locations PROVE Newest(l)' > 0
        OBVIOUS
      <3>1. Newest(l) \in Nat \ {0} /\ Newest(l)' \in {Newest(l), Newest(l) + 1}
        BY <1>1, <1>6, MemFacts
      <3> QED
        BY <3>1
    <2> QED
      BY <2>1, <2>2, <2>3 DEF MemTyped
  <1>8. \A l \in Locations : Newest(l) \in Nat /\ Newest(l)' \in {Newest(l), Newest(l) + 1}
    BY <1>1, <1>6, MemFacts
  <1>9. ViewsExist'
    <2>1. ASSUME NEW c \in Cores, NEW l \in Locations PROVE view'[c][l] \in 1 .. Newest(l)'
      BY <1>1, <1>5, <1>6, <1>8 DEF MemInv, ViewsExist
    <2>2. ASSUME NEW l \in Locations, NEW i \in 1 .. Newest(l)'
          PROVE  /\ \A other \in Locations : mem'[l][i].sees[other] <= Newest(other)'
                 /\ mem'[l][i].sees[l] <= i
      <3>1. CASE l = loc /\ i = n + 1
        <4>1. mem'[l][i].sees = seen
          BY <3>1, <1>3, <1>4 DEF store
        <4>2. \A other \in Locations :
                  seen[other] <= IF other = loc THEN Newest(loc) + 1 ELSE Newest(other)
          OBVIOUS
        <4>3. \A other \in Locations : seen[other] <= Newest(other)'
          BY <4>2, <1>6
        <4>4. seen[l] <= i
          BY <4>2, <3>1, <1>6
        <4> QED
          BY <4>1, <4>3, <4>4
      <3>2. CASE ~(l = loc /\ i = n + 1)
        <4>1. i \in 1 .. Newest(l) /\ mem'[l][i] = mem[l][i]
          <5>1. CASE l = loc
            <6>1. i \in 1 .. n + 1 /\ i # n + 1
              BY <3>2, <5>1, <1>6
            <6>2. i \in 1 .. n /\ n \in Nat
              BY <1>1, <6>1
            <6> QED
              BY <5>1, <6>2, <1>3, <1>4, <1>6 DEF old
          <5>2. CASE l # loc
            BY <5>2, <1>4, <1>6
          <5> QED
            BY <5>1, <5>2
        <4>2. \A other \in Locations : mem[l][i].sees[other] \in Nat
          <5>1. mem[l][i] \in Stores
            BY <4>1, MemFacts
          <5>2. mem[l][i].sees \in [Locations -> Nat]
            BY <5>1 DEF Stores
          <5> QED
            BY <5>2
        <4>3. /\ \A other \in Locations : mem[l][i].sees[other] <= Newest(other)
              /\ mem[l][i].sees[l] <= i
          <5>1. ViewsExist
            BY DEF MemInv
          <5> QED
            BY <4>1, <5>1 DEF ViewsExist
        <4>4. \A other \in Locations : mem[l][i].sees[other] <= Newest(other)'
          BY <4>2, <4>3, <1>8
        <4> QED
          BY <4>1, <4>3, <4>4
      <3> QED
        BY <3>1, <3>2
    <2> QED
      BY <2>1, <2>2 DEF ViewsExist
  <1>10. OwnStores'
    BY <1>1, <1>5, <1>6 DEF MemInv, OwnStores, Owns, Cores, Locations, Atomics
  <1>11. Said(loc)' = value /\ Shown(loc)' = seen
    BY <1>1, <1>3, <1>4, <1>6 DEF Said, Shown, store
  <1>12. mem'[loc][Newest(loc)] = mem[loc][Newest(loc)]
    BY <1>1, <1>3, <1>4, <1>6 DEF old
  <1>13. \A other \in Locations \ {loc} :
             Said(other)' = Said(other) /\ Shown(other)' = Shown(other)
    BY <1>4, <1>6 DEF Said, Shown
  <1> QED
    BY <1>4, <1>5, <1>6, <1>7, <1>9, <1>10, <1>11, <1>12, <1>13 DEF MemInv

\* A relaxed store publishes nothing and a releasing one what its core has seen.
LEMMA WhatIsPublished ==
    ASSUME MemInv, NEW core \in Cores, NEW loc \in Owns(core)
    PROVE  /\ Nowhere \in [Locations -> Nat]
           /\ \A other \in Locations :
                  Nowhere[other] <= IF other = loc THEN Newest(loc) + 1 ELSE Newest(other)
           /\ [view[core] EXCEPT ![loc] = Len(mem[loc]) + 1] \in [Locations -> Nat]
           /\ \A other \in Locations :
                  [view[core] EXCEPT ![loc] = Len(mem[loc]) + 1][other]
                    <= IF other = loc THEN Newest(loc) + 1 ELSE Newest(other)
  <1>1. loc \in Locations /\ \A l \in Locations : Newest(l) \in Nat
    BY DEF MemInv, MemTyped, Owns, Locations, Atomics, Newest
  <1>2. view[core] \in [Locations -> Nat] /\ \A l \in Locations : view[core][l] <= Newest(l)
    BY <1>1 DEF MemInv, MemTyped, ViewsExist
  <1> QED
    BY <1>1, <1>2 DEF Nowhere, Newest

\* A load changes no memory, and the view of no other core.
LEMMA LoadedValue ==
    ASSUME MemInv, NEW core \in Cores, NEW loc \in Atomics \ Owns(core),
           NEW i \in Readable(core, loc), Loaded(core, loc, i)
    PROVE  /\ MemInv' /\ mem' = mem
           /\ i \in 1 .. Newest(loc)
           /\ \A c \in Cores, l \in Locations :
                  view'[c][l] = IF c = core /\ l = loc THEN i ELSE view[c][l]
  <1>1. loc \in Locations /\ Newest(loc) \in Nat /\ view[core][loc] \in 1 .. Newest(loc)
    BY DEF MemInv, MemTyped, ViewsExist, Locations, Newest
  <1>2. i \in 1 .. Newest(loc)
    BY <1>1 DEF Readable, Newest
  <1>3. mem' = mem /\ view' = [view EXCEPT ![core][loc] = i]
    BY DEF Loaded
  <1>4. \A c \in Cores, l \in Locations :
            view'[c][l] = IF c = core /\ l = loc THEN i ELSE view[c][l]
    BY <1>1, <1>3 DEF MemInv, MemTyped
  <1>5. MemTyped'
    BY <1>1, <1>2, <1>3 DEF MemInv, MemTyped, Newest
  <1>6. ViewsExist'
    BY <1>2, <1>3, <1>4 DEF MemInv, ViewsExist, Newest
  <1>7. OwnStores'
    BY <1>3, <1>4 DEF MemInv, OwnStores, Owns, Cores, Locations, Atomics, Newest
  <1> QED
    BY <1>2, <1>3, <1>4, <1>5, <1>6, <1>7 DEF MemInv

\* An acquiring one also brings the view up to what was released.
LEMMA AcquiredValue ==
    ASSUME MemInv, NEW core \in Cores, NEW loc \in Atomics \ Owns(core),
           NEW i \in Readable(core, loc), Acquired(core, loc, i)
    PROVE  /\ MemInv' /\ mem' = mem
           /\ i \in view[core][loc] .. Newest(loc)
           /\ view'[core][loc] = i
           /\ \A l \in Locations :
                  /\ view'[core][l] \in view[core][l] .. Newest(l)
                  /\ view'[core][l] >= mem[loc][i].sees[l]
           /\ \A c \in Cores \ {core} : view'[c] = view[c]
  <1> DEFINE sees == mem[loc][i].sees
             before == [view[core] EXCEPT ![loc] = i]
  <1>1. loc \in Locations /\ Newest(loc) \in Nat /\ view[core][loc] \in 1 .. Newest(loc)
    BY DEF MemInv, MemTyped, ViewsExist, Locations, Newest
  <1>2. i \in view[core][loc] .. Newest(loc) /\ i \in 1 .. Newest(loc)
    BY <1>1 DEF Readable, Newest
  <1>3. /\ sees \in [Locations -> Nat]
        /\ sees[loc] <= i
        /\ \A l \in Locations : sees[l] <= Newest(l)
    <2>1. mem[loc][i] \in Stores
      BY <1>1, <1>2, MemFacts
    <2>2. sees \in [Locations -> Nat]
      BY <2>1 DEF Stores
    <2> QED
      BY <1>1, <1>2, <2>2 DEF MemInv, ViewsExist
  <1>4. mem' = mem /\ view' = [view EXCEPT ![core] = Joined(before, sees)]
    BY DEF Acquired
  <1>5. /\ view[core] \in [Locations -> Nat] /\ before \in [Locations -> Nat]
        /\ \A l \in Locations : before[l] = IF l = loc THEN i ELSE view[core][l]
        /\ \A l \in Locations : view[core][l] \in 1 .. Newest(l) /\ Newest(l) \in Nat
    BY <1>1, <1>2 DEF MemInv, MemTyped, ViewsExist, Newest
  <1> HIDE DEF sees, before
  <1>6. Joined(before, sees) \in [Locations -> Nat]
    BY <1>3, <1>5 DEF Joined, Larger
  <1>7. /\ view'[core] = Joined(before, sees)
        /\ \A c \in Cores \ {core} : view'[c] = view[c]
    BY <1>4 DEF MemInv, MemTyped
  <1>8. \A l \in Locations :
            /\ view'[core][l] = Larger(before[l], sees[l])
            /\ view'[core][l] \in view[core][l] .. Newest(l)
            /\ view'[core][l] >= sees[l]
    BY <1>2, <1>3, <1>5, <1>7 DEF Joined, Larger
  <1>9. view'[core][loc] = i
    BY <1>1, <1>2, <1>3, <1>5, <1>8 DEF Larger
  <1>10. MemTyped'
    BY <1>4, <1>6 DEF MemInv, MemTyped, Newest
  <1>11. ViewsExist'
    BY <1>4, <1>5, <1>7, <1>8 DEF MemInv, ViewsExist, Newest
  <1>12. OwnStores'
    <2>1. \A l \in Owns(core) : view[core][l] = Newest(l) /\ l \in Locations
      BY DEF MemInv, OwnStores, Owns, Cores, Locations, Atomics
    <2>2. \A l \in Owns(core) : view'[core][l] = Newest(l)
      BY <2>1, <1>5, <1>8
    <2> QED
      BY <2>2, <1>4, <1>7 DEF MemInv, OwnStores, Owns, Cores, Locations, Atomics, Newest
  <1> QED
    BY <1>2, <1>4, <1>7, <1>8, <1>9, <1>10, <1>11, <1>12 DEF MemInv, sees

\* Where the memory is as it was, so is all that is said of its newest values.
LEMMA SameMemory ==
    ASSUME mem' = mem
    PROVE  \A loc \in Locations :
               Newest(loc)' = Newest(loc) /\ Said(loc)' = Said(loc) /\ Shown(loc)' = Shown(loc)
  BY DEF Newest, Said, Shown

------------------------------------------------------------------------------
(***************************************************************************)
(* Every step of the two cores keeps the invariant.                        *)
(***************************************************************************)
USE DualCoreAssumption

LEMMA SetProgramKeeps == ASSUME DualCoreInv, SetProgram PROVE DualCoreInv'
  <1>1. /\ MemInv' /\ Said("PROGRAM")' = program
        /\ \A l \in Locations \ {"PROGRAM"} :
               /\ Newest(l)' = Newest(l) /\ Said(l)' = Said(l)
               /\ \A c \in Cores : view'[c][l] = view[c][l]
    <2>1. "main" \in Cores /\ "PROGRAM" \in Owns("main") /\ program \in Nat /\ MemInv
      BY DEF Cores, Owns, DualCoreInv, CoresTyped
    <2>2. StoreWith("main", "PROGRAM", program, Nowhere)
      BY DEF SetProgram, Relaxed
    <2> QED
      BY <2>1, <2>2, WhatIsPublished, Stored
  <1>2. Idle /\ main_pc = "program" /\ main_pc' = "time"
    BY DEF DualCoreInv, Handshake, SetProgram
  <1>3. CoresTyped'
    BY <1>2 DEF DualCoreInv, CoresTyped, SetProgram, appVars
  <1>4. FrameAtHand'
    BY <1>1, <1>2 DEF DualCoreInv, FrameAtHand, OneFrame, SetProgram, appVars
  <1>5. Idle'
    BY <1>1, <1>2 DEF Idle, SetProgram, appVars, Cores, Locations, Atomics, Token
  <1> QED
    BY <1>1, <1>2, <1>3, <1>4, <1>5 DEF DualCoreInv, Handshake
LEMMA SetTimeKeeps == ASSUME DualCoreInv, SetTime PROVE DualCoreInv'
  <1>1. /\ MemInv' /\ Said("T_Q16")' = frame
        /\ \A l \in Locations \ {"T_Q16"} :
               /\ Newest(l)' = Newest(l) /\ Said(l)' = Said(l)
               /\ \A c \in Cores : view'[c][l] = view[c][l]
    <2>1. "main" \in Cores /\ "T_Q16" \in Owns("main") /\ frame \in Nat /\ MemInv
      BY DEF Cores, Owns, DualCoreInv, CoresTyped
    <2>2. StoreWith("main", "T_Q16", frame, Nowhere)
      BY DEF SetTime, Relaxed
    <2> QED
      BY <2>1, <2>2, WhatIsPublished, Stored
  <1>2. Idle /\ main_pc = "time" /\ main_pc' = "work"
    BY DEF DualCoreInv, Handshake, SetTime
  <1>3. CoresTyped'
    BY <1>2 DEF DualCoreInv, CoresTyped, SetTime, appVars
  <1>4. FrameAtHand'
    BY <1>1, <1>2 DEF DualCoreInv, FrameAtHand, OneFrame, SetTime, appVars, Locations, Atomics
  <1>5. Idle'
    BY <1>1, <1>2 DEF Idle, SetTime, appVars, Cores, Locations, Atomics, Token
  <1> QED
    BY <1>1, <1>2, <1>3, <1>4, <1>5 DEF DualCoreInv, Handshake

\* What the main core has stored for the frame goes with its token.
LEMMA PublishKeeps == ASSUME DualCoreInv, Publish PROVE DualCoreInv'
  <1> DEFINE seen == [view["main"] EXCEPT !["WORK"] = Len(mem["WORK"]) + 1]
  <1>1. "main" \in Cores /\ "WORK" \in Owns("main") /\ Token(frame) \in Nat /\ MemInv
    BY DEF Cores, Owns, DualCoreInv, CoresTyped, Token
  <1>2. /\ MemInv' /\ Newest("WORK")' = Newest("WORK") + 1
        /\ Said("WORK")' = Token(frame) /\ Shown("WORK")' = seen
        /\ mem'["WORK"][Newest("WORK")] = mem["WORK"][Newest("WORK")]
        /\ \A l \in Locations \ {"WORK"} :
               /\ Newest(l)' = Newest(l) /\ Said(l)' = Said(l)
        /\ \A c \in Cores, l \in Locations :
               view'[c][l] = IF c = "main" /\ l = "WORK" THEN Newest("WORK") + 1 ELSE view[c][l]
    <2>1. StoreWith("main", "WORK", Token(frame), seen)
      BY DEF Publish, Release
    <2> QED
      BY <1>1, <2>1, WhatIsPublished, Stored
  <1>3. Idle /\ main_pc = "work" /\ main_pc' = "render"
    BY DEF DualCoreInv, Handshake, Publish
  <1>4. CoresTyped'
    BY <1>3 DEF DualCoreInv, CoresTyped, Publish, appVars
  <1>5. FrameAtHand'
    BY <1>2, <1>3 DEF DualCoreInv, FrameAtHand, OneFrame, Publish, appVars, Locations, Atomics
  <1>6. Published'
    <2>1. view["main"] \in [Locations -> Nat]
      BY <1>1 DEF MemInv, MemTyped
    <2>2. \A l \in {"PROGRAM", "T_Q16", "copied"} :
              /\ l \in Locations \ {"WORK"} /\ seen[l] = view["main"][l]
              /\ view["main"][l] = Newest(l)
      BY <1>1, <2>1 DEF MemInv, OwnStores, Locations, Atomics
    <2>3. Token(frame)' = Token(frame)
      BY DEF Token, Publish
    <2> QED
      BY <1>2, <2>2, <2>3 DEF Published
  <1>7. Waiting'
    <2>1. Newest("WORK") \in Nat /\ Newest("WORK")' - 1 = Newest("WORK")
      BY <1>1, <1>2, MemFacts DEF Locations, Atomics
    <2>2. view'["app"]["WORK"] = Newest("WORK") /\ view'["main"]["DONE"] = Newest("DONE")
      BY <1>2, <1>3 DEF Idle, Cores, Locations, Atomics
    <2>3. Newest("DONE")' = Newest("DONE") /\ Said("DONE")' = last
      BY <1>2, <1>3 DEF Idle, Locations, Atomics
    <2>4. mem'["WORK"][Newest("WORK")].value = last
      BY <1>2, <1>3 DEF Idle, Said
    <2>5. app_pc' = "poll" /\ last' = last /\ last # Token(frame) /\ Token(frame)' = Token(frame)
      BY <1>3 DEF Idle, Publish, appVars, Token
    <2> QED
      BY <2>1, <2>2, <2>3, <2>4, <2>5 DEF Waiting
  <1> QED
    BY <1>2, <1>3, <1>4, <1>5, <1>6, <1>7 DEF DualCoreInv, Handshake

LEMMA RenderFrontKeeps == ASSUME DualCoreInv, RenderFront PROVE DualCoreInv'
  <1>1. mem' = mem /\ view' = view /\ UNCHANGED appVars
        /\ main_pc = "render" /\ main_pc' = "join" /\ program' = program /\ frame' = frame
    BY DEF RenderFront, shared
  <1>2. MemInv' /\ CoresTyped'
    BY <1>1 DEF DualCoreInv, MemInv, MemTyped, ViewsExist, OwnStores, Newest, CoresTyped, appVars
  <1>3. FrameAtHand'
    <2>1. ShowsFrame(front)'
      BY <1>1 DEF RenderFront, ShowsFrame, Drawn
    <2> QED
      BY <1>1, <2>1, SameMemory
         DEF DualCoreInv, FrameAtHand, OneFrame, Locations, Atomics
  <1>4. Published /\ (Waiting \/ Working \/ Answered)
    BY <1>1 DEF DualCoreInv, Handshake
  <1>5. Published'
    BY <1>1, <1>4 DEF Published, Said, Shown, Newest, Token
  <1>6. (Waiting \/ Working \/ Answered)'
    BY <1>1, <1>4
       DEF Waiting, Working, Answered, Said, Shown, Newest, Token, ShowsFrame, appVars
  <1> QED
    BY <1>1, <1>2, <1>3, <1>5, <1>6 DEF DualCoreInv, Handshake
\* The main core goes on only with the answer to this frame, and has then seen
\* all that the app core wrote.
LEMMA JoinKeeps == ASSUME DualCoreInv, Join PROVE DualCoreInv'
  <1>1. PICK i \in Readable("main", "DONE") :
            /\ Acquired("main", "DONE", i)
            /\ main_pc' = IF mem["DONE"][i].value = Token(frame) THEN "copy" ELSE "join"
    BY DEF Join
  <1>2. /\ MemInv' /\ mem' = mem
        /\ i \in view["main"]["DONE"] .. Newest("DONE")
        /\ view'["main"]["DONE"] = i
        /\ view'["main"]["written"] >= mem["DONE"][i].sees["written"]
        /\ view'["main"]["written"] \in view["main"]["written"] .. Newest("written")
        /\ view'["app"] = view["app"]
    BY <1>1, AcquiredValue DEF DualCoreInv, Owns, Cores, Locations, Atomics
  <1>3. /\ main_pc = "join" /\ main_pc' \in {"join", "copy"}
        /\ UNCHANGED <<program, frame, front, back, appVars>>
    BY <1>1 DEF Join
  <1>4. /\ Published /\ (Waiting \/ Working \/ Answered)
        /\ Newest("DONE") \in Nat \ {0} /\ view["main"]["DONE"] \in Nat
    BY <1>3, MemFacts DEF DualCoreInv, Handshake, Cores, Locations, Atomics
  <1>5. CoresTyped'
    BY <1>3 DEF DualCoreInv, CoresTyped, appVars
  <1>6. FrameAtHand'
    BY <1>2, <1>3, SameMemory
       DEF DualCoreInv, FrameAtHand, OneFrame, ShowsFrame, Locations, Atomics
  <1>7. \A l \in Locations : Newest(l)' = Newest(l) /\ Said(l)' = Said(l) /\ Shown(l)' = Shown(l)
    BY <1>2, SameMemory
  <1>8. Published'
    BY <1>3, <1>4, <1>7 DEF Published, Token, Locations, Atomics
  <1>9. CASE Waiting
    <2>1. i = Newest("DONE") /\ mem["DONE"][i].value # Token(frame)
      BY <1>2, <1>4, <1>9 DEF Waiting, Said
    <2>2. Waiting'
      BY <2>1, <1>2, <1>3, <1>7, <1>9 DEF Waiting, Token, appVars, Locations, Atomics
    <2> QED
      BY <2>1, <2>2, <1>1, <1>2, <1>5, <1>6, <1>8 DEF DualCoreInv, Handshake
  <1>10. CASE Working
    <2>1. i = Newest("DONE") /\ mem["DONE"][i].value # Token(frame)
      BY <1>2, <1>4, <1>10 DEF Working, Said
    <2>2. Working'
      BY <2>1, <1>2, <1>3, <1>7, <1>10
         DEF Working, Token, ShowsFrame, appVars, Locations, Atomics
    <2> QED
      BY <2>1, <2>2, <1>1, <1>2, <1>5, <1>6, <1>8 DEF DualCoreInv, Handshake
  <1>11. CASE Answered
    <2>1. CASE i = Newest("DONE")
      <3>1. main_pc' = "copy"
        BY <2>1, <1>1, <1>11 DEF Answered, Said
      <3>2. view'["main"]["written"] = Newest("written")
        <4>1. Newest("written") \in Nat /\ view["main"]["written"] \in Nat
          BY MemFacts DEF DualCoreInv, Cores, Locations
        <4>2. view'["main"]["written"] >= Newest("written")
          BY <2>1, <1>2, <1>11 DEF Answered, Shown
        <4> QED
          BY <4>1, <4>2, <1>2
      <3>3. Idle'
        BY <2>1, <3>1, <3>2, <1>2, <1>3, <1>7, <1>11, <1>4
           DEF Idle, Answered, Published, Token, ShowsFrame, appVars, Locations, Atomics
      <3> QED
        BY <3>1, <3>3, <1>2, <1>5, <1>6 DEF DualCoreInv, Handshake
    <2>2. CASE i # Newest("DONE")
      <3>1. i = Newest("DONE") - 1 /\ mem["DONE"][i].value # Token(frame)
        BY <2>2, <1>2, <1>4, <1>11 DEF Answered
      <3>2. Answered'
        BY <3>1, <1>2, <1>3, <1>7, <1>11
           DEF Answered, Token, ShowsFrame, appVars, Locations, Atomics
      <3> QED
        BY <3>1, <3>2, <1>1, <1>2, <1>5, <1>6, <1>8 DEF DualCoreInv, Handshake
    <2> QED
      BY <2>1, <2>2
  <1> QED
    BY <1>4, <1>9, <1>10, <1>11

LEMMA CopyKeeps == ASSUME DualCoreInv, Copy PROVE DualCoreInv'
  <1>1. /\ MemInv'
        /\ \A l \in Locations \ {"copied"} :
               /\ Newest(l)' = Newest(l) /\ Said(l)' = Said(l)
               /\ \A c \in Cores : view'[c][l] = view[c][l]
    <2>1. "main" \in Cores /\ "copied" \in Owns("main") /\ 0 \in Nat /\ MemInv
      BY DEF Cores, Owns, DualCoreInv
    <2>2. StoreWith("main", "copied", 0, Nowhere)
      BY DEF Copy, Access, Relaxed
    <2> QED
      BY <2>1, <2>2, WhatIsPublished, Stored
  <1>2. /\ Idle /\ main_pc = "copy" /\ frame \in 0 .. FRAMES - 1
        /\ ShowsFrame(front) /\ ShowsFrame(app_out) /\ last = Token(frame)
        /\ Said("PROGRAM") = program
    BY DEF DualCoreInv, Handshake, Copy, Idle, FrameAtHand, CoresTyped
  <1>3. /\ back' = app_out /\ UNCHANGED <<program, front, appVars>>
        /\ \/ frame + 1 < FRAMES /\ frame' = frame + 1 /\ main_pc' = "time"
           \/ frame = FRAMES - 1 /\ frame' = frame /\ main_pc' = "compare"
    BY <1>2 DEF Copy
  <1>4. CoresTyped'
    BY <1>2, <1>3 DEF DualCoreInv, CoresTyped, appVars
  <1>5. FrameAtHand'
    BY <1>1, <1>2, <1>3 DEF FrameAtHand, OneFrame, ShowsFrame, Locations, Atomics
  <1>6. Idle'
    BY <1>1, <1>2, <1>3 DEF Idle, Token, appVars, Cores, Locations, Atomics
  <1> QED
    BY <1>1, <1>3, <1>4, <1>5, <1>6 DEF DualCoreInv, Handshake

\* The tokens start again with each program: the last of one is not the first of
\* the next, for a program has more than one frame.
LEMMA CompareKeeps == ASSUME DualCoreInv, Compare PROVE DualCoreInv'
  <1>1. /\ main_pc = "compare" /\ Idle /\ frame = FRAMES - 1 /\ last = Token(frame)
        /\ program \in Nat
    BY DEF DualCoreInv, Handshake, FrameAtHand, CoresTyped, Compare, Idle
  <1>2. /\ mem' = mem /\ view' = view /\ UNCHANGED appVars
        /\ frame' = 0 /\ front' = Black /\ back' = Black
        /\ program' = (program + 1) % PROGRAMS /\ main_pc' \in {"program", "finished"}
    BY DEF Compare, shared
  <1>3. program' \in Nat
    BY <1>1, <1>2
  <1>4. MemInv'
    BY <1>2 DEF DualCoreInv, MemInv, MemTyped, ViewsExist, OwnStores, Newest
  <1>5. CoresTyped'
    BY <1>2, <1>3 DEF DualCoreInv, CoresTyped, appVars
  <1>6. FrameAtHand'
    BY <1>2 DEF FrameAtHand, OneFrame
  <1>7. Idle'
    BY <1>1, <1>2 DEF Idle, Said, Newest, Token, appVars
  <1> QED
    BY <1>2, <1>4, <1>5, <1>6, <1>7 DEF DualCoreInv, Handshake
\* The app core takes a frame at its first sight of the token, and with it all
\* that was published.
LEMMA PollKeeps == ASSUME DualCoreInv, Poll PROVE DualCoreInv'
  <1>1. PICK i \in Readable("app", "WORK") :
            /\ Acquired("app", "WORK", i)
            /\ last' = mem["WORK"][i].value
            /\ app_pc' = IF last' = last THEN "poll" ELSE "program"
    BY DEF Poll
  <1>2. /\ MemInv' /\ mem' = mem
        /\ i \in view["app"]["WORK"] .. Newest("WORK")
        /\ view'["app"]["WORK"] = i
        /\ \A l \in Locations :
               /\ view'["app"][l] \in view["app"][l] .. Newest(l)
               /\ view'["app"][l] >= mem["WORK"][i].sees[l]
        /\ view'["main"] = view["main"]
    BY <1>1, AcquiredValue DEF DualCoreInv, Owns, Cores, Locations, Atomics
  <1>3. app_pc = "poll" /\ UNCHANGED <<mainVars, which, t_q16, app_out, app_history>>
    BY DEF Poll
  <1>4. \A l \in Locations :
            /\ Newest(l)' = Newest(l) /\ Said(l)' = Said(l) /\ Shown(l)' = Shown(l)
            /\ Newest(l) \in Nat \ {0} /\ view["app"][l] \in Nat
    <2>1. MemInv /\ "app" \in Cores
      BY DEF DualCoreInv, Cores
    <2>2. \A l \in Locations : Newest(l) \in Nat \ {0} /\ view["app"][l] \in Nat
      BY <2>1, MemFacts
    <2>3. \A l \in Locations :
              Newest(l)' = Newest(l) /\ Said(l)' = Said(l) /\ Shown(l)' = Shown(l)
      BY <1>2, <2>1, SameMemory
    <2> QED
      BY <2>2, <2>3
  <1>5. CoresTyped'
    <2>1. i \in 1 .. Newest("WORK")
      <3>1. "app" \in Cores /\ "WORK" \in Locations
        BY DEF Cores, Locations, Atomics
      <3>2. view["app"]["WORK"] \in 1 .. Newest("WORK")
        BY <3>1 DEF DualCoreInv, MemInv, ViewsExist
      <3> QED
        BY <1>2, <1>4, <3>1, <3>2
    <2>2. last' \in Nat
      BY <2>1, <1>1, MemFacts DEF DualCoreInv, Stores, Locations, Atomics
    <2> QED
      BY <2>2, <1>1, <1>3 DEF DualCoreInv, CoresTyped, mainVars
  <1>6. FrameAtHand'
    BY <1>3, <1>4 DEF DualCoreInv, FrameAtHand, OneFrame, ShowsFrame, mainVars, Locations, Atomics
  <1>7. CASE main_pc \notin {"render", "join"}
    <2>0. Idle
      BY <1>7 DEF DualCoreInv, Handshake
    <2>1. i = Newest("WORK") /\ last' = last /\ app_pc' = "poll"
      BY <2>0, <1>1, <1>2, <1>4 DEF Idle, Said, Locations, Atomics
    <2>2. Idle'
      BY <2>0, <2>1, <1>2, <1>3, <1>4
         DEF Idle, Token, ShowsFrame, mainVars, Locations, Atomics
    <2> QED
      BY <2>2, <1>2, <1>3, <1>5, <1>6, <1>7 DEF DualCoreInv, Handshake, mainVars
  <1>8. CASE main_pc \in {"render", "join"}
    <2>1. Published /\ (Waiting \/ Answered)
      BY <1>3, <1>8 DEF DualCoreInv, Handshake, Working
    <2>2. Published'
      BY <2>1, <1>3, <1>4 DEF Published, Token, mainVars, Locations, Atomics
    <2>3. CASE Waiting /\ i = Newest("WORK")
      <3>1. last' = Token(frame) /\ last' # last /\ app_pc' = "program"
        BY <2>1, <2>3, <1>1 DEF Published, Waiting, Said
      <3>2. ASSUME NEW l \in {"PROGRAM", "T_Q16", "WORK", "copied"}
            PROVE  view'["app"][l] = Newest(l)'
        <4>1. CASE l = "WORK"
          BY <4>1, <2>3, <1>2, <1>4 DEF Locations, Atomics
        <4>2. CASE l # "WORK"
          <5>1. l \in Locations /\ mem["WORK"][i].sees[l] = Newest(l)
            BY <4>2, <2>1, <2>3 DEF Published, Shown, Locations, Atomics
          <5> QED
            BY <5>1, <1>2, <1>4
        <4> QED
          BY <4>1, <4>2
      <3>3. Working'
        BY <2>3, <3>1, <3>2, <1>2, <1>3, <1>4
           DEF Working, Waiting, Token, mainVars, Locations, Atomics
      <3> QED
        BY <2>2, <3>3, <1>2, <1>3, <1>5, <1>6, <1>8 DEF DualCoreInv, Handshake, mainVars
    <2>4. CASE Waiting /\ i # Newest("WORK")
      <3>1. i = Newest("WORK") - 1 /\ last' = last /\ app_pc' = "poll"
        BY <2>4, <1>1, <1>2, <1>4 DEF Waiting, Locations, Atomics
      <3>2. Waiting'
        BY <2>4, <3>1, <1>2, <1>3, <1>4 DEF Waiting, Token, mainVars, Locations, Atomics
      <3> QED
        BY <2>2, <3>2, <1>2, <1>3, <1>5, <1>6, <1>8 DEF DualCoreInv, Handshake, mainVars
    <2>5. CASE Answered
      <3>1. i = Newest("WORK") /\ last' = last /\ app_pc' = "poll"
        BY <2>1, <2>5, <1>1, <1>2, <1>4 DEF Answered, Published, Said, Locations, Atomics
      <3>2. Answered'
        BY <2>5, <3>1, <1>2, <1>3, <1>4
           DEF Answered, Token, ShowsFrame, mainVars, Locations, Atomics
      <3> QED
        BY <2>2, <3>2, <1>2, <1>3, <1>5, <1>6, <1>8 DEF DualCoreInv, Handshake, mainVars
    <2> QED
      BY <2>1, <2>3, <2>4, <2>5
  <1> QED
    BY <1>7, <1>8 DEF DualCoreInv, Handshake

\* What it then reads can only be what was published with the token: nothing
\* newer is stored before it answers, and it has seen nothing older.
LEMMA AtWork ==
    ASSUME DualCoreInv, app_pc # "poll"
    PROVE  /\ main_pc \in {"render", "join"} /\ Published /\ Working
           /\ Said("PROGRAM") = program /\ Said("T_Q16") = frame
           /\ \A l \in Locations :
                  Newest(l) \in Nat \ {0} /\ view["app"][l] \in Nat /\ view["main"][l] \in Nat
  <1>1. main_pc \in {"render", "join"} /\ Published /\ Working
    BY DEF DualCoreInv, Handshake, Idle, Waiting, Answered
  <1> QED
    BY <1>1, MemFacts DEF DualCoreInv, FrameAtHand, Cores

LEMMA ReadProgramKeeps == ASSUME DualCoreInv, ReadProgram PROVE DualCoreInv'
  <1>1. PICK i \in Readable("app", "PROGRAM") :
            Loaded("app", "PROGRAM", i) /\ which' = mem["PROGRAM"][i].value
    BY DEF ReadProgram
  <1>2. /\ MemInv' /\ mem' = mem
        /\ \A c \in Cores, l \in Locations :
               view'[c][l] = IF c = "app" /\ l = "PROGRAM" THEN i ELSE view[c][l]
    BY <1>1, LoadedValue DEF DualCoreInv, Owns, Cores, Atomics
  <1>3. /\ app_pc = "program" /\ app_pc' = "time"
        /\ UNCHANGED <<mainVars, last, t_q16, app_out, app_history>>
    BY DEF ReadProgram
  <1>4. /\ Published /\ Working /\ Said("PROGRAM") = program /\ main_pc \in {"render", "join"}
        /\ \A l \in Locations : Newest(l)' = Newest(l) /\ Said(l)' = Said(l) /\ Shown(l)' = Shown(l)
    BY <1>2, <1>3, AtWork, SameMemory
  <1>5. i = Newest("PROGRAM") /\ which' = program
    <2>1. view["app"]["PROGRAM"] = Newest("PROGRAM") /\ Newest("PROGRAM") \in Nat
      BY <1>3, <1>4, AtWork DEF Working, Locations, Atomics
    <2> QED
      BY <2>1, <1>1, <1>4 DEF Readable, Newest, Said
  <1>6. CoresTyped'
    BY <1>3, <1>5 DEF DualCoreInv, CoresTyped, mainVars
  <1>7. FrameAtHand'
    BY <1>3, <1>4 DEF DualCoreInv, FrameAtHand, OneFrame, ShowsFrame, mainVars, Locations, Atomics
  <1>8. Published'
    BY <1>3, <1>4 DEF Published, Token, mainVars, Locations, Atomics
  <1>9. Working'
    BY <1>2, <1>3, <1>4, <1>5 DEF Working, Token, mainVars, Cores, Locations, Atomics
  <1> QED
    BY <1>2, <1>3, <1>4, <1>6, <1>7, <1>8, <1>9 DEF DualCoreInv, Handshake, mainVars

LEMMA ReadTimeKeeps == ASSUME DualCoreInv, ReadTime PROVE DualCoreInv'
  <1>1. PICK i \in Readable("app", "T_Q16") :
            Loaded("app", "T_Q16", i) /\ t_q16' = mem["T_Q16"][i].value
    BY DEF ReadTime
  <1>2. /\ MemInv' /\ mem' = mem
        /\ \A c \in Cores, l \in Locations :
               view'[c][l] = IF c = "app" /\ l = "T_Q16" THEN i ELSE view[c][l]
    BY <1>1, LoadedValue DEF DualCoreInv, Owns, Cores, Atomics
  <1>3. /\ app_pc = "time" /\ app_pc' = "fill"
        /\ UNCHANGED <<mainVars, last, which, app_out, app_history>>
    BY DEF ReadTime
  <1>4. /\ Published /\ Working /\ Said("T_Q16") = frame /\ main_pc \in {"render", "join"}
        /\ \A l \in Locations : Newest(l)' = Newest(l) /\ Said(l)' = Said(l) /\ Shown(l)' = Shown(l)
    BY <1>2, <1>3, AtWork, SameMemory
  <1>5. i = Newest("T_Q16") /\ t_q16' = frame
    <2>1. view["app"]["T_Q16"] = Newest("T_Q16") /\ Newest("T_Q16") \in Nat
      BY <1>3, <1>4, AtWork DEF Working, Locations, Atomics
    <2> QED
      BY <2>1, <1>1, <1>4 DEF Readable, Newest, Said
  <1>6. CoresTyped'
    BY <1>3, <1>5 DEF DualCoreInv, CoresTyped, mainVars
  <1>7. FrameAtHand'
    BY <1>3, <1>4 DEF DualCoreInv, FrameAtHand, OneFrame, ShowsFrame, mainVars, Locations, Atomics
  <1>8. Published'
    BY <1>3, <1>4 DEF Published, Token, mainVars, Locations, Atomics
  <1>9. Working'
    BY <1>2, <1>3, <1>4, <1>5 DEF Working, Token, mainVars, Cores, Locations, Atomics
  <1> QED
    BY <1>2, <1>3, <1>4, <1>6, <1>7, <1>8, <1>9 DEF DualCoreInv, Handshake, mainVars

\* A write of APP_OUT.
LEMMA WriteKeeps ==
    ASSUME DualCoreInv, app_pc \in {"fill", "render"}, Access("app", "written"),
           app_pc' \in {"render", "done"}, app_pc' = "done" => ShowsFrame(app_out)',
           UNCHANGED <<mainVars, last, which, t_q16>>
    PROVE  DualCoreInv'
  <1>1. /\ MemInv'
        /\ \A l \in Locations \ {"written"} :
               /\ Newest(l)' = Newest(l) /\ Said(l)' = Said(l) /\ Shown(l)' = Shown(l)
               /\ \A c \in Cores : view'[c][l] = view[c][l]
    <2>1. "app" \in Cores /\ "written" \in Owns("app") /\ 0 \in Nat /\ MemInv
      BY DEF Cores, Owns, DualCoreInv
    <2>2. StoreWith("app", "written", 0, Nowhere)
      BY DEF Access, Relaxed
    <2> QED
      BY <2>1, <2>2, WhatIsPublished, Stored
  <1>2. main_pc \in {"render", "join"} /\ Published /\ Working
    BY AtWork
  <1>3. CoresTyped'
    BY DEF DualCoreInv, CoresTyped, mainVars
  <1>4. FrameAtHand'
    BY <1>1, <1>2 DEF DualCoreInv, FrameAtHand, OneFrame, ShowsFrame, mainVars, Locations, Atomics
  <1>5. Published'
    BY <1>1, <1>2 DEF Published, Token, mainVars, Locations, Atomics
  <1>6. Working'
    BY <1>1, <1>2 DEF Working, Token, mainVars, Cores, Locations, Atomics
  <1> QED
    BY <1>1, <1>2, <1>3, <1>4, <1>5, <1>6 DEF DualCoreInv, Handshake, mainVars

LEMMA FillKeeps == ASSUME DualCoreInv, Fill PROVE DualCoreInv'
  BY WriteKeeps DEF Fill

LEMMA RenderBackKeeps == ASSUME DualCoreInv, RenderBack PROVE DualCoreInv'
  <1>1. app_pc = "render" /\ app_pc' = "done" /\ Access("app", "written")
        /\ app_out' = Drawn(which, t_q16, app_history)
        /\ UNCHANGED <<mainVars, last, which, t_q16>>
    BY DEF RenderBack
  <1>2. which = program /\ t_q16 = frame
    BY <1>1, AtWork DEF Working
  <1>3. ShowsFrame(app_out)'
    BY <1>1, <1>2 DEF ShowsFrame, Drawn, mainVars
  <1> QED
    BY <1>1, <1>3, WriteKeeps

LEMMA DoneKeeps == ASSUME DualCoreInv, Done PROVE DualCoreInv'
  <1> DEFINE seen == [view["app"] EXCEPT !["DONE"] = Len(mem["DONE"]) + 1]
  <1>1. /\ app_pc = "done" /\ app_pc' = "poll"
        /\ UNCHANGED <<mainVars, last, which, t_q16, app_out, app_history>>
    BY DEF Done
  <1>2. "app" \in Cores /\ "DONE" \in Owns("app") /\ last \in Nat /\ MemInv
    BY DEF Cores, Owns, DualCoreInv, CoresTyped
  <1>3. /\ MemInv' /\ Newest("DONE")' = Newest("DONE") + 1
        /\ Said("DONE")' = last /\ Shown("DONE")' = seen
        /\ mem'["DONE"][Newest("DONE")] = mem["DONE"][Newest("DONE")]
        /\ \A l \in Locations \ {"DONE"} :
               /\ Newest(l)' = Newest(l) /\ Said(l)' = Said(l) /\ Shown(l)' = Shown(l)
        /\ \A c \in Cores, l \in Locations :
               view'[c][l] = IF c = "app" /\ l = "DONE" THEN Newest("DONE") + 1 ELSE view[c][l]
    <2>1. StoreWith("app", "DONE", last, seen)
      BY DEF Done, Release
    <2>2. /\ seen \in [Locations -> Nat]
          /\ \A other \in Locations :
                 seen[other] <= IF other = "DONE" THEN Newest("DONE") + 1 ELSE Newest(other)
      BY <1>2, WhatIsPublished
    <2> HIDE DEF seen
    <2> QED
      BY <1>2, <2>1, <2>2, Stored
  <1>4. /\ main_pc \in {"render", "join"} /\ Published /\ Working
        /\ Newest("DONE") \in Nat
    BY <1>1, AtWork DEF Locations, Atomics
  <1>5. CoresTyped'
    BY <1>1 DEF DualCoreInv, CoresTyped, mainVars
  <1>6. FrameAtHand'
    BY <1>1, <1>3 DEF DualCoreInv, FrameAtHand, OneFrame, ShowsFrame, mainVars, Locations, Atomics
  <1>7. Published'
    BY <1>1, <1>3, <1>4 DEF Published, Token, mainVars, Locations, Atomics
  <1>8. Answered'
    <2>1. Newest("DONE")' - 1 = Newest("DONE") /\ Said("DONE") # last
      BY <1>3, <1>4 DEF Working
    <2>2. mem'["DONE"][Newest("DONE")].value # last
      BY <2>1, <1>3 DEF Said
    <2>3. seen["written"] = Newest("written")
      <3>1. view["app"] \in [Locations -> Nat] /\ view["app"]["written"] = Newest("written")
        BY <1>2 DEF MemInv, MemTyped, OwnStores
      <3> QED
        BY <3>1 DEF Locations
    <2>4. Newest("written")' = Newest("written")
      BY <1>3 DEF Locations
    <2>5. view'["app"]["WORK"] = Newest("WORK")' /\ view'["main"]["DONE"] = Newest("DONE")
      BY <1>3, <1>4 DEF Working, Cores, Locations, Atomics
    <2>6. last' = last /\ last = Token(frame)' /\ ShowsFrame(app_out)'
      BY <1>1, <1>4 DEF Working, ShowsFrame, Token, mainVars
    <2> QED
      BY <2>1, <2>2, <2>3, <2>4, <2>5, <2>6, <1>1, <1>3 DEF Answered
  <1> QED
    BY <1>1, <1>3, <1>4, <1>5, <1>6, <1>7, <1>8 DEF DualCoreInv, Handshake, mainVars

------------------------------------------------------------------------------
LEMMA DualCoreInit == Init => DualCoreInv
  <1> SUFFICES ASSUME Init PROVE DualCoreInv
    OBVIOUS
  <1> DEFINE first == [value |-> 0, sees |-> Nowhere]
  <1>1. first \in Stores /\ \A l \in Locations : first.sees[l] = 0
    BY DEF Stores, Nowhere
  <1>2. \A l \in Locations : mem[l] = <<first>> /\ mem[l] \in Seq(Stores) /\ Newest(l) = 1
    BY <1>1 DEF Init, Newest
  <1>3. \A l \in Locations : mem[l][1] = first
    BY <1>2
  <1> HIDE DEF first
  <1>4. MemInv
    <2>1. MemTyped
      BY <1>2 DEF Init, MemTyped
    <2>2. ViewsExist
      BY <1>1, <1>2, <1>3 DEF Init, ViewsExist
    <2>3. OwnStores
      BY <1>2 DEF Init, OwnStores, Cores, Locations, Atomics
    <2> QED
      BY <2>1, <2>2, <2>3 DEF MemInv
  <1>5. \A l \in Locations : Said(l) = 0
    BY <1>2, <1>3 DEF Said, first
  <1>6. CoresTyped /\ FrameAtHand
    BY DEF Init, CoresTyped, FrameAtHand, OneFrame, Black
  <1>7. Idle
    BY <1>2, <1>5 DEF Init, Idle, Cores, Locations, Atomics, Token
  <1> QED
    BY <1>4, <1>6, <1>7 DEF DualCoreInv, Handshake, Init

LEMMA DualCoreInductive == DualCoreInv /\ [Next]_vars => DualCoreInv'
  <1> SUFFICES ASSUME DualCoreInv, [Next]_vars PROVE DualCoreInv'
    OBVIOUS
  <1>1. CASE UNCHANGED vars
    <2>1. UNCHANGED <<mem, view, main_pc, program, frame, front, back>>
          /\ UNCHANGED <<app_pc, last, which, t_q16, app_out>>
      BY <1>1 DEF vars, shared, mainVars, appVars
    <2>2. MemInv' /\ CoresTyped'
      BY <2>1 DEF DualCoreInv, MemInv, MemTyped, ViewsExist, OwnStores, Newest, CoresTyped
    <2>3. FrameAtHand'
      BY <2>1 DEF DualCoreInv, FrameAtHand, OneFrame, ShowsFrame, Said, Newest
    <2>4. Handshake'
      BY <2>1 DEF DualCoreInv, Handshake, Published, Idle, Waiting, Working, Answered,
                  Said, Shown, Newest, Token, ShowsFrame
    <2> QED
      BY <2>2, <2>3, <2>4 DEF DualCoreInv
  <1>2. CASE Main
    BY <1>2, SetProgramKeeps, SetTimeKeeps, PublishKeeps, RenderFrontKeeps, JoinKeeps,
       CopyKeeps, CompareKeeps DEF Main
  <1>3. CASE App
    BY <1>3, PollKeeps, ReadProgramKeeps, ReadTimeKeeps, FillKeeps, RenderBackKeeps, DoneKeeps
       DEF App
  <1> QED
    BY <1>1, <1>2, <1>3 DEF Next

THEOREM DualCoreInvariant == Spec => []DualCoreInv
  BY DualCoreInit, DualCoreInductive, PTL DEF Spec

\* APP_OUT needs no lock: each core's accesses to it are ordered after all that
\* the other made, by what the two atomics release and acquire.
THEOREM NoDataRaceHolds == Spec => []NoDataRace
  <1>1. DualCoreInv => NoDataRace
    <2> SUFFICES ASSUME DualCoreInv PROVE NoDataRace
      OBVIOUS
    <2>1. main_pc = "copy" => view["main"]["written"] = Len(mem["written"])
      BY DEF DualCoreInv, Handshake, Idle, Newest
    <2>2. app_pc \in {"fill", "render"} => view["app"]["copied"] = Len(mem["copied"])
      BY AtWork DEF Working, Newest
    <2> QED
      BY <2>1, <2>2 DEF NoDataRace
  <1> QED
    BY <1>1, DualCoreInvariant, PTL

\* The program and the time are stored and loaded relaxed, and still the app core
\* renders those of the token it took.
THEOREM RendersWhatWasPublishedHolds == Spec => []RendersWhatWasPublished
  <1>1. DualCoreInv => RendersWhatWasPublished
    BY AtWork DEF Working, RendersWhatWasPublished
  <1> QED
    BY <1>1, DualCoreInvariant, PTL

\* The two halves of a copied frame are of the same program and moment, although
\* the tokens start again with each program.
THEOREM OneFrameHolds == Spec => []OneFrame
  <1>1. DualCoreInv => OneFrame
    BY DEF DualCoreInv, FrameAtHand
  <1> QED
    BY <1>1, DualCoreInvariant, PTL
==============================================================================
