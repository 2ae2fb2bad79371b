--------------------------- MODULE PageTableProofs ---------------------------
(***************************************************************************)
(* Proofs about PageTable for every size of tables, every set of pages and *)
(* every list of ranges: the tables are trees and implement AddressSpaces, *)
(* mapped ranges stay mapped, user mode reaches its own stack only, and    *)
(* the kernel faults only when the heap is full.                           *)
(***************************************************************************)
EXTENDS PageTable, TLAPS

\* Every page used as a root belongs to its own space, every other table to
\* the space of a root; tables of leaves hold nothing or valid entries.
UsesFit ==
  \A f \in Frames :
    /\ Kind(f) = "root" => use[f] = Use("root", f, 0, 0)
    /\ Kind(f) \in {"mid", "low"} => use[f].root \in Roots
    /\ Kind(f) = "low" => \A x \in Idx : tab[f][x].valid \/ tab[f][x] = NoEntry

\* The loop of map() stands in a table of the right space above the page that
\* is being mapped.
JobFits ==
  job # NoJob =>
    LET r == job.range.root
        p == Vpn(job.vp)
    IN  /\ r \in Roots
        /\ job.level = 2 => job.at = r
        /\ job.level = 1 => use[job.at] = Use("mid", r, p.vpn2, 0)
        /\ job.level = 0 => use[job.at] = Use("low", r, p.vpn2, p.vpn1)

\* Ranges are waiting for existing address spaces only.
TodoFits ==
  /\ cur \in Roots
  /\ \A n \in 1..Len(todo) : todo[n].root \in Roots

IInv == TypeOK /\ TablesAreTrees /\ UsesFit /\ JobFits /\ TodoFits

-----------------------------------------------------------------------------
(* Arithmetic and types. *)

LEMMA DivMod ==
  ASSUME NEW a \in Nat, NEW b \in Nat \ {0}
  PROVE  a \div b \in Nat /\ a % b \in 0..(b - 1)
  OBVIOUS

LEMMA Product ==
  ASSUME NEW a \in Nat, NEW b \in Nat
  PROVE  a * b \in Nat
  OBVIOUS

LEMMA VpnType ==
  ASSUME NEW v \in Nat
  PROVE  Vpn(v) \in VirtualPages
  <1>1. v \div Entries \in Nat /\ v % Entries \in Idx
    BY DivMod, TableAssumption DEF Idx
  <1>2. (v \div Entries) % Entries \in Idx /\ (v \div Entries) \div Entries \in Nat
    BY <1>1, DivMod, TableAssumption DEF Idx
  <1>3. ((v \div Entries) \div Entries) % Entries \in Idx
    BY <1>2, DivMod, TableAssumption DEF Idx
  <1> QED BY <1>1, <1>2, <1>3 DEF Vpn, VirtualPages

LEMMA ZeroIdx == 0 \in Idx
  BY TableAssumption DEF Idx

LEMMA IdentityType ==
  ASSUME NEW root \in Frames, NEW rs \in Seq(KernelRange)
  PROVE  /\ Identity(root, rs) \in Seq(Ranges)
         /\ Len(Identity(root, rs)) = Len(rs)
         /\ \A n \in 1..Len(rs) : Identity(root, rs)[n].root = root
  <1>1. \A n \in 1..Len(rs) : rs[n] \in KernelRange
    OBVIOUS
  <1>2. \A n \in 1..Len(rs) :
          Range(root, rs[n].start, rs[n].end, rs[n].start, rs[n].bits) \in Ranges
    BY <1>1 DEF KernelRange, Range, Ranges
  <1> QED BY <1>2 DEF Identity, Range

-----------------------------------------------------------------------------
(* Steps that allocate no table. *)

\* Pages that were free are taken for something that is no table.
TakesNoTable ==
  /\ use' \in [Frames -> Uses]
  /\ \A f \in Frames :
       \/ use'[f] = use[f]
       \/ Free(f) /\ use'[f].kind \in {"frame", "stack", "data"}

LEMMA TakeOne ==
  ASSUME TypeOK, NEW f \in Frames, Free(f), NEW k \in {"frame", "stack", "data"},
         NEW r \in Frames \cup {0}, Take(f, Use(k, r, 0, 0))
  PROVE  TakesNoTable
  <1>1. Use(k, r, 0, 0) \in Uses /\ Use(k, r, 0, 0).kind = k
    BY ZeroIdx DEF Use, Uses, Kinds
  <1> QED BY <1>1 DEF Take, TakesNoTable, TypeOK

LEMMA NoTableStep ==
  ASSUME IInv, stage # "fault", tab' = tab, TakesNoTable
  PROVE  /\ TablesAreTrees' /\ UsesFit'
         /\ Roots' = Roots
         /\ \A f \in Frames : Kind(f) \in {"root", "mid", "low"} => use'[f] = use[f]
  <1>1. \A f \in Frames : Kind(f) \in {"root", "mid", "low"} => use'[f] = use[f]
    BY DEF TakesNoTable, Free, Kind
  <1>2. \A f \in Frames : Kind(f)' \in {"root", "mid", "low"} => use'[f] = use[f]
    BY DEF TakesNoTable, Free, Kind
  <1>3. Roots' = Roots
    BY <1>1, <1>2 DEF Roots, Kind
  <1>4. UsesFit'
    BY <1>1, <1>2, <1>3 DEF IInv, UsesFit, Kind
  <1>5. TablesAreTrees'
    <2>1. ASSUME NEW f \in Frames, Kind(f)' = "mid"
          PROVE  tab'[use'[f].root][use'[f].i] = Pointer(f)
      BY <1>2, <2>1 DEF IInv, TablesAreTrees, Kind
    <2>2. ASSUME NEW f \in Frames, Kind(f)' = "low"
          PROVE  LET e == tab'[use'[f].root][use'[f].i]
                 IN  e.valid /\ e.ppn \in Frames /\ tab'[e.ppn][use'[f].j] = Pointer(f)
      BY <1>2, <2>2 DEF IInv, TablesAreTrees, Kind
    <2>3. ASSUME NEW f \in Frames, Kind(f)' \in {"root", "mid"}, NEW x \in Idx
          PROVE  LET e == tab'[f][x]
                     u == IF Kind(f)' = "root" THEN Use("mid", f, x, 0)
                          ELSE Use("low", use'[f].root, use'[f].i, x)
                 IN  \/ e = NoEntry
                     \/ e.ppn \in Frames /\ e = Pointer(e.ppn) /\ use'[e.ppn] = u
      <3>1. use'[f] = use[f] /\ Kind(f) = Kind(f)'
        BY <1>2, <2>3 DEF Kind
      <3>2. ASSUME NEW g \in Frames, NEW k \in {"mid", "low"}, NEW a, NEW b, NEW c,
                   use[g] = Use(k, a, b, c)
            PROVE  use'[g] = use[g]
        BY <1>1, <3>2 DEF Kind, Use
      <3>3. CASE Kind(f) = "root"
        BY <3>1, <3>2, <3>3, <2>3 DEF IInv, TablesAreTrees
      <3>4. CASE Kind(f) = "mid"
        BY <3>1, <3>2, <3>4, <2>3 DEF IInv, TablesAreTrees
      <3> QED BY <3>1, <3>3, <3>4, <2>3
    <2> QED BY <2>1, <2>2, <2>3 DEF TablesAreTrees, Kind
  <1> QED BY <1>1, <1>3, <1>4, <1>5

\* What the loop of map() relies on survives a step that allocates no table.
LEMMA JobKept ==
  ASSUME IInv, stage # "fault", tab' = tab, TakesNoTable, job' = job
  PROVE  JobFits'
  <1>1. Roots' = Roots
        /\ \A f \in Frames : Kind(f) \in {"root", "mid", "low"} => use'[f] = use[f]
    BY NoTableStep
  <1>2. CASE job = NoJob
    BY <1>2 DEF JobFits
  <1>3. CASE job # NoJob
    <2>1. job \in Jobs /\ job.at \in Frames /\ job.level \in 0..2
      BY <1>3 DEF IInv, TypeOK, Jobs
    <2>2. job.level \in {0, 1} => use'[job.at] = use[job.at]
      BY <1>1, <1>3, <2>1 DEF IInv, JobFits, Kind, Use
    <2> QED BY <1>1, <1>3, <2>1, <2>2 DEF IInv, JobFits
  <1> QED BY <1>2, <1>3

LEMMA SameUse == ASSUME TypeOK, UNCHANGED use PROVE TakesNoTable
  BY DEF TakesNoTable, TypeOK

LEMMA StartRangeStep == ASSUME IInv, StartRange PROVE IInv'
  <1>1. TakesNoTable /\ tab' = tab /\ stage # "fault" /\ stage' = stage /\ cur' = cur
    BY SameUse DEF StartRange, IInv
  <1>2. TablesAreTrees' /\ UsesFit' /\ Roots' = Roots
    BY <1>1, NoTableStep
  <1> DEFINE r == Head(todo)
  <1>3. todo \in Seq(Ranges) /\ todo # <<>>
    BY DEF StartRange, IInv, TypeOK
  <1>4. r \in Ranges /\ r = todo[1] /\ Tail(todo) \in Seq(Ranges)
        /\ Len(todo) \in Nat /\ Len(todo) > 0
        /\ Len(Tail(todo)) = Len(todo) - 1
        /\ \A n \in 1..Len(Tail(todo)) : Tail(todo)[n] = todo[n + 1]
    BY <1>3
  <1>5. r.root \in Roots /\ r.root \in Frames
    BY <1>4 DEF IInv, TodoFits, Roots
  <1>6. job' \in Jobs \cup {NoJob}
    <2>1. r.start \div PageSize \in Nat /\ r.phys \div PageSize \in Nat
      BY <1>4, DivMod, TableAssumption DEF Ranges
    <2>2. (r.end + PageSize - 1) \div PageSize \in Nat
      <3>1. r.end + PageSize - 1 \in Nat
        BY <1>4, TableAssumption DEF Ranges
      <3> QED BY <3>1, DivMod, TableAssumption
    <2>3. PagesOf(r) \in Int
      BY <2>1, <2>2 DEF PagesOf
    <2>4. CASE PagesOf(r) > 0
      BY <2>1, <2>3, <2>4, <1>4, <1>5 DEF StartRange, Jobs
    <2>5. CASE ~(PagesOf(r) > 0)
      BY <2>5 DEF StartRange
    <2> QED BY <2>4, <2>5
  <1>7. JobFits'
    <2>1. CASE job' = NoJob
      BY <2>1 DEF JobFits
    <2>2. CASE job' # NoJob
      <3>1. job'.range = r /\ job'.level = 2 /\ job'.at = r.root
        BY <2>2 DEF StartRange
      <3> QED BY <3>1, <1>2, <1>5 DEF JobFits
    <2> QED BY <2>1, <2>2
  <1>8. TodoFits'
    BY <1>1, <1>2, <1>4 DEF StartRange, IInv, TodoFits
  <1>9. TypeOK'
    BY <1>4, <1>6 DEF StartRange, IInv, TypeOK
  <1> QED BY <1>2, <1>7, <1>8, <1>9 DEF IInv

\* What job.level and job.at say about the entry map() looks at.
LEMMA JobTypes ==
  ASSUME IInv, job # NoJob
  PROVE  /\ job \in Jobs /\ job.at \in Frames /\ job.level \in 0..2 /\ job.vp \in Nat
         /\ job.range \in Ranges /\ job.range.root \in Roots
         /\ Vpn(job.vp) \in VirtualPages
         /\ Slot \in Idx
         /\ tab[job.at] \in [Idx -> Entry] /\ tab[job.at][Slot] \in Entry
         /\ job.level = 2 => Kind(job.at) = "root" /\ job.at = job.range.root
         /\ job.level = 1 => Kind(job.at) = "mid"
         /\ job.level = 0 => Kind(job.at) = "low"
  <1>1. job \in Jobs /\ job.at \in Frames /\ job.level \in 0..2 /\ job.vp \in Nat
        /\ job.range \in Ranges
    BY DEF IInv, TypeOK, Jobs
  <1>2. Vpn(job.vp) \in VirtualPages
    BY <1>1, VpnType
  <1>3. Slot \in Idx
    BY <1>1, <1>2 DEF Slot, VirtualPages
  <1>4. job.range.root \in Roots
    BY DEF IInv, JobFits
  <1>5. tab[job.at] \in [Idx -> Entry] /\ tab[job.at][Slot] \in Entry
    BY <1>1, <1>3 DEF IInv, TypeOK
  <1>6. job.level = 2 => Kind(job.at) = "root" /\ job.at = job.range.root
    BY <1>1, <1>4 DEF IInv, JobFits, Roots
  <1>7. (job.level = 1 => Kind(job.at) = "mid") /\ (job.level = 0 => Kind(job.at) = "low")
    BY DEF IInv, JobFits, Kind, Use
  <1> QED BY <1>1, <1>2, <1>3, <1>4, <1>5, <1>6, <1>7

\* An entry of a root or of a middle table that leads to one of the
\* allocator's pages leads to the table of its indices.
LEMMA TableEntry ==
  ASSUME IInv, NEW f \in Frames, Kind(f) \in {"root", "mid"}, NEW x \in Idx,
         tab[f][x].valid, tab[f][x].ppn \in Frames
  PROVE  /\ tab[f][x] = Pointer(tab[f][x].ppn)
         /\ Kind(f) = "root" => use[tab[f][x].ppn] = Use("mid", f, x, 0)
         /\ Kind(f) = "mid" => use[tab[f][x].ppn] = Use("low", use[f].root, use[f].i, x)
  <1> DEFINE e == tab[f][x]
  <1>1. e # NoEntry
    BY DEF NoEntry
  <1>2. e # Pointer(0)
    BY TableAssumption DEF Pointer
  <1> QED BY <1>1, <1>2 DEF IInv, TablesAreTrees

LEMMA JobIsNoNoJob == ASSUME NEW j \in Jobs PROVE j # NoJob
  BY DEF Jobs, NoJob

LEMMA MapDescendStep == ASSUME IInv, MapDescend PROVE IInv'
  <1>1. TakesNoTable /\ tab' = tab /\ stage # "fault"
        /\ cur' = cur /\ todo' = todo /\ use' = use
    BY SameUse DEF MapDescend, IInv, Walking
  <1>2. TablesAreTrees' /\ UsesFit' /\ Roots' = Roots
    BY <1>1, NoTableStep
  <1>3. job # NoJob
    BY DEF MapDescend, Walking
  <1> DEFINE e == tab[job.at][Slot]
             r == job.range.root
             p == Vpn(job.vp)
  <1>4. e.valid /\ e.ppn \in Frames /\ job' = Down(e.ppn) /\ job.level \in {1, 2}
    BY JobTypes, <1>3 DEF MapDescend
  <1>5. /\ job' \in Jobs /\ job' # NoJob /\ job'.range = job.range /\ job'.vp = job.vp
        /\ job'.level = job.level - 1 /\ job'.at = e.ppn
    <2>1. job \in Jobs
      BY <1>3, JobTypes
    <2>2. job' \in Jobs /\ job'.range = job.range /\ job'.vp = job.vp
          /\ job'.level = job.level - 1 /\ job'.at = e.ppn
      <3>1. job.level - 1 \in 0..2
        BY <1>4
      <3> QED BY <2>1, <3>1, <1>4 DEF Down, Jobs
    <2> QED BY <2>2, JobIsNoNoJob
  <1>6. r \in Roots /\ r \in Frames
    BY <1>3, JobTypes DEF Roots
  <1>7. ASSUME job.level = 2 PROVE JobFits'
    <2>1. job.at = r /\ Kind(r) = "root" /\ Slot = p.vpn2 /\ Slot \in Idx
      BY <1>3, <1>7, JobTypes DEF Slot
    <2>2. use[e.ppn] = Use("mid", r, p.vpn2, 0)
      <3>1. e = tab[r][p.vpn2] /\ p.vpn2 \in Idx
        BY <2>1
      <3>2. tab[r][p.vpn2].valid /\ tab[r][p.vpn2].ppn \in Frames
        BY <1>4, <3>1
      <3> HIDE DEF e, r, p
      <3> QED BY <1>6, <2>1, <3>1, <3>2, TableEntry
    <2>3. job'.range.root = r /\ Vpn(job'.vp) = p /\ job'.level = 1
          /\ use'[job'.at] = Use("mid", r, p.vpn2, 0) /\ r \in Roots'
      BY <1>1, <1>2, <1>5, <1>6, <1>7, <2>2
    <2> HIDE DEF e, r, p
    <2> QED BY <2>3 DEF JobFits
  <1>8. ASSUME job.level = 1 PROVE JobFits'
    <2>1. use[job.at] = Use("mid", r, p.vpn2, 0) /\ Slot = p.vpn1 /\ Slot \in Idx
          /\ Kind(job.at) = "mid" /\ job.at \in Frames
      BY <1>3, <1>8, JobTypes DEF IInv, JobFits, Slot
    <2>2. use[job.at].root = r /\ use[job.at].i = p.vpn2
      BY <2>1 DEF Use
    <2>3. use[e.ppn] = Use("low", r, p.vpn2, p.vpn1)
      BY <1>4, <2>1, <2>2, TableEntry
    <2> QED BY <1>1, <1>2, <1>5, <1>6, <1>8, <2>3 DEF JobFits
  <1>9. JobFits'
    BY <1>4, <1>7, <1>8
  <1>10. TodoFits'
    BY <1>1, <1>2 DEF IInv, TodoFits
  <1>11. TypeOK'
    BY <1>5 DEF MapDescend, IInv, TypeOK
  <1> QED BY <1>2, <1>9, <1>10, <1>11 DEF IInv

\* The same for the whole invariant.
Stages == {"defaults", "ready", "image", "frame", "stack", "fault"}
LEMMA NoTableInv ==
  ASSUME IInv, stage # "fault", tab' = tab, TakesNoTable, job' = job, cur' = cur,
         done' = done, paging' \in BOOLEAN, stage' \in Stages, todo' \in Seq(Ranges),
         \A n \in 1..Len(todo') : todo'[n].root \in Roots
  PROVE  IInv'
  <1>1. TablesAreTrees' /\ UsesFit' /\ Roots' = Roots
    BY NoTableStep
  <1>2. JobFits'
    BY JobKept
  <1>3. TodoFits'
    BY <1>1 DEF IInv, TodoFits
  <1>4. TypeOK'
    BY DEF IInv, TypeOK, TakesNoTable, Stages
  <1> QED BY <1>1, <1>2, <1>3, <1>4 DEF IInv

LEMMA TodoKept ==
  ASSUME IInv
  PROVE  /\ todo \in Seq(Ranges) /\ stage \in Stages /\ paging \in BOOLEAN
         /\ \A n \in 1..Len(todo) : todo[n].root \in Roots
         /\ cur \in Roots /\ cur \in Frames
  BY DEF IInv, TypeOK, TodoFits, Stages

\* One range is left to be mapped.
LEMMA OneRange ==
  ASSUME NEW root \in Roots, NEW start \in Nat, NEW end \in Nat, NEW phys \in Nat,
         NEW bits \in SUBSET Rights
  PROVE  LET t == <<Range(root, start, end, phys, bits)>>
         IN  t \in Seq(Ranges) /\ \A n \in 1..Len(t) : t[n].root \in Roots
  <1>1. Range(root, start, end, phys, bits) \in Ranges
        /\ Range(root, start, end, phys, bits).root = root
    BY DEF Range, Ranges, Roots
  <1> QED BY <1>1

LEMMA EnablePagingStep == ASSUME IInv, EnablePaging PROVE IInv'
  <1>1. TakesNoTable
    <2>1. PICK f \in Frames : FirstFree(f) /\ Take(f, Use("data", 0, 0, 0))
      BY DEF EnablePaging
    <2> QED BY <2>1, TakeOne DEF IInv, FirstFree
  <1> QED BY <1>1, NoTableInv, TodoKept DEF EnablePaging, Quiet, Stages

LEMMA KernelPageStep == ASSUME IInv, KernelPage PROVE IInv'
  <1>1. TakesNoTable
    <2>1. PICK f \in Frames : FirstFree(f) /\ Take(f, Use("data", 0, 0, 0))
      BY DEF KernelPage
    <2> QED BY <2>1, TakeOne DEF IInv, FirstFree
  <1> QED BY <1>1, NoTableInv, TodoKept DEF KernelPage, Quiet, Stages

LEMMA MapDeviceStep ==
  ASSUME IInv, NEW d \in Devices, MapDevice(d)
  PROVE  IInv'
  <1>1. TakesNoTable
    BY SameUse DEF MapDevice, IInv
  <1>2. KernelRoot \in Roots /\ KernelRoot \in Frames /\ <<d>> \in Seq(KernelRange)
    BY TableAssumption DEF MapDevice, Roots
  <1>3. todo' \in Seq(Ranges) /\ \A n \in 1..Len(todo') : todo'[n].root \in Roots
    BY <1>2, IdentityType DEF MapDevice
  <1> QED BY <1>1, <1>3, NoTableInv, TodoKept DEF MapDevice, Quiet

LEMMA MapTrapFrameStep == ASSUME IInv, MapTrapFrame PROVE IInv'
  <1>1. PICK f \in Frames :
          /\ FirstFree(f) /\ Take(f, Use("frame", cur, 0, 0))
          /\ todo' = <<Range(cur, FrameAddress, FrameAddress + PageSize, f * PageSize, FrameBits)>>
    BY DEF MapTrapFrame, FrameAt
  <1>2. cur \in Roots /\ cur \in Frames
    BY TodoKept
  <1>3. TakesNoTable
    BY <1>1, <1>2, TakeOne DEF IInv, FirstFree
  <1>4. f * PageSize \in Nat
    BY Product, TableAssumption
  <1>5. todo' \in Seq(Ranges) /\ \A n \in 1..Len(todo') : todo'[n].root \in Roots
    <2>1. FrameBits \in SUBSET Rights /\ FrameAddress \in Nat /\ FrameAddress + PageSize \in Nat
      BY TableAssumption DEF FrameBits, Rights
    <2> QED BY <1>1, <1>2, <1>4, <2>1, OneRange
  <1> QED BY <1>3, <1>5, NoTableInv, TodoKept DEF MapTrapFrame, Quiet, Stages

LEMMA StackRange ==
  ASSUME IInv, NEW page \in Nat, MapStackAt(page)
  PROVE  todo' \in Seq(Ranges) /\ \A n \in 1..Len(todo') : todo'[n].root \in Roots
  <1>1. cur \in Roots
    BY TodoKept
  <1>2. PageSize * StackPages \in Nat /\ page * PageSize \in Nat
    BY Product, TableAssumption
  <1>3. StackAddress - PageSize * StackPages \in Nat /\ StackAddress \in Nat
        /\ {"R", "W", "U"} \in SUBSET Rights
    BY <1>2, TableAssumption DEF Rights
  <1> QED BY <1>1, <1>2, <1>3, OneRange DEF MapStackAt, StackAt

\* A free run is taken for something that is no table.
LEMMA TakeRun ==
  ASSUME TypeOK, NEW f \in Frames, FreeRun(f), NEW k \in {"frame", "stack", "data"},
         NEW r \in Frames \cup {0},
         use' = [g \in Frames |-> IF g \in Run(f) THEN Use(k, r, 0, 0) ELSE use[g]]
  PROVE  TakesNoTable
  <1>1. Use(k, r, 0, 0) \in Uses /\ Use(k, r, 0, 0).kind = k
    BY ZeroIdx DEF Use, Uses, Kinds
  <1> QED BY <1>1 DEF TakesNoTable, TypeOK, FreeRun

LEMMA MapStackStep == ASSUME IInv, MapStack PROVE IInv'
  <1>1. ASSUME NEW f \in Frames, FirstRun(f), MapStackAt(f),
               use' = [g \in Frames |-> IF g \in Run(f) THEN Use("stack", cur, 0, 0)
                                        ELSE use[g]]
        PROVE  TakesNoTable
    BY <1>1, TakeRun, TodoKept DEF IInv, FirstRun
  <1>2. \E page \in Nat : MapStackAt(page)
    BY TableAssumption DEF MapStack
  <1>3. TakesNoTable
    BY <1>1, SameUse DEF MapStack, IInv
  <1>4. todo' \in Seq(Ranges) /\ \A n \in 1..Len(todo') : todo'[n].root \in Roots
    BY <1>2, StackRange
  <1> QED BY <1>2, <1>3, <1>4, NoTableInv, TodoKept
          DEF MapStack, MapStackAt, Quiet, Stages

LEMMA FinishProcessStep == ASSUME IInv, FinishProcess PROVE IInv'
  <1>1. TakesNoTable
    BY SameUse DEF FinishProcess, IInv
  <1> QED BY <1>1, NoTableInv, TodoKept DEF FinishProcess, Quiet, Stages

LEMMA AllocFaultsStep == ASSUME IInv, AllocFaults PROVE IInv'
  <1>1. ASSUME NEW f \in Frames, FirstFree(f), Take(f, Use("data", 0, 0, 0))
        PROVE  TakesNoTable
    BY <1>1, TakeOne DEF IInv, FirstFree
  <1>2. ASSUME NEW f \in Frames, FirstRun(f),
               use' = [g \in Frames |-> IF g \in Run(f) THEN Use("data", 0, 0, 0)
                                        ELSE use[g]]
        PROVE  TakesNoTable
    BY <1>2, TakeRun DEF IInv, FirstRun
  <1>3. TakesNoTable
    BY <1>1, <1>2, SameUse DEF AllocFaults, IInv
  <1> QED BY <1>3, NoTableInv, TodoKept DEF AllocFaults, Quiet, Stages

LEMMA MapUnreachableStep == ASSUME IInv, MapUnreachable PROVE IInv'
  <1>1. ASSUME NEW f \in Frames, FirstFree(f), Take(f, Use("data", 0, 0, 0))
        PROVE  TakesNoTable
    BY <1>1, TakeOne DEF IInv, FirstFree
  <1>2. TakesNoTable
    BY <1>1, SameUse DEF MapUnreachable, IInv
  <1> QED BY <1>2, NoTableInv, TodoKept DEF MapUnreachable, Walking, Stages

-----------------------------------------------------------------------------
(* Steps that write tables. *)

\* The pages that hold tables are not free, and map() stands in one of them.
LEMMA JobAtTable ==
  ASSUME IInv, job # NoJob, job.level > 0
  PROVE  /\ Kind(job.at) \in {"root", "mid"} /\ ~Free(job.at)
         /\ job.level = 2 => TableUse = Use("mid", job.at, Slot, 0)
         /\ job.level = 1 => TableUse = Use("low", use[job.at].root, use[job.at].i, Slot)
         /\ TableUse \in Uses
         /\ TableUse.root = job.range.root /\ TableUse.kind \in {"mid", "low"}
  <1>1. /\ job.level \in {1, 2}
        /\ job.level = 2 => Kind(job.at) = "root" /\ job.at = job.range.root
        /\ job.level = 1 => Kind(job.at) = "mid"
        /\ job.range.root \in Roots /\ Vpn(job.vp) \in VirtualPages
    BY JobTypes
  <1>2. job.level = 2 => TableUse = Use("mid", job.at, Slot, 0)
    BY <1>1 DEF TableUse, Slot
  <1>3. job.level = 1 => use[job.at].root = job.range.root /\ use[job.at].i = Vpn(job.vp).vpn2
    BY <1>1 DEF IInv, JobFits, Use
  <1>4. job.level = 1 => TableUse = Use("low", use[job.at].root, use[job.at].i, Slot)
    BY <1>3 DEF TableUse, Slot
  <1>5. TableUse \in Uses
        /\ TableUse.root = job.range.root /\ TableUse.kind \in {"mid", "low"}
    BY <1>1, ZeroIdx DEF TableUse, Uses, Use, Kinds, VirtualPages, Roots
  <1> QED BY <1>1, <1>2, <1>4, <1>5 DEF Free

\* Two kinds of facts about the tables, in the form the steps use them.
LEMMA MidHangs ==
  ASSUME IInv, NEW g \in Frames, Kind(g) = "mid"
  PROVE  /\ use[g].root \in Frames /\ Kind(use[g].root) = "root" /\ use[g].i \in Idx
         /\ tab[use[g].root][use[g].i] = Pointer(g)
         /\ tab[use[g].root][use[g].i].valid
  BY DEF IInv, TypeOK, Uses, UsesFit, Roots, TablesAreTrees, Pointer

LEMMA LowHangs ==
  ASSUME IInv, NEW g \in Frames, Kind(g) = "low"
  PROVE  LET e == tab[use[g].root][use[g].i]
         IN  /\ use[g].root \in Frames /\ Kind(use[g].root) = "root"
             /\ use[g].i \in Idx /\ use[g].j \in Idx
             /\ e.valid /\ e.ppn \in Frames
             /\ use[e.ppn] = Use("mid", use[g].root, use[g].i, 0)
             /\ Kind(e.ppn) = "mid"
             /\ tab[e.ppn][use[g].j] = Pointer(g) /\ tab[e.ppn][use[g].j].valid
  <1> DEFINE e == tab[use[g].root][use[g].i]
  <1>1. /\ use[g].root \in Frames /\ Kind(use[g].root) = "root"
        /\ use[g].i \in Idx /\ use[g].j \in Idx
    BY DEF IInv, TypeOK, Uses, UsesFit, Roots
  <1>2. e.valid /\ e.ppn \in Frames /\ tab[e.ppn][use[g].j] = Pointer(g)
    BY DEF IInv, TablesAreTrees
  <1>3. use[e.ppn] = Use("mid", use[g].root, use[g].i, 0)
    BY <1>1, <1>2, TableEntry
  <1>4. Kind(e.ppn) = "mid" /\ tab[e.ppn][use[g].j].valid
    BY <1>2, <1>3 DEF Kind, Use, Pointer
  <1> QED BY <1>1, <1>2, <1>3, <1>4

LEMMA MapNewTableTab ==
  ASSUME IInv, MapNewTable
  PROVE  \E f \in Frames :
           /\ Free(f) /\ f # job.at
           /\ use' = [use EXCEPT ![f] = TableUse]
           /\ tab' \in [Frames -> [Idx -> Entry]]
           /\ tab'[f] = ZeroPage
           /\ tab'[job.at][Slot] = Pointer(f)
           /\ \A g \in Frames, x \in Idx :
                g # f /\ <<g, x>> # <<job.at, Slot>> => tab'[g][x] = tab[g][x]
           /\ job' = Down(f)
  <1>1. PICK f \in Frames :
          /\ FirstFree(f) /\ Take(f, TableUse)
          /\ tab' = [Zeroed(tab, f) EXCEPT ![job.at][Slot] = Pointer(f)]
          /\ job' = Down(f)
    BY DEF MapNewTable
  <1>2. job # NoJob /\ job.level > 0
    BY DEF MapNewTable, Walking
  <1>3. job.at \in Frames /\ Slot \in Idx /\ ~Free(job.at)
    BY <1>2, JobTypes, JobAtTable
  <1>4. Free(f) /\ f # job.at
    BY <1>1, <1>3 DEF FirstFree
  <1>5. ZeroPage \in [Idx -> Entry] /\ Pointer(f) \in Entry
    BY TableAssumption DEF ZeroPage, NoEntry, Pointer, Entry
  <1>6. tab \in [Frames -> [Idx -> Entry]]
    BY DEF IInv, TypeOK
  <1>7. Zeroed(tab, f) \in [Frames -> [Idx -> Entry]]
        /\ Zeroed(tab, f)[f] = ZeroPage
        /\ \A g \in Frames : g # f => Zeroed(tab, f)[g] = tab[g]
    BY <1>5, <1>6 DEF Zeroed
  <1>8. /\ tab' \in [Frames -> [Idx -> Entry]]
        /\ tab'[f] = ZeroPage
        /\ tab'[job.at][Slot] = Pointer(f)
        /\ \A g \in Frames, x \in Idx :
             g # f /\ <<g, x>> # <<job.at, Slot>> => tab'[g][x] = tab[g][x]
    BY <1>1, <1>3, <1>4, <1>5, <1>7
  <1> QED BY <1>1, <1>4, <1>8 DEF Take

LEMMA MapNewTableStep == ASSUME IInv, MapNewTable PROVE IInv'
  <1>1. PICK f \in Frames :
          /\ Free(f) /\ f # job.at
          /\ use' = [use EXCEPT ![f] = TableUse]
          /\ tab' \in [Frames -> [Idx -> Entry]]
          /\ tab'[f] = ZeroPage
          /\ tab'[job.at][Slot] = Pointer(f)
          /\ \A g \in Frames, x \in Idx :
               g # f /\ <<g, x>> # <<job.at, Slot>> => tab'[g][x] = tab[g][x]
          /\ job' = Down(f)
    BY MapNewTableTab
  <1>2. /\ job # NoJob /\ job.level > 0 /\ stage # "fault" /\ stage' = stage
        /\ cur' = cur /\ todo' = todo /\ ~tab[job.at][Slot].valid
    BY DEF MapNewTable, Walking
  <1>3. /\ job.at \in Frames /\ Slot \in Idx /\ job.level \in {1, 2} /\ job \in Jobs
        /\ job.range.root \in Roots
        /\ job.level = 2 => Kind(job.at) = "root" /\ job.at = job.range.root
        /\ job.level = 1 => Kind(job.at) = "mid"
    BY <1>2, JobTypes
  <1>4. /\ job.level = 2 => TableUse = Use("mid", job.at, Slot, 0)
        /\ job.level = 1 => TableUse = Use("low", use[job.at].root, use[job.at].i, Slot)
        /\ TableUse \in Uses /\ TableUse.root = job.range.root
        /\ TableUse.kind \in {"mid", "low"}
    BY <1>2, JobAtTable
  <1>5. use \in [Frames -> Uses]
    BY DEF IInv, TypeOK
  <1>6. /\ use' \in [Frames -> Uses] /\ use'[f] = TableUse
        /\ \A g \in Frames : g # f => use'[g] = use[g] /\ Kind(g)' = Kind(g)
        /\ Kind(f) = "free" /\ Kind(f)' \in {"mid", "low"}
    BY <1>1, <1>4, <1>5 DEF Kind, Free
  <1>7. Roots' = Roots
    BY <1>6 DEF Roots
  <1>8. \A g \in Frames, x \in Idx : g # f /\ tab[g][x].valid => tab'[g][x] = tab[g][x]
    BY <1>1, <1>2
  <1>9. TypeOK'
    <2>1. job.level - 1 \in 0..2
      BY <1>3
    <2>2. job' \in Jobs
      BY <1>1, <1>3, <2>1 DEF Down, Jobs
    <2> QED BY <1>1, <1>6, <2>2 DEF MapNewTable, IInv, TypeOK
  <1>10. ASSUME NEW g \in Frames, Kind(g)' = "mid"
         PROVE  tab'[use'[g].root][use'[g].i] = Pointer(g)
    <2>1. CASE g # f
      BY <1>6, <1>8, <1>10, <2>1, MidHangs
    <2>2. CASE g = f
      <3>1. job.level = 2
        BY <1>3, <1>4, <1>6, <1>10, <2>2 DEF Kind, Use
      <3> QED BY <1>1, <1>4, <1>6, <2>2, <3>1 DEF Use
    <2> QED BY <2>1, <2>2
  <1>11. ASSUME NEW g \in Frames, Kind(g)' = "low"
         PROVE  LET e == tab'[use'[g].root][use'[g].i]
                IN  e.valid /\ e.ppn \in Frames /\ tab'[e.ppn][use'[g].j] = Pointer(g)
    <2>1. CASE g # f
      <3>1. Kind(g) = "low" /\ use'[g] = use[g]
        BY <1>6, <1>11, <2>1
      <3> DEFINE e == tab[use[g].root][use[g].i]
      <3>2. /\ use[g].root \in Frames /\ Kind(use[g].root) = "root"
            /\ use[g].i \in Idx /\ use[g].j \in Idx
            /\ e.valid /\ e.ppn \in Frames /\ Kind(e.ppn) = "mid"
            /\ tab[e.ppn][use[g].j] = Pointer(g) /\ tab[e.ppn][use[g].j].valid
        BY <3>1, LowHangs
      <3>3. use[g].root # f /\ e.ppn # f
        BY <1>6, <3>2
      <3>4. tab'[use[g].root][use[g].i] = e
            /\ tab'[e.ppn][use[g].j] = tab[e.ppn][use[g].j]
        BY <1>8, <3>2, <3>3
      <3> QED BY <3>1, <3>2, <3>4
    <2>2. CASE g = f
      <3>1. job.level = 1
        BY <1>3, <1>4, <1>6, <1>11, <2>2 DEF Kind, Use
      <3>2. Kind(job.at) = "mid"
            /\ use'[g] = Use("low", use[job.at].root, use[job.at].i, Slot)
        BY <1>3, <1>4, <1>6, <2>2, <3>1
      <3> DEFINE r == use[job.at].root
                 i == use[job.at].i
      <3>3. /\ r \in Frames /\ Kind(r) = "root" /\ i \in Idx
            /\ tab[r][i] = Pointer(job.at) /\ tab[r][i].valid
        BY <1>3, <3>2, MidHangs
      <3>4. r # f /\ tab'[r][i] = Pointer(job.at)
        BY <1>6, <1>8, <3>3
      <3>5. Pointer(job.at).valid /\ Pointer(job.at).ppn = job.at
        BY DEF Pointer
      <3>6. use'[g].root = r /\ use'[g].i = i /\ use'[g].j = Slot
        BY <3>2 DEF Use
      <3> QED BY <1>1, <1>3, <2>2, <3>4, <3>5, <3>6
    <2> QED BY <2>1, <2>2
  <1>12. ASSUME NEW h \in Frames, Kind(h)' \in {"root", "mid"}, NEW x \in Idx
         PROVE  LET e == tab'[h][x]
                    u == IF Kind(h)' = "root" THEN Use("mid", h, x, 0)
                         ELSE Use("low", use'[h].root, use'[h].i, x)
                IN  \/ e = NoEntry
                    \/ e.ppn \in Frames /\ e = Pointer(e.ppn) /\ use'[e.ppn] = u
    <2>1. CASE h = f
      BY <1>1, <2>1 DEF ZeroPage
    <2>2. CASE h = job.at /\ x = Slot
      <3>1. tab'[h][x] = Pointer(f) /\ Pointer(f).ppn = f
        BY <1>1, <2>2 DEF Pointer
      <3>2. h # f /\ Kind(h)' = Kind(h) /\ use'[h] = use[h]
        BY <1>1, <1>6, <2>2
      <3>3. use'[f] = IF Kind(h)' = "root" THEN Use("mid", h, x, 0)
                      ELSE Use("low", use'[h].root, use'[h].i, x)
        BY <1>3, <1>4, <1>6, <2>2, <3>2
      <3> QED BY <3>1, <3>3
    <2>3. CASE h # f /\ ~(h = job.at /\ x = Slot)
      <3>1. tab'[h][x] = tab[h][x] /\ use'[h] = use[h] /\ Kind(h)' = Kind(h)
        BY <1>1, <1>6, <2>3
      <3> DEFINE e == tab[h][x]
                 u == IF Kind(h) = "root" THEN Use("mid", h, x, 0)
                      ELSE Use("low", use[h].root, use[h].i, x)
      <3>2. \/ e = NoEntry
            \/ e.ppn \in Frames /\ e = Pointer(e.ppn) /\ use[e.ppn] = u
        BY <1>2, <1>12, <3>1 DEF IInv, TablesAreTrees
      <3>3. u.kind \in {"mid", "low"}
        BY DEF Use
      <3>4. e.ppn \in Frames /\ use[e.ppn] = u => e.ppn # f
        BY <1>6, <3>3 DEF Kind
      <3> QED BY <1>6, <3>1, <3>2, <3>4
    <2> QED BY <2>1, <2>2, <2>3
  <1>13. TablesAreTrees'
    BY <1>10, <1>11, <1>12 DEF TablesAreTrees, Kind
  <1>14. UsesFit'
    <2>1. ASSUME NEW g \in Frames
          PROVE  /\ Kind(g)' = "root" => use'[g] = Use("root", g, 0, 0)
                 /\ Kind(g)' \in {"mid", "low"} => use'[g].root \in Roots'
                 /\ Kind(g)' = "low" =>
                      \A x \in Idx : tab'[g][x].valid \/ tab'[g][x] = NoEntry
      <3>1. CASE g = f
        BY <1>1, <1>3, <1>4, <1>6, <1>7, <3>1 DEF ZeroPage
      <3>2. CASE g # f
        <4>1. use'[g] = use[g] /\ Kind(g)' = Kind(g)
          BY <1>6, <3>2
        <4>2. ASSUME Kind(g) = "low", NEW x \in Idx
              PROVE  tab'[g][x] = tab[g][x]
          BY <1>1, <1>3, <3>2, <4>2
        <4> QED BY <1>7, <4>1, <4>2 DEF IInv, UsesFit
      <3> QED BY <3>1, <3>2
    <2> QED BY <2>1 DEF UsesFit, Kind
  <1>15. JobFits'
    <2>1. job'.range = job.range /\ job'.vp = job.vp /\ job'.level = job.level - 1
          /\ job'.at = f
      BY <1>1, <1>3 DEF Down, Jobs
    <2>2. CASE job.level = 2
      BY <1>3, <1>6, <1>7, <2>1, <2>2 DEF JobFits, TableUse
    <2>3. CASE job.level = 1
      BY <1>3, <1>6, <1>7, <2>1, <2>3 DEF JobFits, TableUse
    <2> QED BY <1>3, <2>2, <2>3
  <1>16. TodoFits'
    BY <1>2, <1>7 DEF IInv, TodoFits
  <1> QED BY <1>9, <1>13, <1>14, <1>15, <1>16 DEF IInv

LEMMA MapNoMemoryStep == ASSUME IInv, MapNoMemory PROVE IInv'
  <1>1. /\ job # NoJob /\ job.level > 0 /\ stage' = "fault" /\ stage # "fault"
        /\ cur' = cur /\ todo' = todo /\ use' = use /\ job' = job
        /\ tab' = [tab EXCEPT ![job.at][Slot] = Pointer(0)]
        /\ ~tab[job.at][Slot].valid
    BY DEF MapNoMemory, Walking
  <1>2. /\ job.at \in Frames /\ Slot \in Idx /\ Kind(job.at) \in {"root", "mid"}
    BY <1>1, JobTypes, JobAtTable
  <1>3. Pointer(0) \in Entry
    BY DEF Pointer, Entry
  <1>4. /\ tab' \in [Frames -> [Idx -> Entry]]
        /\ tab'[job.at][Slot] = Pointer(0)
        /\ \A g \in Frames, x \in Idx : <<g, x>> # <<job.at, Slot>> => tab'[g][x] = tab[g][x]
        /\ \A g \in Frames, x \in Idx : tab[g][x].valid => tab'[g][x] = tab[g][x]
    BY <1>1, <1>2, <1>3 DEF IInv, TypeOK
  <1>5. Roots' = Roots /\ \A g \in Frames : Kind(g)' = Kind(g)
    BY <1>1 DEF Roots, Kind
  <1>6. TypeOK'
    BY <1>1, <1>4 DEF MapNoMemory, IInv, TypeOK
  <1>7. ASSUME NEW g \in Frames, Kind(g) = "mid"
        PROVE  tab'[use[g].root][use[g].i] = Pointer(g)
    BY <1>4, <1>7, MidHangs
  <1>8. ASSUME NEW g \in Frames, Kind(g) = "low"
        PROVE  LET e == tab'[use[g].root][use[g].i]
               IN  e.valid /\ e.ppn \in Frames /\ tab'[e.ppn][use[g].j] = Pointer(g)
    <2> DEFINE e == tab[use[g].root][use[g].i]
    <2>1. /\ use[g].root \in Frames /\ Kind(use[g].root) = "root"
          /\ use[g].i \in Idx /\ use[g].j \in Idx
          /\ e.valid /\ e.ppn \in Frames /\ Kind(e.ppn) = "mid"
          /\ tab[e.ppn][use[g].j] = Pointer(g) /\ tab[e.ppn][use[g].j].valid
      BY <1>8, LowHangs
    <2>2. tab'[use[g].root][use[g].i] = e /\ tab'[e.ppn][use[g].j] = tab[e.ppn][use[g].j]
      BY <1>4, <2>1
    <2> QED BY <2>1, <2>2
  <1>9. ASSUME NEW h \in Frames, Kind(h) \in {"root", "mid"}, NEW x \in Idx
        PROVE  LET e == tab'[h][x]
                   u == IF Kind(h) = "root" THEN Use("mid", h, x, 0)
                        ELSE Use("low", use[h].root, use[h].i, x)
               IN  \/ e = NoEntry
                   \/ e.ppn \in Frames /\ e = Pointer(e.ppn) /\ use[e.ppn] = u
                   \/ e = Pointer(0)
    <2>1. CASE h = job.at /\ x = Slot
      BY <1>4, <2>1
    <2>2. CASE ~(h = job.at /\ x = Slot)
      BY <1>4, <1>9, <2>2 DEF IInv, TablesAreTrees
    <2> QED BY <2>1, <2>2
  <1>10. TablesAreTrees'
    <2>1. ASSUME NEW h \in Frames, Kind(h)' \in {"root", "mid"}, NEW x \in Idx
          PROVE  LET e == tab'[h][x]
                     u == IF Kind(h)' = "root" THEN Use("mid", h, x, 0)
                          ELSE Use("low", use'[h].root, use'[h].i, x)
                 IN  \/ e = NoEntry
                     \/ e.ppn \in Frames /\ e = Pointer(e.ppn) /\ use'[e.ppn] = u
                     \/ e = Pointer(0) /\ stage' = "fault"
      BY <1>1, <1>5, <1>9, <2>1
    <2>2. ASSUME NEW g \in Frames, Kind(g)' = "mid"
          PROVE  tab'[use'[g].root][use'[g].i] = Pointer(g)
      BY <1>1, <1>5, <1>7, <2>2
    <2>3. ASSUME NEW g \in Frames, Kind(g)' = "low"
          PROVE  LET e == tab'[use'[g].root][use'[g].i]
                 IN  e.valid /\ e.ppn \in Frames /\ tab'[e.ppn][use'[g].j] = Pointer(g)
      BY <1>1, <1>5, <1>8, <2>3
    <2> QED BY <2>1, <2>2, <2>3 DEF TablesAreTrees, Kind
  <1>11. UsesFit'
    BY <1>1, <1>2, <1>4, <1>5 DEF IInv, UsesFit
  <1>12. JobFits'
    BY <1>1, <1>5 DEF IInv, JobFits
  <1>13. TodoFits'
    BY <1>1, <1>5 DEF IInv, TodoFits
  <1> QED BY <1>6, <1>10, <1>11, <1>12, <1>13 DEF IInv

LEMMA MapLeafTab ==
  ASSUME IInv, MapLeaf
  PROVE  /\ job # NoJob /\ job.level = 0 /\ stage # "fault"
         /\ job.at \in Frames /\ Slot \in Idx /\ Kind(job.at) = "low"
         /\ tab' \in [Frames -> [Idx -> Entry]]
         /\ tab'[job.at][Slot].valid /\ tab'[job.at][Slot].ppn = job.pp
         /\ tab'[job.at][Slot].rights = tab[job.at][Slot].rights \cup job.range.bits
         /\ \A g \in Frames, x \in Idx : <<g, x>> # <<job.at, Slot>> => tab'[g][x] = tab[g][x]
         /\ \A g \in Frames : g # job.at => tab'[g] = tab[g]
  <1>1. job # NoJob /\ job.level = 0 /\ stage # "fault"
    BY DEF MapLeaf, Walking
  <1>2. job.at \in Frames /\ Slot \in Idx /\ Kind(job.at) = "low"
        /\ tab[job.at][Slot] \in Entry /\ job \in Jobs
    BY <1>1, JobTypes
  <1> DEFINE new == [valid |-> TRUE, ppn |-> job.pp,
                     rights |-> tab[job.at][Slot].rights \cup job.range.bits]
  <1>3. new \in Entry /\ new.valid /\ new.ppn = job.pp
        /\ new.rights = tab[job.at][Slot].rights \cup job.range.bits
    BY <1>2 DEF Entry, Jobs, Ranges
  <1>4. tab \in [Frames -> [Idx -> Entry]]
    BY DEF IInv, TypeOK
  <1>5. tab' = [tab EXCEPT ![job.at][Slot] = new]
    BY DEF MapLeaf
  <1> HIDE DEF new
  <1>6. /\ tab' \in [Frames -> [Idx -> Entry]] /\ tab'[job.at][Slot] = new
        /\ \A g \in Frames, x \in Idx : <<g, x>> # <<job.at, Slot>> => tab'[g][x] = tab[g][x]
        /\ \A g \in Frames : g # job.at => tab'[g] = tab[g]
    BY <1>2, <1>3, <1>4, <1>5
  <1> QED BY <1>1, <1>2, <1>3, <1>6

LEMMA MapLeafStep == ASSUME IInv, MapLeaf PROVE IInv'
  <1>1. /\ cur' = cur /\ todo' = todo /\ use' = use /\ stage' = stage
        /\ job' = NextPage /\ paging' = paging
        /\ done' = IF job' = NoJob THEN done \cup {job.range} ELSE done
    BY DEF MapLeaf
  <1>2. Roots' = Roots /\ \A g \in Frames : Kind(g)' = Kind(g)
    BY <1>1 DEF Roots, Kind
  <1>3. /\ job # NoJob /\ Kind(job.at) = "low"
        /\ tab' \in [Frames -> [Idx -> Entry]]
        /\ job.at \in Frames /\ Slot \in Idx
        /\ tab'[job.at][Slot].valid
        /\ \A g \in Frames, x \in Idx : <<g, x>> # <<job.at, Slot>> => tab'[g][x] = tab[g][x]
        /\ \A g \in Frames : Kind(g) \in {"root", "mid"} => tab'[g] = tab[g]
    BY MapLeafTab
  <1>4. job \in Jobs /\ job.range \in Ranges /\ job.range.root \in Roots
    BY <1>3, JobTypes
  <1>5. \/ job' = NoJob
        \/ /\ job' \in Jobs /\ job'.range = job.range /\ job'.level = 2
           /\ job'.at = job.range.root
    <2>1. CASE job.left > 1
      <3>1. /\ job.vp + 1 \in Nat /\ job.pp + 1 \in Nat /\ job.left - 1 \in Nat \ {0}
            /\ 2 \in 0..2 /\ job.range.root \in Frames
        BY <1>4, <2>1 DEF Jobs, Roots
      <3> QED BY <1>1, <1>4, <2>1, <3>1 DEF NextPage, Jobs
    <2>2. CASE ~(job.left > 1)
      BY <1>1, <2>2 DEF NextPage
    <2> QED BY <2>1, <2>2
  <1>6. TypeOK'
    <2>1. done' \subseteq Ranges /\ job' \in Jobs \cup {NoJob}
      BY <1>1, <1>4, <1>5 DEF IInv, TypeOK
    <2> QED BY <1>1, <1>3, <2>1 DEF IInv, TypeOK
  <1>7. ASSUME NEW g \in Frames, Kind(g) = "low"
        PROVE  LET e == tab'[use[g].root][use[g].i]
               IN  e.valid /\ e.ppn \in Frames /\ tab'[e.ppn][use[g].j] = Pointer(g)
    <2> DEFINE e == tab[use[g].root][use[g].i]
    <2>1. /\ use[g].root \in Frames /\ Kind(use[g].root) = "root"
          /\ use[g].i \in Idx /\ use[g].j \in Idx
          /\ e.valid /\ e.ppn \in Frames /\ Kind(e.ppn) = "mid"
          /\ tab[e.ppn][use[g].j] = Pointer(g) /\ tab[e.ppn][use[g].j].valid
      BY <1>7, LowHangs
    <2>2. tab'[use[g].root][use[g].i] = e /\ tab'[e.ppn][use[g].j] = tab[e.ppn][use[g].j]
      BY <1>3, <2>1
    <2> QED BY <2>1, <2>2
  <1>8. ASSUME NEW g \in Frames, Kind(g) = "mid"
        PROVE  tab'[use[g].root][use[g].i] = Pointer(g)
    BY <1>3, <1>8, MidHangs
  <1>9. TablesAreTrees'
    <2>1. ASSUME NEW h \in Frames, Kind(h) \in {"root", "mid"}, NEW x \in Idx
          PROVE  LET e == tab'[h][x]
                     u == IF Kind(h) = "root" THEN Use("mid", h, x, 0)
                          ELSE Use("low", use[h].root, use[h].i, x)
                 IN  \/ e = NoEntry
                     \/ e.ppn \in Frames /\ e = Pointer(e.ppn) /\ use[e.ppn] = u
      <3>1. tab'[h][x] = tab[h][x] /\ stage # "fault"
        BY <1>3, <2>1, MapLeafTab
      <3> QED BY <2>1, <3>1 DEF IInv, TablesAreTrees
    <2> QED BY <1>1, <1>7, <1>8, <2>1 DEF TablesAreTrees, Kind
  <1>10. UsesFit'
    BY <1>1, <1>2, <1>3 DEF IInv, UsesFit
  <1>11. JobFits'
    BY <1>2, <1>4, <1>5 DEF JobFits
  <1>12. TodoFits'
    BY <1>1, <1>2 DEF IInv, TodoFits
  <1> QED BY <1>6, <1>9, <1>10, <1>11, <1>12 DEF IInv

LEMMA CreateProcessTab ==
  ASSUME IInv, CreateProcess
  PROVE  \E f \in Frames :
           /\ Free(f) /\ job = NoJob
           /\ use' = [use EXCEPT ![f] = Use("root", f, 0, 0)]
           /\ tab' \in [Frames -> [Idx -> Entry]] /\ tab'[f] = ZeroPage
           /\ \A g \in Frames : g # f => tab'[g] = tab[g]
           /\ cur' = f /\ todo' = Identity(f, Image)
  <1>1. PICK f \in Frames :
          /\ FirstFree(f) /\ Take(f, Use("root", f, 0, 0)) /\ tab' = Zeroed(tab, f)
          /\ cur' = f /\ todo' = Identity(f, Image)
    BY DEF CreateProcess
  <1>2. ZeroPage \in [Idx -> Entry]
    BY DEF ZeroPage, NoEntry, Entry
  <1> QED BY <1>1, <1>2
          DEF CreateProcess, Quiet, IInv, TypeOK, Zeroed, FirstFree, Take

LEMMA CreateProcessStep == ASSUME IInv, CreateProcess PROVE IInv'
  <1>1. PICK f \in Frames :
          /\ Free(f) /\ job = NoJob
          /\ use' = [use EXCEPT ![f] = Use("root", f, 0, 0)]
          /\ tab' \in [Frames -> [Idx -> Entry]] /\ tab'[f] = ZeroPage
          /\ \A g \in Frames : g # f => tab'[g] = tab[g]
          /\ cur' = f /\ todo' = Identity(f, Image)
    BY CreateProcessTab
  <1>2. Use("root", f, 0, 0) \in Uses /\ Use("root", f, 0, 0).kind = "root"
    BY ZeroIdx DEF Use, Uses, Kinds
  <1>3. /\ use' \in [Frames -> Uses] /\ use'[f] = Use("root", f, 0, 0) /\ Kind(f)' = "root"
        /\ \A g \in Frames : g # f => use'[g] = use[g] /\ Kind(g)' = Kind(g)
        /\ Kind(f) = "free"
    BY <1>1, <1>2 DEF IInv, TypeOK, Kind, Free
  <1>4. Roots' = Roots \cup {f}
    BY <1>3 DEF Roots
  <1>5. todo' \in Seq(Ranges) /\ \A n \in 1..Len(todo') : todo'[n].root \in Roots'
    BY <1>1, <1>4, IdentityType, TableAssumption
  <1>6. TypeOK'
    BY <1>1, <1>3, <1>5 DEF CreateProcess, IInv, TypeOK
  <1>7. JobFits' /\ TodoFits'
    BY <1>1, <1>4, <1>5 DEF CreateProcess, JobFits, TodoFits
  <1>8. ASSUME NEW g \in Frames, Kind(g)' = "mid"
        PROVE  tab'[use'[g].root][use'[g].i] = Pointer(g)
    BY <1>1, <1>3, <1>8, MidHangs
  <1>9. ASSUME NEW g \in Frames, Kind(g)' = "low"
        PROVE  LET e == tab'[use'[g].root][use'[g].i]
               IN  e.valid /\ e.ppn \in Frames /\ tab'[e.ppn][use'[g].j] = Pointer(g)
    <2>0. g # f /\ Kind(g) = "low" /\ use'[g] = use[g]
      BY <1>3, <1>9
    <2> DEFINE e == tab[use[g].root][use[g].i]
    <2>1. /\ use[g].root \in Frames /\ Kind(use[g].root) = "root"
          /\ use[g].i \in Idx /\ use[g].j \in Idx
          /\ e.valid /\ e.ppn \in Frames /\ Kind(e.ppn) = "mid"
          /\ tab[e.ppn][use[g].j] = Pointer(g) /\ tab[e.ppn][use[g].j].valid
      BY <2>0, LowHangs
    <2>2. tab'[use[g].root][use[g].i] = e /\ tab'[e.ppn][use[g].j] = tab[e.ppn][use[g].j]
      BY <1>1, <1>3, <2>1
    <2> QED BY <2>0, <2>1, <2>2
  <1>10. ASSUME NEW h \in Frames, Kind(h)' \in {"root", "mid"}, NEW x \in Idx
         PROVE  LET e == tab'[h][x]
                    u == IF Kind(h)' = "root" THEN Use("mid", h, x, 0)
                         ELSE Use("low", use'[h].root, use'[h].i, x)
                IN  \/ e = NoEntry
                    \/ e.ppn \in Frames /\ e = Pointer(e.ppn) /\ use'[e.ppn] = u
    <2>1. CASE h = f
      BY <1>1, <2>1 DEF ZeroPage
    <2>2. CASE h # f
      <3>1. tab'[h][x] = tab[h][x] /\ use'[h] = use[h] /\ Kind(h)' = Kind(h)
        BY <1>1, <1>3, <2>2
      <3> DEFINE e == tab[h][x]
                 u == IF Kind(h) = "root" THEN Use("mid", h, x, 0)
                      ELSE Use("low", use[h].root, use[h].i, x)
      <3>2. \/ e = NoEntry
            \/ e.ppn \in Frames /\ e = Pointer(e.ppn) /\ use[e.ppn] = u
        BY <1>10, <3>1 DEF IInv, TablesAreTrees, CreateProcess, Quiet
      <3>3. u.kind \in {"mid", "low"}
        BY DEF Use
      <3>4. e.ppn \in Frames /\ use[e.ppn] = u => e.ppn # f
        BY <1>3, <3>3 DEF Kind
      <3> QED BY <1>3, <3>1, <3>2, <3>4
    <2> QED BY <2>1, <2>2
  <1>11. TablesAreTrees'
    BY <1>8, <1>9, <1>10 DEF TablesAreTrees, Kind
  <1>12. UsesFit'
    BY <1>1, <1>3, <1>4 DEF IInv, UsesFit, Kind
  <1> QED BY <1>6, <1>7, <1>11, <1>12 DEF IInv

-----------------------------------------------------------------------------
(* The invariant. *)

LEMMA InitInv == ASSUME Init PROVE IInv
  <1>1. PICK stale \in {NoEntry, [valid |-> TRUE, ppn |-> KernelRoot, rights |-> {}]} :
          tab = [f \in Frames |-> [x \in Idx |-> IF f = KernelRoot THEN NoEntry ELSE stale]]
    BY DEF Init
  <1>2. NoEntry \in Entry /\ stale \in Entry
    <2>1. NoEntry \in Entry
      BY DEF NoEntry, Entry
    <2>2. [valid |-> TRUE, ppn |-> KernelRoot, rights |-> {}] \in Entry
      BY TableAssumption DEF Entry
    <2> QED BY <2>1, <2>2
  <1>3. tab \in [Frames -> [Idx -> Entry]] /\ \A x \in Idx : tab[KernelRoot][x] = NoEntry
    BY <1>1, <1>2, TableAssumption
  <1>4. Use("root", KernelRoot, 0, 0) \in Uses /\ FreePage \in Uses
        /\ Use("root", KernelRoot, 0, 0).kind = "root" /\ FreePage.kind = "free"
    BY ZeroIdx, TableAssumption DEF Use, Uses, Kinds, FreePage
  <1>5. use \in [Frames -> Uses] /\ use[KernelRoot] = Use("root", KernelRoot, 0, 0)
        /\ Kind(KernelRoot) = "root" /\ \A f \in Frames : f # KernelRoot => Kind(f) = "free"
    BY <1>4, TableAssumption DEF Init, Kind
  <1>6. Roots = {KernelRoot}
    BY <1>5, TableAssumption DEF Roots
  <1>7. todo \in Seq(Ranges) /\ \A n \in 1..Len(todo) : todo[n].root \in Roots
    BY <1>6, IdentityType, TableAssumption DEF Init, SystemDefaults
  <1>8. TypeOK
    BY <1>3, <1>5, <1>7, TableAssumption DEF Init, TypeOK
  <1>9. TablesAreTrees
    BY <1>3, <1>5 DEF TablesAreTrees
  <1>10. UsesFit
    BY <1>5 DEF UsesFit
  <1>11. JobFits /\ TodoFits
    BY <1>6, <1>7, TableAssumption DEF Init, JobFits, TodoFits
  <1> QED BY <1>8, <1>9, <1>10, <1>11 DEF IInv

LEMMA NextInv == ASSUME IInv, [Next]_vars PROVE IInv'
  <1>1. CASE UNCHANGED vars
    <2>1. Roots' = Roots /\ \A f \in Frames : Kind(f)' = Kind(f)
      BY <1>1 DEF vars, Kind, Roots
    <2>2. TypeOK' /\ TodoFits'
      BY <1>1, <2>1 DEF vars, IInv, TypeOK, TodoFits
    <2>3. TablesAreTrees'
      BY <1>1 DEF vars, IInv, TablesAreTrees, Kind
    <2>4. UsesFit'
      BY <1>1, <2>1 DEF vars, IInv, UsesFit
    <2>5. JobFits'
      BY <1>1, <2>1 DEF vars, IInv, JobFits
    <2> QED BY <2>2, <2>3, <2>4, <2>5 DEF IInv
  <1>2. CASE \E d \in Devices : MapDevice(d)
    BY <1>2, MapDeviceStep
  <1> QED
    BY <1>1, <1>2, StartRangeStep, MapDescendStep, MapNewTableStep, MapNoMemoryStep,
       MapUnreachableStep, MapLeafStep, EnablePagingStep, KernelPageStep, CreateProcessStep,
       MapTrapFrameStep, MapStackStep, FinishProcessStep, AllocFaultsStep
    DEF Next

LEMMA Invariant == Spec => []IInv
  <1>1. Init => IInv
    BY InitInv
  <1>2. IInv /\ [Next]_vars => IInv'
    BY NextInv
  <1> QED BY <1>1, <1>2, PTL DEF Spec

\* The page tables are trees at all times: no table of map() is reached by two
\* ways, from two address spaces or after its page was given to somebody else.
THEOREM TablesStayTrees == Spec => []TablesAreTrees
  <1>1. IInv => TablesAreTrees
    BY DEF IInv
  <1> QED BY <1>1, Invariant, PTL

-----------------------------------------------------------------------------
(* Address spaces. *)

\* translate() of page p in space r looks at the one table of leaves that
\* belongs to r and the upper indices of p, and finds nothing without one.
WalkFits ==
  \A r \in Roots, p \in VirtualPages :
    /\ \A f \in Frames :
         use[f] = Use("low", r, p.vpn2, p.vpn1) => Walk(tab, r, p) = tab[f][p.vpn0]
    /\ (\A f \in Frames : use[f] # Use("low", r, p.vpn2, p.vpn1)) =>
         Walk(tab, r, p) = NoEntry
    /\ Walk(tab, r, p) \in Entry

LEMMA BelowPointer ==
  ASSUME NEW f \in Frames, NEW x
  PROVE  Below(tab, Pointer(f), x) = tab[f][x]
  BY DEF Below, Pointer, Leaf

LEMMA BelowNothing ==
  ASSUME NEW x
  PROVE  Below(tab, NoEntry, x) = NoEntry /\ Below(tab, Pointer(0), x) = NoEntry
  <1>1. Below(tab, NoEntry, x) = NoEntry
    <2>1. ~NoEntry.valid
      BY DEF NoEntry
    <2> QED BY <2>1 DEF Below
  <1>2. Below(tab, Pointer(0), x) = NoEntry
    <2>1. Pointer(0).valid /\ Pointer(0).ppn = 0 /\ ~Leaf(Pointer(0))
      BY DEF Pointer, Leaf
    <2>2. 0 \notin Frames
      BY TableAssumption
    <2> QED BY <2>1, <2>2 DEF Below
  <1> QED BY <1>1, <1>2

LEMMA MidEntry ==
  ASSUME IInv, NEW f \in Frames, Kind(f) = "mid", NEW x \in Idx
  PROVE  \/ tab[f][x] = NoEntry \/ tab[f][x] = Pointer(0)
         \/ /\ tab[f][x].ppn \in Frames
            /\ use[tab[f][x].ppn] = Use("low", use[f].root, use[f].i, x)
  BY DEF IInv, TablesAreTrees

LEMMA WalkLow == IInv => WalkFits
  <1> SUFFICES ASSUME IInv, NEW r \in Roots, NEW p \in VirtualPages
               PROVE  /\ \A f \in Frames :
                           use[f] = Use("low", r, p.vpn2, p.vpn1) =>
                             Walk(tab, r, p) = tab[f][p.vpn0]
                      /\ (\A f \in Frames : use[f] # Use("low", r, p.vpn2, p.vpn1)) =>
                           Walk(tab, r, p) = NoEntry
                      /\ Walk(tab, r, p) \in Entry
    BY DEF WalkFits
  <1>1. /\ r \in Frames /\ Kind(r) = "root"
        /\ p.vpn2 \in Idx /\ p.vpn1 \in Idx /\ p.vpn0 \in Idx
    BY DEF Roots, VirtualPages
  <1>2. NoEntry \in Entry
    BY DEF NoEntry, Entry
  <1>3. tab \in [Frames -> [Idx -> Entry]]
    BY DEF IInv, TypeOK
  <1> DEFINE e2 == tab[r][p.vpn2]
             e1 == Below(tab, e2, p.vpn1)
             u1 == Use("mid", r, p.vpn2, 0)
             u0 == Use("low", r, p.vpn2, p.vpn1)
  <1>4. ASSUME NEW f \in Frames, use[f] = u0
        PROVE  Walk(tab, r, p) = tab[f][p.vpn0]
    <2>1. Kind(f) = "low" /\ use[f].root = r /\ use[f].i = p.vpn2 /\ use[f].j = p.vpn1
      BY <1>4 DEF Kind, Use
    <2>2. e2.valid /\ e2.ppn \in Frames /\ tab[e2.ppn][p.vpn1] = Pointer(f)
      <3>1. LET e == tab[use[f].root][use[f].i]
            IN  e.valid /\ e.ppn \in Frames /\ tab[e.ppn][use[f].j] = Pointer(f)
        BY <2>1, LowHangs
      <3> QED BY <2>1, <3>1
    <2>3. e2 = Pointer(e2.ppn)
      BY <1>1, <2>2, TableEntry
    <2>4. e1 = Pointer(f)
      BY <2>2, <2>3, BelowPointer
    <2> QED BY <2>4, BelowPointer DEF Walk
  <1>5. ASSUME \A f \in Frames : use[f] # u0
        PROVE  Walk(tab, r, p) = NoEntry
    <2>1. \/ e2 = NoEntry \/ e2 = Pointer(0)
          \/ e2.ppn \in Frames /\ e2 = Pointer(e2.ppn) /\ use[e2.ppn] = u1
      BY <1>1 DEF IInv, TablesAreTrees
    <2>2. CASE e2 = NoEntry \/ e2 = Pointer(0)
      <3>1. e1 = NoEntry
        BY <2>2, BelowNothing
      <3> QED BY <3>1, BelowNothing DEF Walk
    <2>3. CASE e2.ppn \in Frames /\ e2 = Pointer(e2.ppn) /\ use[e2.ppn] = u1
      <3> DEFINE g == e2.ppn
      <3>1. g \in Frames /\ Kind(g) = "mid" /\ use[g].root = r /\ use[g].i = p.vpn2
        BY <2>3 DEF Kind, Use
      <3>2. e1 = tab[g][p.vpn1]
        BY <2>3, BelowPointer
      <3>3. \/ e1 = NoEntry \/ e1 = Pointer(0)
            \/ e1.ppn \in Frames /\ use[e1.ppn] = u0
        <4> HIDE DEF g
        <4> DEFINE e == tab[g][p.vpn1]
        <4>1. \/ e = NoEntry \/ e = Pointer(0)
              \/ e.ppn \in Frames /\ use[e.ppn] = Use("low", use[g].root, use[g].i, p.vpn1)
          BY <1>1, <3>1, MidEntry
        <4> QED BY <3>1, <3>2, <4>1
      <3>4. e1 = NoEntry \/ e1 = Pointer(0)
        BY <1>5, <3>3
      <3> QED BY <3>4, BelowNothing DEF Walk
    <2> QED BY <2>1, <2>2, <2>3
  <1>6. Walk(tab, r, p) \in Entry
    <2>1. CASE \E f \in Frames : use[f] = u0
      BY <1>1, <1>3, <1>4, <2>1
    <2>2. CASE \A f \in Frames : use[f] # u0
      BY <1>2, <1>5, <2>2
    <2> QED BY <2>1, <2>2
  <1> QED BY <1>4, <1>5, <1>6

LEMMA WalkLowNext == IInv' => WalkFits'
  BY WalkLow, PTL

\* A page keeps its translation if its table of leaves, where it has one, keeps
\* its use and the page's entry, and if a table of leaves it gets is zero.
LEMMA WalkKept ==
  ASSUME IInv, IInv', NEW r \in Roots, r \in Roots', NEW p \in VirtualPages,
         \A f \in Frames : use[f] = Use("low", r, p.vpn2, p.vpn1) =>
           use'[f] = use[f] /\ tab'[f][p.vpn0] = tab[f][p.vpn0],
         \A f \in Frames : use'[f] = Use("low", r, p.vpn2, p.vpn1) =>
           \/ use[f] = use'[f]
           \/ /\ tab'[f] = ZeroPage
              /\ \A g \in Frames : use[g] # Use("low", r, p.vpn2, p.vpn1)
  PROVE  Walk(tab', r, p) = Walk(tab, r, p)
  <1> DEFINE u == Use("low", r, p.vpn2, p.vpn1)
  <1>1. /\ \A f \in Frames : use[f] = u => Walk(tab, r, p) = tab[f][p.vpn0]
        /\ (\A f \in Frames : use[f] # u) => Walk(tab, r, p) = NoEntry
    BY WalkLow DEF WalkFits
  <1>2. /\ \A f \in Frames : use'[f] = u => Walk(tab', r, p) = tab'[f][p.vpn0]
        /\ (\A f \in Frames : use'[f] # u) => Walk(tab', r, p) = NoEntry
    BY WalkLowNext DEF WalkFits
  <1>3. p.vpn0 \in Idx
    BY DEF VirtualPages
  <1> HIDE DEF u
  <1>4. CASE \E f \in Frames : use[f] = u
    BY <1>1, <1>2, <1>4 DEF u
  <1>5. CASE \A f \in Frames : use[f] # u
    <2>1. CASE \E f \in Frames : use'[f] = u
      <3>1. PICK f \in Frames : use'[f] = u
        BY <2>1
      <3>2. tab'[f] = ZeroPage
        BY <3>1, <1>5 DEF u
      <3> QED BY <1>1, <1>2, <1>3, <1>5, <3>1, <3>2 DEF ZeroPage
    <2>2. CASE \A f \in Frames : use'[f] # u
      BY <1>1, <1>2, <1>5, <2>2
    <2> QED BY <2>1, <2>2
  <1> QED BY <1>4, <1>5

\* Steps after which every address space is as it was.
SpacesKept ==
  /\ Roots' = Roots
  /\ \A r \in Roots, p \in VirtualPages : Walk(tab', r, p) = Walk(tab, r, p)

LEMMA SpaceKept == ASSUME SpacesKept PROVE Space' = Space
  BY DEF SpacesKept, Space

LEMMA NoTableSpaces ==
  ASSUME IInv, stage # "fault", tab' = tab, TakesNoTable
  PROVE  SpacesKept
  <1>1. Roots' = Roots
    BY NoTableStep
  <1> QED BY <1>1 DEF SpacesKept

\* map() enters a table into a slot that had none: its pages have no
\* translation before, and none after.
LEMMA NewTableSpaces == ASSUME IInv, IInv', MapNewTable PROVE SpacesKept
  <1>1. PICK f \in Frames :
          /\ Free(f) /\ f # job.at
          /\ use' = [use EXCEPT ![f] = TableUse]
          /\ tab'[f] = ZeroPage
          /\ \A g \in Frames, x \in Idx :
               g # f /\ <<g, x>> # <<job.at, Slot>> => tab'[g][x] = tab[g][x]
    BY MapNewTableTab
  <1>2. job # NoJob /\ job.level > 0 /\ ~tab[job.at][Slot].valid
    BY DEF MapNewTable, Walking
  <1>3. /\ job.at \in Frames /\ Slot \in Idx /\ job.level \in {1, 2}
        /\ Kind(job.at) \in {"root", "mid"}
        /\ job.level = 1 => Kind(job.at) = "mid"
    BY <1>2, JobTypes, JobAtTable
  <1>4. /\ job.level = 2 => TableUse = Use("mid", job.at, Slot, 0)
        /\ job.level = 1 => TableUse = Use("low", use[job.at].root, use[job.at].i, Slot)
        /\ TableUse.kind \in {"mid", "low"}
    BY <1>2, JobAtTable
  <1>5. /\ use \in [Frames -> Uses] /\ use'[f] = TableUse
        /\ \A g \in Frames : g # f => use'[g] = use[g]
    BY <1>1 DEF IInv, TypeOK
  <1>6. Kind(f) = "free" /\ Kind(f)' \in {"mid", "low"}
    BY <1>1, <1>4, <1>5 DEF Kind, Free
  <1>7. Roots' = Roots
    BY <1>5, <1>6 DEF Roots, Kind
  <1>8. ASSUME job.level = 1, NEW g \in Frames PROVE use[g] # TableUse
    <2> SUFFICES ASSUME use[g] = TableUse PROVE FALSE
      OBVIOUS
    <2> DEFINE r == use[job.at].root
               i == use[job.at].i
    <2>1. Kind(g) = "low" /\ use[g].root = r /\ use[g].i = i /\ use[g].j = Slot
      BY <1>4, <1>8 DEF Kind, Use
    <2>2. tab[r][i] = Pointer(job.at)
      BY <1>3, <1>8, MidHangs
    <2>3. tab[r][i].ppn = job.at
      BY <2>2 DEF Pointer
    <2>4. tab[tab[r][i].ppn][Slot].valid
      BY <2>1, LowHangs
    <2> QED BY <1>2, <2>3, <2>4
  <1>9. ASSUME NEW r \in Roots, NEW p \in VirtualPages
        PROVE  Walk(tab', r, p) = Walk(tab, r, p)
    <2> DEFINE u == Use("low", r, p.vpn2, p.vpn1)
    <2>1. u.kind = "low" /\ p.vpn0 \in Idx
      BY DEF Use, VirtualPages
    <2> HIDE DEF u
    <2>2. ASSUME NEW g \in Frames, use[g] = u
          PROVE  use'[g] = use[g] /\ tab'[g][p.vpn0] = tab[g][p.vpn0]
      <3>1. g # f /\ g # job.at
        BY <1>3, <1>6, <2>1, <2>2 DEF Kind
      <3> QED BY <1>1, <1>5, <2>1, <3>1
    <2>3. ASSUME NEW g \in Frames, use'[g] = u
          PROVE  use[g] = use'[g] \/ (tab'[g] = ZeroPage /\ \A h \in Frames : use[h] # u)
      <3>1. CASE g # f
        BY <1>5, <3>1
      <3>2. CASE g = f
        <4>1. TableUse = u
          BY <1>5, <2>3, <3>2
        <4>2. job.level = 1
          <5>1. job.level = 2 => TableUse.kind = "mid"
            BY <1>4 DEF Use
          <5> QED BY <1>3, <2>1, <4>1, <5>1
        <4> QED BY <1>1, <1>8, <3>2, <4>1, <4>2
      <3> QED BY <3>1, <3>2
    <2> QED BY <1>7, <2>2, <2>3, WalkKept DEF u
  <1> QED BY <1>7, <1>9 DEF SpacesKept

\* An entry for page 0 where there was none: nothing is translated by it.
LEMMA NoMemorySpaces == ASSUME IInv, IInv', MapNoMemory PROVE SpacesKept
  <1>1. /\ job # NoJob /\ job.level > 0 /\ use' = use
        /\ tab' = [tab EXCEPT ![job.at][Slot] = Pointer(0)]
    BY DEF MapNoMemory, Walking
  <1>2. /\ job.at \in Frames /\ Slot \in Idx /\ Kind(job.at) \in {"root", "mid"}
    BY <1>1, JobTypes, JobAtTable
  <1>3. \A g \in Frames : g # job.at => tab'[g] = tab[g]
    BY <1>1, <1>2 DEF IInv, TypeOK
  <1>4. Roots' = Roots
    BY <1>1 DEF Roots, Kind
  <1>5. ASSUME NEW r \in Roots, NEW p \in VirtualPages
        PROVE  Walk(tab', r, p) = Walk(tab, r, p)
    <2> DEFINE u == Use("low", r, p.vpn2, p.vpn1)
    <2>1. u.kind = "low"
      BY DEF Use
    <2> HIDE DEF u
    <2>2. ASSUME NEW g \in Frames, use[g] = u
          PROVE  tab'[g][p.vpn0] = tab[g][p.vpn0]
      BY <1>2, <1>3, <2>1, <2>2 DEF Kind
    <2> QED BY <1>1, <1>4, <2>2, WalkKept DEF u
  <1> QED BY <1>4, <1>5 DEF SpacesKept

\* The leaf is entered: the page that is being mapped gets a translation and
\* keeps its rights; every other page of every space keeps its translation.
LEMMA LeafSpaces ==
  ASSUME IInv, IInv', MapLeaf
  PROVE  LET s == job.range.root
             q == Vpn(job.vp)
         IN  /\ Roots' = Roots /\ s \in Roots /\ q \in VirtualPages
             /\ Walk(tab', s, q) \in Entry /\ Walk(tab', s, q).valid
             /\ Walk(tab', s, q).ppn = job.pp
             /\ Walk(tab', s, q).rights = Walk(tab, s, q).rights \cup job.range.bits
             /\ \A r \in Roots, p \in VirtualPages :
                  <<r, p>> # <<s, q>> => Walk(tab', r, p) = Walk(tab, r, p)
  <1> DEFINE s == job.range.root
             q == Vpn(job.vp)
  <1>1. /\ job # NoJob /\ job.level = 0
        /\ job.at \in Frames /\ Slot \in Idx /\ Kind(job.at) = "low"
        /\ tab' \in [Frames -> [Idx -> Entry]]
        /\ tab'[job.at][Slot].valid /\ tab'[job.at][Slot].ppn = job.pp
        /\ tab'[job.at][Slot].rights = tab[job.at][Slot].rights \cup job.range.bits
        /\ \A g \in Frames, x \in Idx : <<g, x>> # <<job.at, Slot>> => tab'[g][x] = tab[g][x]
    BY MapLeafTab
  <1>2. use' = use
    BY DEF MapLeaf
  <1>3. Roots' = Roots
    BY <1>2 DEF Roots, Kind
  <1>4. s \in Roots /\ q \in VirtualPages /\ q.vpn0 = Slot
    BY <1>1, JobTypes DEF Slot
  <1>5. use[job.at] = Use("low", s, q.vpn2, q.vpn1)
    BY <1>1 DEF IInv, JobFits
  <1>6. Walk(tab, s, q) = tab[job.at][Slot]
    BY <1>1, <1>4, <1>5, WalkLow DEF WalkFits
  <1>7. Walk(tab', s, q) = tab'[job.at][Slot]
    BY <1>1, <1>2, <1>3, <1>4, <1>5, WalkLowNext DEF WalkFits
  <1> HIDE DEF s, q
  <1>8. ASSUME NEW r \in Roots, NEW p \in VirtualPages, <<r, p>> # <<s, q>>
        PROVE  Walk(tab', r, p) = Walk(tab, r, p)
    <2> DEFINE u == Use("low", r, p.vpn2, p.vpn1)
    <2>1. p.vpn0 \in Idx
      BY DEF VirtualPages
    <2>2. ASSUME NEW g \in Frames, use[g] = u
          PROVE  tab'[g][p.vpn0] = tab[g][p.vpn0]
      <3>1. CASE g # job.at
        BY <1>1, <2>1, <3>1
      <3>2. CASE g = job.at
        <4>1. r = s /\ p.vpn2 = q.vpn2 /\ p.vpn1 = q.vpn1
          BY <1>5, <2>2, <3>2 DEF Use
        <4>2. p.vpn0 # Slot
          BY <1>4, <1>8, <4>1 DEF VirtualPages
        <4> QED BY <1>1, <2>1, <3>2, <4>2
      <3> QED BY <3>1, <3>2
    <2> HIDE DEF u
    <2> QED BY <1>2, <1>3, <2>2, WalkKept DEF u
  <1> QED BY <1>1, <1>3, <1>4, <1>6, <1>7, <1>8 DEF s, q

LEMMA LeafMaps == ASSUME IInv, IInv', MapLeaf PROVE Spaces!Next
  <1> DEFINE s == job.range.root
             q == Vpn(job.vp)
  <1>1. /\ Roots' = Roots /\ s \in Roots /\ q \in VirtualPages
        /\ Walk(tab', s, q) \in Entry /\ Walk(tab', s, q).valid
        /\ Walk(tab, s, q).rights \subseteq Walk(tab', s, q).rights
        /\ \A r \in Roots, p \in VirtualPages :
             <<r, p>> # <<s, q>> => Walk(tab', r, p) = Walk(tab, r, p)
    BY LeafSpaces
  <1> HIDE DEF s, q
  <1>2. /\ DOMAIN Space = Roots
        /\ Space[s][q] = Walk(tab, s, q)
        /\ Space'[s][q] = Walk(tab', s, q)
    BY <1>1 DEF Space
  <1>3. Space' = [Space EXCEPT ![s][q] = Space'[s][q]]
    <2> DEFINE new == [Space EXCEPT ![s][q] = Space'[s][q]]
    <2>1. new = [r \in Roots |-> IF r = s THEN [Space[s] EXCEPT ![q] = Space'[s][q]]
                                 ELSE Space[r]]
      BY <1>1, <1>2
    <2>2. ASSUME NEW r \in Roots PROVE Space'[r] = new[r]
      <3>1. CASE r # s
        BY <1>1, <2>1, <2>2, <3>1 DEF Space
      <3>2. CASE r = s
        <4>1. Space'[s] = [p \in VirtualPages |-> Walk(tab', s, p)]
              /\ Space[s] = [p \in VirtualPages |-> Walk(tab, s, p)]
          BY <1>1 DEF Space
        <4>2. [Space[s] EXCEPT ![q] = Space'[s][q]] = Space'[s]
          BY <1>1, <1>2, <4>1
        <4> QED BY <2>1, <3>2, <4>2
      <3> QED BY <3>1, <3>2
    <2>3. Space' = [r \in Roots |-> Space'[r]]
      BY <1>1 DEF Space
    <2> QED BY <2>1, <2>2, <2>3
  <1>4. Entry = Spaces!Translation
    BY DEF Entry, Spaces!Translation
  <1>5. Spaces!Map(s, q)
    BY <1>1, <1>2, <1>3, <1>4 DEF Spaces!Map
  <1> QED BY <1>1, <1>2, <1>5 DEF Spaces!Next

\* A new root table: its space translates nothing, the others are unchanged.
LEMMA CreateWalks ==
  ASSUME IInv, IInv', CreateProcess
  PROVE  \E f \in Frames :
           /\ Roots' = Roots \cup {f} /\ f \notin Roots /\ cur' = f
           /\ \A r \in Roots, p \in VirtualPages : Walk(tab', r, p) = Walk(tab, r, p)
           /\ \A p \in VirtualPages : Walk(tab', f, p) = NoEntry
  <1>1. PICK f \in Frames :
          /\ Free(f)
          /\ use' = [use EXCEPT ![f] = Use("root", f, 0, 0)]
          /\ tab'[f] = ZeroPage
          /\ \A g \in Frames : g # f => tab'[g] = tab[g]
          /\ cur' = f
    BY CreateProcessTab
  <1>2. Use("root", f, 0, 0).kind = "root"
    BY DEF Use
  <1>3. /\ use'[f] = Use("root", f, 0, 0) /\ Kind(f)' = "root" /\ Kind(f) = "free"
        /\ \A g \in Frames : g # f => use'[g] = use[g] /\ Kind(g)' = Kind(g)
    BY <1>1, <1>2 DEF IInv, TypeOK, Kind, Free
  <1>4. Roots' = Roots \cup {f} /\ f \notin Roots
    BY <1>3 DEF Roots
  <1>5. ASSUME NEW r \in Roots, NEW p \in VirtualPages
        PROVE  Walk(tab', r, p) = Walk(tab, r, p)
    <2> DEFINE u == Use("low", r, p.vpn2, p.vpn1)
    <2>1. u.kind = "low"
      BY DEF Use
    <2> HIDE DEF u
    <2>2. ASSUME NEW g \in Frames, use[g] = u
          PROVE  use'[g] = use[g] /\ tab'[g][p.vpn0] = tab[g][p.vpn0]
      BY <1>1, <1>3, <2>1, <2>2 DEF Kind
    <2>3. ASSUME NEW g \in Frames, use'[g] = u PROVE use[g] = use'[g]
      BY <1>2, <1>3, <2>1, <2>3
    <2> QED BY <1>4, <2>2, <2>3, WalkKept DEF u
  <1>6. ASSUME NEW p \in VirtualPages PROVE Walk(tab', f, p) = NoEntry
    <2>1. ASSUME NEW x, NEW y, NEW e, e = NoEntry PROVE Below(tab', e, x) = NoEntry
      <3>1. ~NoEntry.valid
        BY DEF NoEntry
      <3> QED BY <2>1, <3>1 DEF Below
    <2>2. p.vpn2 \in Idx
      BY DEF VirtualPages
    <2>3. tab'[f][p.vpn2] = NoEntry
      BY <1>1, <2>2 DEF ZeroPage
    <2> QED BY <2>1, <2>3 DEF Walk
  <1> QED BY <1>1, <1>4, <1>5, <1>6

LEMMA CreateSpaces == ASSUME IInv, IInv', CreateProcess PROVE Spaces!Next
  <1>1. PICK f \in Frames :
          /\ Roots' = Roots \cup {f} /\ f \notin Roots
          /\ \A r \in Roots, p \in VirtualPages : Walk(tab', r, p) = Walk(tab, r, p)
          /\ \A p \in VirtualPages : Walk(tab', f, p) = NoEntry
    BY CreateWalks
  <1>2. NoEntry = Spaces!Absent
    BY DEF NoEntry, Spaces!Absent
  <1>3. DOMAIN Space = Roots
    BY DEF Space
  <1>4. Space' = [t \in Roots \cup {f} |-> IF t = f THEN Spaces!Blank ELSE Space[t]]
    <2>1. Space' = [t \in Roots \cup {f} |-> [p \in VirtualPages |-> Walk(tab', t, p)]]
      BY <1>1 DEF Space
    <2>2. ASSUME NEW t \in Roots
          PROVE  [p \in VirtualPages |-> Walk(tab', t, p)] = Space[t]
      BY <1>1, <2>2 DEF Space
    <2>3. [p \in VirtualPages |-> Walk(tab', f, p)] = Spaces!Blank
      BY <1>1, <1>2 DEF Spaces!Blank
    <2> QED BY <1>1, <2>1, <2>2, <2>3
  <1>5. Spaces!Create(f)
    BY <1>1, <1>3, <1>4 DEF Spaces!Create
  <1> QED BY <1>5 DEF Spaces!Next

LEMMA InitSpaces == ASSUME Init PROVE Spaces!Init
  <1>1. IInv
    BY InitInv
  <1>2. \A f \in Frames : f # KernelRoot => Kind(f) = "free"
    BY DEF Init, Kind, FreePage, Use
  <1>3. Kind(KernelRoot) = "root" /\ KernelRoot \in Frames
    BY TableAssumption DEF Init, Kind, Use
  <1>4. Roots = {KernelRoot}
    BY <1>2, <1>3 DEF Roots
  <1>5. ASSUME NEW p \in VirtualPages PROVE Walk(tab, KernelRoot, p) = Spaces!Absent
    <2>1. \A f \in Frames : use[f] # Use("low", KernelRoot, p.vpn2, p.vpn1)
      BY <1>2, <1>3 DEF Kind, Use
    <2>2. Walk(tab, KernelRoot, p) = NoEntry
      BY <1>1, <1>4, <2>1, WalkLow DEF WalkFits
    <2> QED BY <2>2 DEF NoEntry, Spaces!Absent
  <1> QED BY <1>4, <1>5 DEF Space, Spaces!Init, Spaces!Blank

\* Of all steps, the writing of a leaf and the creation of a process alone
\* change an address space.
LEMMA NextKeeps ==
  ASSUME IInv, IInv', [Next]_vars, ~MapLeaf, ~CreateProcess
  PROVE  SpacesKept
  <1>1. CASE UNCHANGED vars
    BY <1>1 DEF vars, SpacesKept, Roots, Kind
  <1>2. ASSUME stage # "fault", tab' = tab, TakesNoTable PROVE SpacesKept
    BY <1>2, NoTableSpaces
  <1>3. TypeOK
    BY DEF IInv
  <1>4. CASE StartRange \/ MapDescend \/ FinishProcess \/ \E d \in Devices : MapDevice(d)
    <2>1. stage # "fault" /\ tab' = tab /\ use' = use
      BY <1>4 DEF StartRange, MapDescend, FinishProcess, MapDevice, Walking, Quiet
    <2> QED BY <1>2, <1>3, <2>1, SameUse
  <1>5. CASE EnablePaging \/ KernelPage \/ MapTrapFrame \/ MapStack \/ AllocFaults \/ MapUnreachable
    <2>1. stage # "fault" /\ tab' = tab
      BY <1>5 DEF EnablePaging, KernelPage, MapTrapFrame, MapStack, MapStackAt, AllocFaults,
                  MapUnreachable, Walking, Quiet
    <2>2. cur \in Frames \cup {0} /\ 0 \in Frames \cup {0}
      BY <1>3 DEF TypeOK
    <2>3. TakesNoTable
      <3>1. CASE EnablePaging \/ KernelPage \/ MapTrapFrame
        BY <1>3, <2>2, <3>1, TakeOne DEF EnablePaging, KernelPage, MapTrapFrame, FirstFree
      <3>2. CASE MapStack
        BY <1>3, <2>2, <3>2, TakeRun, SameUse DEF MapStack, FirstRun
      <3>3. CASE AllocFaults
        BY <1>3, <2>2, <3>3, TakeOne, TakeRun, SameUse DEF AllocFaults, FirstFree, FirstRun
      <3>4. CASE MapUnreachable
        BY <1>3, <2>2, <3>4, TakeOne, SameUse DEF MapUnreachable, FirstFree
      <3> QED BY <1>5, <3>1, <3>2, <3>3, <3>4
    <2> QED BY <1>2, <2>1, <2>3
  <1>6. CASE MapNewTable \/ MapNoMemory
    BY <1>6, NewTableSpaces, NoMemorySpaces
  <1> QED BY <1>1, <1>4, <1>5, <1>6 DEF Next

LEMMA NextSpaces == ASSUME IInv, IInv', [Next]_vars PROVE [Spaces!Next]_Space
  <1>1. CASE MapLeaf \/ CreateProcess
    BY <1>1, LeafMaps, CreateSpaces
  <1>2. CASE ~MapLeaf /\ ~CreateProcess
    BY <1>2, NextKeeps, SpaceKept
  <1> QED BY <1>1, <1>2

\* The three levels of tables that map() builds in shared memory implement flat
\* address spaces: whatever tables it allocates on the way, a step changes the
\* translation of at most one page of one space, never takes rights away, and a
\* new process translates nothing.
THEOREM TablesImplementSpaces == Spec => ImplementsSpaces
  <1>1. Init => Spaces!Init
    BY InitSpaces
  <1>2. IInv /\ IInv' /\ [Next]_vars => [Spaces!Next]_Space
    BY NextSpaces
  <1> QED BY <1>1, <1>2, Invariant, PTL DEF Spec, ImplementsSpaces, Spaces!Spec

-----------------------------------------------------------------------------
(* The ranges that are mapped, and the layout they have. *)

LEMMA Division ==
  ASSUME NEW a \in Nat, NEW b \in Nat \ {0}
  PROVE  /\ a = (a \div b) * b + (a % b)
         /\ a \div b \in Nat /\ a % b \in Nat /\ a % b < b
  OBVIOUS

LEMMA DivisionUnique ==
  ASSUME NEW q \in Nat, NEW b \in Nat \ {0}, NEW r \in Nat, r < b
  PROVE  (q * b + r) \div b = q /\ (q * b + r) % b = r
  OBVIOUS

LEMMA QuotientBelow ==
  ASSUME NEW a \in Nat, NEW b \in Nat \ {0}, NEW m \in Nat, a < b * m
  PROVE  a \div b < m
  <1> DEFINE q == a \div b
  <1>1. q \in Nat /\ q * b <= a
    BY Division
  <1> HIDE DEF q
  <1>2. q >= m => q * b >= m * b
    BY <1>1
  <1> QED BY <1>1, <1>2 DEF q

\* An address of three indices is given by them.
LEMMA VpnInjective ==
  ASSUME NEW v \in Nat, NEW w \in Nat,
         v < Entries * Entries * Entries, w < Entries * Entries * Entries,
         Vpn(v) = Vpn(w)
  PROVE  v = w
  <1> DEFINE E == Entries
             Up(x) == x \div E
  <1>0. E \in Nat \ {0} /\ E * E \in Nat
    BY TableAssumption
  <1>1. ASSUME NEW x \in Nat, x < E * E * E
        PROVE  /\ Up(x) \in Nat /\ x = Up(x) * E + (x % E)
               /\ Up(Up(x)) \in Nat /\ Up(x) = Up(Up(x)) * E + (Up(x) % E)
               /\ Up(Up(x)) % E = Up(Up(x))
    <2>1. x < E * (E * E)
      BY <1>0, <1>1
    <2>2. Up(x) \in Nat /\ x = Up(x) * E + (x % E)
      BY <1>0, Division
    <2>3. Up(x) < E * E
      BY <1>0, <2>1, QuotientBelow
    <2> DEFINE y == Up(x)
    <2>4. y \in Nat /\ y < E * E
      BY <2>2, <2>3
    <2> HIDE DEF y
    <2>5. Up(y) \in Nat /\ y = Up(y) * E + (y % E) /\ Up(y) < E
      BY <1>0, <2>4, Division, QuotientBelow
    <2>6. Up(y) % E = Up(y)
      BY <1>0, <2>5
    <2> QED BY <2>2, <2>5, <2>6 DEF y
  <1>2. /\ Up(Up(v)) % E = Up(Up(w)) % E
        /\ Up(v) % E = Up(w) % E
        /\ v % E = w % E
    BY DEF Vpn
  <1> HIDE DEF Up, E
  <1>3. Up(Up(v)) = Up(Up(w))
    BY <1>1, <1>2 DEF E
  <1>4. Up(v) = Up(w)
    BY <1>1, <1>2, <1>3 DEF E
  <1> QED BY <1>1, <1>2, <1>4 DEF E

\* The k-th page of a range, and the page it goes to.
VP(d, k) == (d.start \div PageSize) + k
PP(d, k) == (d.phys \div PageSize) + k
Turns(d) == 0..(PagesOf(d) - 1)

\* The ranges of map_system_defaults and the devices, of the image, of the
\* trap frame and of the stack.
IsKernel(d) == \E r \in KernelRanges : d = Range(KernelRoot, r.start, r.end, r.start, r.bits)
IsImage(s, d) == \E r \in ImageRanges : d = Range(s, r.start, r.end, r.start, r.bits)
IsFrame(s, d) == \E f \in Frames : d = FrameAt(s, f)
IsStack(s, d) == \E page \in Nat : d = StackAt(s, page)

\* The pages of the range are addresses, and the byte in the page is kept.
Placed(d) ==
  /\ d.start \div PageSize \in Nat /\ d.phys \div PageSize \in Nat /\ PagesOf(d) \in Int
  /\ \A k \in Turns(d) : VP(d, k) \in Nat /\ VP(d, k) < Entries * Entries * Entries
  /\ d.phys % PageSize = d.start % PageSize

LEMMA RangeNumbers ==
  ASSUME NEW start \in Nat, NEW end \in Nat, NEW phys \in Nat, NEW d,
         d.start = start, d.end = end, d.phys = phys
  PROVE  /\ d.start \div PageSize \in Nat /\ d.phys \div PageSize \in Nat
         /\ PagesOf(d) \in Int
         /\ \A k \in Turns(d) : VP(d, k) \in Nat /\ VP(d, k) \in PageNumbers(d)
  <1>1. d.start \div PageSize \in Nat /\ d.phys \div PageSize \in Nat
    BY DivMod, TableAssumption
  <1>2. end + PageSize - 1 \in Nat
    BY TableAssumption
  <1>3. (d.end + PageSize - 1) \div PageSize \in Nat
    BY <1>2, DivMod, TableAssumption
  <1>4. PagesOf(d) \in Int
    BY <1>1, <1>3 DEF PagesOf
  <1> QED BY <1>1, <1>4 DEF Turns, VP, PageNumbers

\* An identity mapping of a range of the kernel or of the image.
LEMMA IdentityPlaced ==
  ASSUME NEW s, NEW r \in KernelRange, NEW d, d = Range(s, r.start, r.end, r.start, r.bits),
         \A v \in PageNumbers(r) : v < Entries * Entries * Entries
  PROVE  /\ Placed(d) /\ d.root = s /\ d.bits = r.bits
         /\ \A k \in Turns(d) : VP(d, k) = PP(d, k) /\ VP(d, k) \in PageNumbers(r)
  <1>1. /\ d.start = r.start /\ d.end = r.end /\ d.phys = r.start /\ d.root = s
        /\ d.bits = r.bits /\ r.start \in Nat /\ r.end \in Nat
    BY DEF Range, KernelRange
  <1>2. PageNumbers(d) = PageNumbers(r)
    BY <1>1 DEF PageNumbers, PagesOf
  <1>3. /\ d.start \div PageSize \in Nat /\ d.phys \div PageSize \in Nat
        /\ PagesOf(d) \in Int
        /\ \A k \in Turns(d) : VP(d, k) \in Nat /\ VP(d, k) \in PageNumbers(d)
    BY <1>1, RangeNumbers
  <1>4. \A k \in Turns(d) : VP(d, k) = PP(d, k)
    BY <1>1 DEF VP, PP
  <1> QED BY <1>1, <1>2, <1>3, <1>4 DEF Placed

LEMMA KernelPlaced ==
  ASSUME NEW d, IsKernel(d)
  PROVE  /\ Placed(d) /\ d.root = KernelRoot /\ "U" \notin d.bits
         /\ \A k \in Turns(d) : VP(d, k) = PP(d, k)
  <1>1. PICK r \in KernelRanges : d = Range(KernelRoot, r.start, r.end, r.start, r.bits)
    BY DEF IsKernel
  <1>2. r \in KernelRange
    BY TableAssumption DEF KernelRanges
  <1>3. \A v \in PageNumbers(r) : v < Entries * Entries * Entries
    BY AddressAssumption DEF KernelPages
  <1>4. "U" \notin r.bits
    BY LayoutAssumption
  <1> QED BY <1>1, <1>2, <1>3, <1>4, IdentityPlaced

LEMMA ImagePlaced ==
  ASSUME NEW s, NEW d, IsImage(s, d)
  PROVE  /\ Placed(d) /\ d.root = s
         /\ \A k \in Turns(d) : /\ VP(d, k) = PP(d, k) /\ VP(d, k) \in ImagePages
                               /\ PP(d, k) \notin Frames
  <1>1. PICK r \in ImageRanges : d = Range(s, r.start, r.end, r.start, r.bits)
    BY DEF IsImage
  <1>2. r \in KernelRange
    BY TableAssumption DEF ImageRanges
  <1>3. \A v \in PageNumbers(r) : v < Entries * Entries * Entries /\ v \in ImagePages
    BY AddressAssumption DEF ImagePages
  <1>4. \A k \in Turns(d) : VP(d, k) = PP(d, k) /\ VP(d, k) \in ImagePages
    BY <1>1, <1>2, <1>3, IdentityPlaced
  <1>5. Placed(d) /\ d.root = s
    BY <1>1, <1>2, <1>3, IdentityPlaced
  <1> QED BY <1>4, <1>5, LayoutAssumption

LEMMA FramePlaced ==
  ASSUME NEW s, NEW d, IsFrame(s, d)
  PROVE  /\ Placed(d) /\ d.root = s /\ "U" \notin d.bits
         /\ \A k \in Turns(d) : VP(d, k) \in FramePages
  <1>1. PICK f \in Frames : d = FrameAt(s, f)
    BY DEF IsFrame
  <1> DEFINE c == FrameAt(KernelRoot, 0)
  <1>2. /\ d.start = FrameAddress /\ d.end = FrameAddress + PageSize /\ d.phys = f * PageSize
        /\ d.root = s /\ d.bits = FrameBits
        /\ c.start = FrameAddress /\ c.end = FrameAddress + PageSize
    BY <1>1 DEF FrameAt, Range
  <1>3. f * PageSize \in Nat /\ (f * PageSize) % PageSize = 0 /\ FrameAddress % PageSize = 0
    <2>1. f \in Nat /\ PageSize \in Nat \ {0}
      BY TableAssumption
    <2>2. (f * PageSize + 0) % PageSize = 0
      BY <2>1, DivisionUnique
    <2> QED BY <2>1, <2>2, Product, AddressAssumption
  <1>4. FrameAddress \in Nat /\ FrameAddress + PageSize \in Nat
    BY TableAssumption
  <1>5. /\ d.start \div PageSize \in Nat /\ d.phys \div PageSize \in Nat
        /\ PagesOf(d) \in Int
        /\ \A k \in Turns(d) : VP(d, k) \in Nat /\ VP(d, k) \in PageNumbers(d)
    BY <1>2, <1>3, <1>4, RangeNumbers
  <1>6. PageNumbers(d) = FramePages
    BY <1>2 DEF PageNumbers, PagesOf, FramePages
  <1>7. "U" \notin d.bits
    BY <1>2 DEF FrameBits
  <1>8. \A v \in FramePages : v < Entries * Entries * Entries
    BY AddressAssumption
  <1> QED BY <1>2, <1>3, <1>5, <1>6, <1>7, <1>8 DEF Placed

LEMMA StackPlaced ==
  ASSUME NEW s, NEW page \in Nat, NEW d, d = StackAt(s, page)
  PROVE  /\ Placed(d) /\ d.root = s
         /\ \A k \in Turns(d) : VP(d, k) \in UserStackPages /\ PP(d, k) \in Run(page)
  <1> DEFINE c == StackAt(KernelRoot, 0)
             P == PageSize
             low == StackAddress - P * StackPages
             q == StackAddress \div P
  <1>1. /\ d.start = low /\ d.end = StackAddress /\ d.phys = page * P /\ d.root = s
        /\ c.start = low /\ c.end = StackAddress
    BY DEF StackAt, Range
  <1>2. P \in Nat \ {0} /\ StackPages \in Nat \ {0} /\ StackAddress \in Nat
        /\ P * StackPages \in Nat /\ StackAddress >= P * StackPages
    BY Product, TableAssumption
  <1>3. page * P \in Nat /\ (page * P) % P = 0 /\ (page * P) \div P = page
    <2>1. (page * P + 0) % P = 0 /\ (page * P + 0) \div P = page
      BY <1>2, DivisionUnique
    <2> QED BY <1>2, <2>1, Product
  <1>4. low \in Nat
    BY <1>2
  <1>5. q \in Nat /\ StackAddress = q * P
    BY <1>2, Division, AddressAssumption
  <1>6. q - StackPages \in Nat /\ low = (q - StackPages) * P + 0
    <2> HIDE DEF q
    <2>1. q * P >= StackPages * P
      BY <1>2, <1>5
    <2>2. q >= StackPages
      BY <1>2, <1>5, <2>1
    <2>3. (q - StackPages) * P = q * P - StackPages * P
      BY <1>2, <1>5, <2>2
    <2> QED BY <1>2, <1>5, <2>2, <2>3
  <1> HIDE DEF q, low
  <1>7. low \div P = q - StackPages /\ low % P = 0
    <2> DEFINE n == q - StackPages
    <2>1. n \in Nat /\ low = n * P + 0 /\ 0 \in Nat /\ 0 < P
      BY <1>2, <1>6
    <2> HIDE DEF n
    <2>2. (n * P + 0) \div P = n /\ (n * P + 0) % P = 0
      BY <1>2, <2>1, DivisionUnique
    <2> QED BY <2>1, <2>2 DEF n
  <1>8. (StackAddress + P - 1) \div P = q
    <2>1. StackAddress + P - 1 = q * P + (P - 1) /\ P - 1 \in Nat /\ P - 1 < P
      BY <1>2, <1>5
    <2> QED BY <1>2, <1>5, <2>1, DivisionUnique
  <1>9. PagesOf(d) = StackPages
    BY <1>1, <1>2, <1>5, <1>7, <1>8 DEF PagesOf
  <1>10. /\ d.start \div PageSize \in Nat /\ d.phys \div PageSize \in Nat
         /\ PagesOf(d) \in Int
         /\ \A k \in Turns(d) : VP(d, k) \in Nat /\ VP(d, k) \in PageNumbers(d)
    BY <1>1, <1>2, <1>3, <1>4, RangeNumbers
  <1>11. PageNumbers(d) = UserStackPages
    BY <1>1 DEF PageNumbers, PagesOf, UserStackPages
  <1>12. \A k \in Turns(d) : PP(d, k) \in Run(page)
    BY <1>1, <1>2, <1>3, <1>9 DEF Turns, PP, Run
  <1>13. \A v \in UserStackPages : v < Entries * Entries * Entries
    BY AddressAssumption
  <1>14. d.phys % PageSize = d.start % PageSize
    BY <1>1, <1>3, <1>7
  <1> QED BY <1>1, <1>10, <1>11, <1>12, <1>13, <1>14 DEF Placed

\* Two ranges of a space send the pages they share to the same place.
Agree(c, d) ==
  c.root = d.root =>
    \A j \in Turns(c), k \in Turns(d) : Vpn(VP(c, j)) = Vpn(VP(d, k)) => PP(c, j) = PP(d, k)

LEMMA AgreeIdentity ==
  ASSUME NEW c, NEW d, Placed(c), Placed(d),
         \A k \in Turns(c) : VP(c, k) = PP(c, k),
         \A k \in Turns(d) : VP(d, k) = PP(d, k)
  PROVE  Agree(c, d)
  BY VpnInjective DEF Agree, Placed

LEMMA AgreeSelf ==
  ASSUME NEW d, Placed(d)
  PROVE  Agree(d, d)
  <1> SUFFICES ASSUME NEW j \in Turns(d), NEW k \in Turns(d), Vpn(VP(d, j)) = Vpn(VP(d, k))
               PROVE  PP(d, j) = PP(d, k)
    BY DEF Agree
  <1>1. VP(d, j) = VP(d, k)
    BY VpnInjective DEF Placed
  <1>2. j \in Int /\ k \in Int /\ d.start \div PageSize \in Nat
    BY DEF Turns, Placed
  <1>3. j = k
    BY <1>1, <1>2 DEF VP
  <1> QED BY <1>3

LEMMA AgreeApart ==
  ASSUME NEW c, NEW d, Placed(c), Placed(d),
         \A j \in Turns(c), k \in Turns(d) : VP(c, j) # VP(d, k)
  PROVE  Agree(c, d) /\ Agree(d, c)
  <1>1. \A j \in Turns(c), k \in Turns(d) : Vpn(VP(c, j)) # Vpn(VP(d, k))
    BY VpnInjective DEF Placed
  <1> QED BY <1>1 DEF Agree

\* The ranges that wait for map_range or are in it, and all there ever were.
Waiting == {todo[n] : n \in 1..Len(todo)} \cup (IF job = NoJob THEN {} ELSE {job.range})
Known == done \cup Waiting

OwnStack(s, d) ==
  \E page \in Nat : /\ d = StackAt(s, page)
                    /\ \A g \in Run(page) : g \in Frames => use[g] = Use("stack", s, 0, 0)

RangeFits(d) ==
  /\ d.root \in Roots
  /\ d.root = KernelRoot => IsKernel(d)
  /\ d.root # KernelRoot => IsImage(d.root, d) \/ IsFrame(d.root, d) \/ OwnStack(d.root, d)

\* What is being mapped follows from the stage of the kernel: the kernel's own
\* ranges, or first the image, then the frame and last the stack of a process.
WorkFits ==
  /\ KernelRoot \in Roots
  /\ \A d \in Known : RangeFits(d)
  /\ \A c, d \in Known : Agree(c, d)
  /\ stage \in {"defaults", "ready"} => \A d \in Waiting : d.root = KernelRoot
  /\ stage \in {"image", "frame", "stack"} => cur # KernelRoot
  /\ stage = "image" => /\ \A d \in Known : d.root = cur => IsImage(cur, d)
                        /\ \A d \in Waiting : IsImage(cur, d)
  /\ stage = "frame" => /\ \A d \in Known : d.root = cur => IsImage(cur, d) \/ IsFrame(cur, d)
                        /\ \A d \in Waiting : IsFrame(cur, d)
  /\ stage = "stack" => \A d \in Waiting : OwnStack(cur, d)

LEMMA FitsPlaced ==
  ASSUME NEW d, RangeFits(d)
  PROVE  Placed(d)
  BY KernelPlaced, ImagePlaced, FramePlaced, StackPlaced DEF RangeFits, OwnStack

\* A page in use keeps its use.
UsesKept == \A g \in Frames : ~Free(g) => use'[g] = use[g]

LEMMA RootsKept == ASSUME UsesKept PROVE Roots \subseteq Roots'
  BY DEF UsesKept, Roots, Kind, Free

LEMMA OwnStackKept ==
  ASSUME UsesKept, NEW s, NEW d, OwnStack(s, d)
  PROVE  OwnStack(s, d)'
  <1>1. PICK page \in Nat : /\ d = StackAt(s, page)
                           /\ \A g \in Run(page) : g \in Frames => use[g] = Use("stack", s, 0, 0)
    BY DEF OwnStack
  <1>2. \A g \in Frames : use[g] = Use("stack", s, 0, 0) => use'[g] = use[g]
    BY DEF UsesKept, Free, Kind, Use
  <1> QED BY <1>1, <1>2 DEF OwnStack

LEMMA RangeFitsKept ==
  ASSUME UsesKept, NEW d, RangeFits(d)
  PROVE  RangeFits(d)'
  BY RootsKept, OwnStackKept DEF RangeFits

LEMMA NextUses == ASSUME IInv, [Next]_vars PROVE UsesKept
  <1>1. ASSUME TakesNoTable PROVE UsesKept
    BY <1>1 DEF TakesNoTable, UsesKept
  <1>2. ASSUME use' = use PROVE UsesKept
    BY <1>2 DEF UsesKept
  <1>3. ASSUME NEW f \in Frames, Free(f), NEW u, use' = [use EXCEPT ![f] = u] PROVE UsesKept
    BY <1>3 DEF UsesKept, IInv, TypeOK
  <1>4. ASSUME NEW f \in Frames, FreeRun(f), NEW u,
               use' = [g \in Frames |-> IF g \in Run(f) THEN u ELSE use[g]]
        PROVE  UsesKept
    BY <1>4 DEF UsesKept, FreeRun
  <1>5. CASE UNCHANGED vars \/ StartRange \/ MapDescend \/ FinishProcess \/ MapNoMemory \/ MapLeaf
             \/ \E d \in Devices : MapDevice(d)
    BY <1>2, <1>5 DEF vars, StartRange, MapDescend, FinishProcess, MapDevice, MapNoMemory, MapLeaf
  <1>6. CASE EnablePaging \/ KernelPage \/ MapTrapFrame
    BY <1>3, <1>6 DEF EnablePaging, KernelPage, MapTrapFrame, FirstFree, Take
  <1>7. CASE MapNewTable
    BY <1>3, <1>7, MapNewTableTab
  <1>8. CASE CreateProcess
    BY <1>3, <1>8, CreateProcessTab
  <1>9. CASE MapStack
    BY <1>2, <1>4, <1>9 DEF MapStack, FirstRun
  <1>10. CASE AllocFaults
    BY <1>2, <1>3, <1>4, <1>10 DEF AllocFaults, FirstFree, FirstRun, Take
  <1>11. CASE MapUnreachable
    BY <1>2, <1>3, <1>11 DEF MapUnreachable, FirstFree, Take
  <1> QED BY <1>5, <1>6, <1>7, <1>8, <1>9, <1>10, <1>11 DEF Next

\* Steps that bring no range.
LEMMA WorkShrinks ==
  ASSUME WorkFits, UsesKept, Known' \subseteq Known, Waiting' \subseteq Waiting, cur' = cur,
         \/ stage' = stage \/ stage' = "fault" \/ (stage' = "ready" /\ Waiting' = {})
  PROVE  WorkFits'
  <1>1. KernelRoot \in Roots'
    BY RootsKept DEF WorkFits
  <1>2. \A d \in Known' : RangeFits(d)'
    BY RangeFitsKept DEF WorkFits
  <1>3. \A c, d \in Known' : Agree(c, d)
    BY DEF WorkFits
  <1>4. CASE stage' = "fault" \/ (stage' = "ready" /\ Waiting' = {})
    BY <1>1, <1>2, <1>3, <1>4 DEF WorkFits
  <1>5. CASE stage' = stage
    <2>1. stage = "stack" => \A d \in Waiting' : OwnStack(cur, d)'
      BY OwnStackKept DEF WorkFits
    <2> QED BY <1>1, <1>2, <1>3, <1>5, <2>1 DEF WorkFits
  <1> QED BY <1>4, <1>5

\* Steps that bring ranges for one space, when none is waiting.
LEMMA WorkComes ==
  ASSUME WorkFits, UsesKept, Waiting = {}, done' = done, NEW s,
         \A d \in Waiting' : d.root = s /\ RangeFits(d)',
         \A c, d \in Waiting' : Agree(c, d),
         \A c \in done, d \in Waiting' : c.root = s => Agree(c, d) /\ Agree(d, c)
  PROVE  /\ KernelRoot \in Roots'
         /\ \A d \in Known' : RangeFits(d)'
         /\ \A c, d \in Known' : Agree(c, d)
  <1>1. KernelRoot \in Roots'
    BY RootsKept DEF WorkFits
  <1>2. \A d \in done : RangeFits(d)'
    BY RangeFitsKept DEF WorkFits, Known
  <1>3. Known' = done \cup Waiting'
    BY DEF Known
  <1>4. \A c, d \in done : Agree(c, d)
    BY DEF WorkFits, Known
  <1>5. \A c \in done, d \in Waiting' : Agree(c, d) /\ Agree(d, c)
    BY DEF Agree
  <1> QED BY <1>1, <1>2, <1>3, <1>4, <1>5

LEMMA OneWaits ==
  ASSUME NEW x, todo' = <<x>>, job' = NoJob
  PROVE  Waiting' = {x}
  BY DEF Waiting

LEMMA NothingWaits ==
  ASSUME Quiet
  PROVE  Waiting = {}
  BY DEF Quiet, Waiting

LEMMA IdentityWaits ==
  ASSUME NEW s, NEW rs \in Seq(KernelRange), todo' = Identity(s, rs), job' = NoJob
  PROVE  \A d \in Waiting' :
           \E n \in 1..Len(rs) : d = Range(s, rs[n].start, rs[n].end, rs[n].start, rs[n].bits)
  <1>1. Len(todo') = Len(rs)
        /\ \A n \in 1..Len(rs) :
             todo'[n] = Range(s, rs[n].start, rs[n].end, rs[n].start, rs[n].bits)
    BY DEF Identity
  <1> QED BY <1>1 DEF Waiting

LEMMA InitWork == ASSUME Init PROVE WorkFits
  <1>1. todo = Identity(KernelRoot, Defaults) /\ job = NoJob /\ done = {}
        /\ stage = "defaults" /\ Defaults \in Seq(KernelRange)
    BY TableAssumption DEF Init, SystemDefaults
  <1>2. Len(todo) = Len(Defaults)
        /\ \A n \in 1..Len(Defaults) :
             todo[n] = Range(KernelRoot, Defaults[n].start, Defaults[n].end,
                             Defaults[n].start, Defaults[n].bits)
    BY <1>1 DEF Identity
  <1>3. \A d \in Waiting : IsKernel(d)
    BY <1>1, <1>2 DEF Waiting, IsKernel, KernelRanges
  <1>4. KernelRoot \in Roots
    BY TableAssumption DEF Init, Roots, Kind, Use
  <1>5. \A d \in Known : IsKernel(d) /\ d.root = KernelRoot
    BY <1>1, <1>3, KernelPlaced DEF Known
  <1>6. \A c, d \in Known : Agree(c, d)
    BY <1>5, KernelPlaced, AgreeIdentity
  <1> QED BY <1>1, <1>4, <1>5, <1>6 DEF WorkFits, RangeFits, Known

LEMMA DeviceWork ==
  ASSUME IInv, WorkFits, UsesKept, NEW dev \in Devices, MapDevice(dev)
  PROVE  WorkFits'
  <1>1. /\ Quiet /\ stage = "ready" /\ stage' = stage /\ cur' = cur /\ done' = done
        /\ job' = NoJob /\ todo' = Identity(KernelRoot, <<dev>>)
    BY DEF MapDevice, Quiet
  <1>2. <<dev>> \in Seq(KernelRange) /\ Len(<<dev>>) = 1 /\ <<dev>>[1] = dev
    BY TableAssumption
  <1>3. \A d \in Waiting' : d = Range(KernelRoot, dev.start, dev.end, dev.start, dev.bits)
    <2> DEFINE rs == <<dev>>
    <2> HIDE DEF rs
    <2>1. rs \in Seq(KernelRange) /\ Len(rs) = 1 /\ rs[1] = dev /\ todo' = Identity(KernelRoot, rs)
      BY <1>1, <1>2 DEF rs
    <2>2. \A d \in Waiting' :
            \E n \in 1..Len(rs) :
              d = Range(KernelRoot, rs[n].start, rs[n].end, rs[n].start, rs[n].bits)
      BY <1>1, <2>1, IdentityWaits
    <2> QED BY <2>1, <2>2
  <1>4. \A d \in Waiting' : IsKernel(d) /\ d.root = KernelRoot
    BY <1>3, KernelPlaced DEF IsKernel, KernelRanges
  <1>5. KernelRoot \in Roots'
    BY RootsKept DEF WorkFits
  <1>6. \A d \in Waiting' : RangeFits(d)'
    BY <1>4, <1>5 DEF RangeFits
  <1>7. \A d \in done : d.root = KernelRoot => IsKernel(d)
    BY DEF WorkFits, Known, RangeFits
  <1>8. /\ \A c, d \in Waiting' : Agree(c, d)
        /\ \A c \in done, d \in Waiting' : c.root = KernelRoot => Agree(c, d) /\ Agree(d, c)
    BY <1>4, <1>7, KernelPlaced, AgreeIdentity
  <1>9. Waiting = {}
    BY <1>1, NothingWaits
  <1>10. /\ KernelRoot \in Roots'
         /\ \A d \in Known' : RangeFits(d)'
         /\ \A c, d \in Known' : Agree(c, d)
    BY <1>1, <1>4, <1>6, <1>8, <1>9, WorkComes
  <1> QED BY <1>1, <1>4, <1>10 DEF WorkFits

LEMMA ProcessWork ==
  ASSUME IInv, WorkFits, UsesKept, CreateProcess
  PROVE  WorkFits'
  <1>1. PICK f \in Frames :
          /\ Free(f) /\ job = NoJob
          /\ use' = [use EXCEPT ![f] = Use("root", f, 0, 0)]
          /\ cur' = f /\ todo' = Identity(f, Image)
    BY CreateProcessTab
  <1>2. Quiet /\ job' = NoJob /\ done' = done /\ stage' = "image" /\ Image \in Seq(KernelRange)
    BY TableAssumption DEF CreateProcess, Quiet
  <1>3. f \in Roots' /\ f \notin Roots
    BY <1>1 DEF IInv, TypeOK, Roots, Kind, Use, Free
  <1>4. f # KernelRoot
    BY <1>3 DEF WorkFits
  <1>5. \A d \in Waiting' : IsImage(f, d) /\ d.root = f
    <2>1. \A d \in Waiting' :
            \E n \in 1..Len(Image) :
              d = Range(f, Image[n].start, Image[n].end, Image[n].start, Image[n].bits)
      BY <1>1, <1>2, IdentityWaits
    <2>2. \A d \in Waiting' : IsImage(f, d)
      BY <2>1 DEF IsImage, ImageRanges
    <2> QED BY <2>2, ImagePlaced
  <1>6. \A d \in Waiting' : RangeFits(d)'
    BY <1>3, <1>4, <1>5 DEF RangeFits
  <1>7. \A d \in done : d.root # f
    BY <1>3 DEF WorkFits, Known, RangeFits
  <1>8. \A c, d \in Waiting' : Agree(c, d)
    BY <1>5, ImagePlaced, AgreeIdentity
  <1>9. Waiting = {}
    BY <1>2, NothingWaits
  <1>10. /\ KernelRoot \in Roots'
         /\ \A d \in Known' : RangeFits(d)'
         /\ \A c, d \in Known' : Agree(c, d)
    BY <1>2, <1>5, <1>6, <1>7, <1>8, <1>9, WorkComes
  <1>11. \A d \in Known' : d.root = f => IsImage(f, d)
    BY <1>2, <1>5, <1>7 DEF Known
  <1> QED BY <1>1, <1>2, <1>4, <1>5, <1>10, <1>11 DEF WorkFits

LEMMA FrameWork ==
  ASSUME IInv, WorkFits, UsesKept, MapTrapFrame
  PROVE  WorkFits'
  <1>0. PICK s \in Frames : s = cur
    BY DEF IInv, TypeOK
  <1>1. PICK f \in Frames : todo' = <<FrameAt(s, f)>>
    BY <1>0 DEF MapTrapFrame
  <1>2. /\ Quiet /\ stage = "image" /\ stage' = "frame" /\ cur = s /\ cur' = s /\ done' = done
        /\ job' = NoJob
    BY <1>0 DEF MapTrapFrame, Quiet
  <1> DEFINE x == FrameAt(s, f)
  <1>3. IsFrame(s, x) /\ Waiting' = {x}
    BY <1>1, <1>2, OneWaits DEF IsFrame
  <1> HIDE DEF x
  <1>4. x.root = s /\ Placed(x) /\ \A k \in Turns(x) : VP(x, k) \in FramePages
    BY <1>3, FramePlaced
  <1>5. s # KernelRoot /\ s \in Roots'
    BY <1>2, RootsKept DEF WorkFits, IInv, TodoFits
  <1>6. RangeFits(x)'
    BY <1>3, <1>4, <1>5 DEF RangeFits
  <1>7. \A d \in done : d.root = s => IsImage(s, d)
    BY <1>2 DEF WorkFits, Known
  <1>8. \A c \in done : c.root = s => Agree(c, x) /\ Agree(x, c)
    <2> SUFFICES ASSUME NEW c \in done, c.root = s PROVE Agree(c, x) /\ Agree(x, c)
      OBVIOUS
    <2>1. Placed(c) /\ \A k \in Turns(c) : VP(c, k) \in ImagePages
      BY <1>7, ImagePlaced
    <2>2. \A j \in Turns(c), k \in Turns(x) : VP(c, j) # VP(x, k)
      BY <1>4, <2>1, LayoutAssumption
    <2> QED BY <1>4, <2>1, <2>2, AgreeApart
  <1>9. \A c, d \in Waiting' : Agree(c, d)
    BY <1>3, <1>4, AgreeSelf
  <1>10. Waiting = {}
    BY <1>2, NothingWaits
  <1>11. /\ KernelRoot \in Roots'
         /\ \A d \in Known' : RangeFits(d)'
         /\ \A c, d \in Known' : Agree(c, d)
    BY <1>2, <1>3, <1>4, <1>6, <1>8, <1>9, <1>10, WorkComes
  <1>12. \A d \in Known' : d.root = s => IsImage(s, d) \/ IsFrame(s, d)
    BY <1>2, <1>3, <1>7 DEF Known
  <1> QED BY <1>2, <1>3, <1>5, <1>11, <1>12 DEF WorkFits

LEMMA StackWork ==
  ASSUME IInv, WorkFits, UsesKept, MapStack
  PROVE  WorkFits'
  <1>0. PICK s \in Frames : s = cur
    BY DEF IInv, TypeOK
  <1>1. PICK page \in Nat :
          /\ todo' = <<StackAt(s, page)>>
          /\ \A g \in Run(page) : g \in Frames => use'[g] = Use("stack", s, 0, 0)
    <2>1. CASE \E f \in Frames :
                 /\ use' = [g \in Frames |-> IF g \in Run(f) THEN Use("stack", cur, 0, 0)
                                             ELSE use[g]]
                 /\ MapStackAt(f)
      BY <1>0, <2>1, TableAssumption DEF MapStackAt
    <2>2. CASE MapStackAt(0)
      <3>1. \A g \in Run(0) : g \notin Frames
        BY LayoutAssumption, TableAssumption DEF Run
      <3> QED BY <1>0, <2>2, <3>1 DEF MapStackAt
    <2> QED BY <2>1, <2>2 DEF MapStack
  <1>2. /\ Quiet /\ stage = "frame" /\ stage' = "stack" /\ cur = s /\ cur' = s /\ done' = done
        /\ job' = NoJob
    BY <1>0 DEF MapStack, MapStackAt, Quiet
  <1> DEFINE x == StackAt(s, page)
  <1>3. OwnStack(s, x)' /\ Waiting' = {x}
    BY <1>1, <1>2, OneWaits DEF OwnStack
  <1>4. x.root = s /\ Placed(x) /\ \A k \in Turns(x) : VP(x, k) \in UserStackPages
    BY StackPlaced
  <1> HIDE DEF x
  <1>5. s # KernelRoot /\ s \in Roots'
    BY <1>2, RootsKept DEF WorkFits, IInv, TodoFits
  <1>6. RangeFits(x)'
    BY <1>2, <1>3, <1>4, <1>5 DEF RangeFits
  <1>7. \A d \in done : d.root = s => IsImage(s, d) \/ IsFrame(s, d)
    BY <1>2 DEF WorkFits, Known
  <1>8. \A c \in done : c.root = s => Agree(c, x) /\ Agree(x, c)
    <2> SUFFICES ASSUME NEW c \in done, c.root = s PROVE Agree(c, x) /\ Agree(x, c)
      OBVIOUS
    <2>1. Placed(c) /\ \A k \in Turns(c) : VP(c, k) \in ImagePages \cup FramePages
      BY <1>7, ImagePlaced, FramePlaced
    <2>2. \A j \in Turns(c), k \in Turns(x) : VP(c, j) # VP(x, k)
      BY <1>4, <2>1, LayoutAssumption
    <2> QED BY <1>4, <2>1, <2>2, AgreeApart
  <1>9. \A c, d \in Waiting' : Agree(c, d)
    BY <1>3, <1>4, AgreeSelf
  <1>10. Waiting = {}
    BY <1>2, NothingWaits
  <1>11. /\ KernelRoot \in Roots'
         /\ \A d \in Known' : RangeFits(d)'
         /\ \A c, d \in Known' : Agree(c, d)
    BY <1>2, <1>3, <1>4, <1>6, <1>8, <1>9, <1>10, WorkComes
  <1> QED BY <1>2, <1>3, <1>5, <1>11 DEF WorkFits

LEMMA StartWork ==
  ASSUME IInv, WorkFits, UsesKept, StartRange
  PROVE  WorkFits'
  <1>1. /\ job = NoJob /\ todo # <<>> /\ todo' = Tail(todo) /\ todo \in Seq(Ranges)
        /\ done' = done /\ cur' = cur /\ stage' = stage
        /\ job' = NoJob \/ job'.range = Head(todo)
    BY DEF StartRange, IInv, TypeOK
  <1>2. Head(todo) = todo[1] /\ Len(todo) \in Nat /\ Len(todo) > 0
        /\ Len(todo') = Len(todo) - 1 /\ \A n \in 1..Len(todo') : todo'[n] = todo[n + 1]
    BY <1>1
  <1>3. Waiting' \subseteq Waiting
    BY <1>1, <1>2 DEF Waiting
  <1> QED BY <1>1, <1>3, WorkShrinks DEF Known

LEMMA LeafWork ==
  ASSUME IInv, WorkFits, UsesKept, MapLeaf
  PROVE  WorkFits'
  <1>1. /\ job # NoJob /\ job' = NextPage /\ todo' = todo /\ cur' = cur /\ stage' = stage
        /\ done' = IF job' = NoJob THEN done \cup {job.range} ELSE done
    BY DEF MapLeaf, Walking
  <1>2. job \in Jobs
    BY <1>1, JobTypes
  <1>3. job' = NoJob \/ job'.range = job.range
    BY <1>1, <1>2 DEF NextPage, Jobs
  <1>4. Waiting' \subseteq Waiting
    BY <1>1, <1>3 DEF Waiting
  <1>5. job.range \in Waiting
    BY <1>1 DEF Waiting
  <1>6. Known' \subseteq Known
    BY <1>1, <1>4, <1>5 DEF Known
  <1> QED BY <1>1, <1>4, <1>6, WorkShrinks

LEMMA NextWork == ASSUME IInv, WorkFits, [Next]_vars PROVE WorkFits'
  <1>0. UsesKept
    BY NextUses
  <1>1. ASSUME todo' = todo, job' = job, done' = done, cur' = cur,
               stage' = stage \/ stage' = "fault"
        PROVE  WorkFits'
    <2>1. Waiting' = Waiting /\ Known' = Known
      BY <1>1 DEF Waiting, Known
    <2> QED BY <1>0, <1>1, <2>1, WorkShrinks
  <1>2. CASE UNCHANGED vars \/ MapNoMemory \/ MapUnreachable \/ KernelPage \/ AllocFaults
    BY <1>1, <1>2 DEF vars, MapNoMemory, MapUnreachable, KernelPage, AllocFaults
  <1>3. CASE MapDescend \/ MapNewTable
    <2>1. /\ job # NoJob /\ todo' = todo /\ done' = done /\ cur' = cur /\ stage' = stage
          /\ \E f \in Frames : job' = Down(f)
      BY <1>3 DEF MapDescend, MapNewTable, Walking
    <2>2. job \in Jobs
      BY <2>1, JobTypes
    <2>3. job'.range = job.range
      BY <2>1, <2>2 DEF Down, Jobs
    <2>4. Waiting' \subseteq Waiting
      BY <2>1, <2>3 DEF Waiting
    <2> QED BY <1>0, <2>1, <2>4, WorkShrinks DEF Known
  <1>4. CASE EnablePaging \/ FinishProcess
    <2>1. /\ Quiet /\ todo' = todo /\ job' = job /\ done' = done /\ cur' = cur
          /\ stage' = "ready"
      BY <1>4 DEF EnablePaging, FinishProcess
    <2>2. Waiting = {} /\ Waiting' = {}
      BY <2>1, NothingWaits DEF Waiting
    <2> QED BY <1>0, <2>1, <2>2, WorkShrinks DEF Known
  <1>5. CASE \E d \in Devices : MapDevice(d)
    BY <1>0, <1>5, DeviceWork
  <1> QED
    BY <1>0, <1>2, <1>3, <1>4, <1>5, StartWork, LeafWork, ProcessWork, FrameWork, StackWork
    DEF Next

WorkInv == IInv /\ WorkFits

LEMMA WorkInvariant == Spec => []WorkInv
  <1>1. Init => WorkInv
    BY InitInv, InitWork DEF WorkInv
  <1>2. WorkInv /\ [Next]_vars => WorkInv'
    BY NextInv, NextWork DEF WorkInv
  <1> QED BY <1>1, <1>2, PTL DEF Spec

-----------------------------------------------------------------------------
(* What has been mapped stays mapped. *)

Mapped(d, k) ==
  LET e == Walk(tab, d.root, Vpn(VP(d, k)))
  IN  e.valid /\ e.ppn = PP(d, k) /\ d.bits \subseteq e.rights

\* The number of pages of the range that are behind the loop of map_range.
Behind == PagesOf(job.range) - job.left

\* Every page of a range that is done is mapped, and so is every page of the
\* range at work that the loop has passed.
Progress ==
  /\ \A d \in done : \A k \in Turns(d) : Mapped(d, k)
  /\ job # NoJob =>
       /\ Behind \in Turns(job.range)
       /\ job.vp = VP(job.range, Behind) /\ job.pp = PP(job.range, Behind)
       /\ \A k \in 0..(Behind - 1) : Mapped(job.range, k)

WalksKept == \A r \in Roots, p \in VirtualPages : Walk(tab', r, p) = Walk(tab, r, p)

LEMMA MappedKept ==
  ASSUME WorkFits, WalksKept, NEW d \in Known, NEW k \in Turns(d), Mapped(d, k)
  PROVE  Mapped(d, k)'
  <1>1. d.root \in Roots /\ VP(d, k) \in Nat
    BY FitsPlaced DEF WorkFits, RangeFits, Placed
  <1>2. Vpn(VP(d, k)) \in VirtualPages
    BY <1>1, VpnType
  <1> QED BY <1>1, <1>2 DEF Mapped, WalksKept

\* Steps that change no translation.
LEMMA ProgressKept ==
  ASSUME WorkInv, Progress, WalksKept, done' = done,
         \/ job' = NoJob
         \/ job' = job
         \/ job # NoJob /\ \E f \in Frames : job' = Down(f)
  PROVE  Progress'
  <1>1. \A d \in done' : \A k \in Turns(d) : Mapped(d, k)'
    BY MappedKept DEF WorkInv, Progress, Known
  <1>2. CASE job' = NoJob
    BY <1>1, <1>2 DEF Progress
  <1>3. CASE job # NoJob /\ job' # NoJob
    <2>1. job \in Jobs
      BY <1>3, JobTypes DEF WorkInv
    <2>2. job'.range = job.range /\ job'.vp = job.vp /\ job'.pp = job.pp /\ job'.left = job.left
      BY <1>3, <2>1 DEF Down, Jobs
    <2>3. Behind' = Behind
      BY <2>2 DEF Behind
    <2>4. PICK d \in Known : d = job.range
      BY <1>3 DEF Known, Waiting
    <2>5. PICK n \in Turns(d) : n = Behind
      BY <1>3, <2>4 DEF Progress
    <2>6. \A k \in 0..(n - 1) : k \in Turns(d)
      BY <2>4, <2>5, FitsPlaced DEF Turns, WorkInv, WorkFits, Placed
    <2>7. \A k \in 0..(n - 1) : Mapped(d, k)'
      BY <1>3, <2>4, <2>5, <2>6, MappedKept DEF Progress, WorkInv
    <2> QED BY <1>1, <1>3, <2>2, <2>3, <2>4, <2>5, <2>7 DEF Progress
  <1> QED BY <1>2, <1>3

LEMMA StartProgress ==
  ASSUME WorkInv, Progress, StartRange
  PROVE  Progress'
  <1>1. job = NoJob /\ tab' = tab /\ done' = done /\ todo # <<>> /\ todo \in Seq(Ranges)
    BY DEF StartRange, WorkInv, IInv, TypeOK
  <1>2. WalksKept
    BY <1>1 DEF WalksKept
  <1>3. CASE job' = NoJob
    BY <1>1, <1>2, <1>3, ProgressKept
  <1>4. CASE job' # NoJob
    <2>1. PICK r \in Ranges : r = Head(todo)
      BY <1>1
    <2>2. /\ PagesOf(r) > 0 /\ job'.range = r /\ job'.left = PagesOf(r)
          /\ job'.vp = r.start \div PageSize /\ job'.pp = r.phys \div PageSize
      BY <1>4, <2>1 DEF StartRange
    <2>3. r \in Known
      BY <1>1, <2>1 DEF Known, Waiting
    <2>4. Placed(r)
      BY <2>3, FitsPlaced DEF WorkInv, WorkFits
    <2>5. Behind' = 0 /\ 0 \in Turns(r)
      BY <2>2, <2>4 DEF Behind, Placed, Turns
    <2>6. job'.vp = VP(r, 0) /\ job'.pp = PP(r, 0)
      BY <2>2, <2>4 DEF VP, PP, Placed
    <2>7. \A d \in done' : \A k \in Turns(d) : Mapped(d, k)'
      BY <1>1, <1>2, MappedKept DEF WorkInv, Progress, Known
    <2> QED BY <2>2, <2>5, <2>6, <2>7 DEF Progress
  <1> QED BY <1>3, <1>4

\* The leaf is written where no other range sends the page elsewhere.
LEMMA LeafMapped ==
  ASSUME WorkInv, IInv', Progress, MapLeaf, NEW d \in Known, NEW k \in Turns(d),
         Mapped(d, k) \/ (d = job.range /\ k = Behind)
  PROVE  Mapped(d, k)'
  <1> DEFINE s == job.range.root
             q == Vpn(job.vp)
             p == Vpn(VP(d, k))
  <1>1. /\ Walk(tab', s, q).valid /\ Walk(tab', s, q).ppn = job.pp
        /\ Walk(tab', s, q).rights = Walk(tab, s, q).rights \cup job.range.bits
        /\ \A r \in Roots, v \in VirtualPages :
             <<r, v>> # <<s, q>> => Walk(tab', r, v) = Walk(tab, r, v)
    BY LeafSpaces DEF WorkInv
  <1>2. job # NoJob
    BY DEF MapLeaf, Walking
  <1>3. job.range \in Known
    BY <1>2 DEF Known, Waiting
  <1>4. d.root \in Roots /\ p \in VirtualPages
    BY FitsPlaced, VpnType DEF WorkInv, WorkFits, RangeFits, Placed
  <1>5. Behind \in Turns(job.range) /\ q = Vpn(VP(job.range, Behind))
        /\ job.pp = PP(job.range, Behind)
    BY <1>2 DEF Progress
  <1>6. CASE d = job.range /\ k = Behind
    <2>1. d.root = s /\ p = q /\ PP(d, k) = job.pp
      BY <1>5, <1>6
    <2> HIDE DEF s, q, p
    <2> QED BY <1>1, <1>6, <2>1 DEF Mapped, p
  <1>7. CASE Mapped(d, k) /\ <<d.root, p>> # <<s, q>>
    BY <1>1, <1>4, <1>7 DEF Mapped
  <1>8. CASE Mapped(d, k) /\ d.root = s /\ p = q
    <2>1. Agree(d, job.range)
      BY <1>3 DEF WorkInv, WorkFits
    <2>2. PP(d, k) = job.pp
      BY <1>5, <1>8, <2>1 DEF Agree
    <2>3. d.bits \subseteq Walk(tab, s, q).rights
      BY <1>8 DEF Mapped
    <2> HIDE DEF s, q, p
    <2> QED BY <1>1, <1>8, <2>2, <2>3 DEF Mapped, p
  <1> QED BY <1>6, <1>7, <1>8

LEMMA LeafProgress ==
  ASSUME WorkInv, IInv', Progress, MapLeaf
  PROVE  Progress'
  <1>1. /\ job # NoJob /\ job' = NextPage
        /\ done' = IF job' = NoJob THEN done \cup {job.range} ELSE done
    BY DEF MapLeaf, Walking
  <1>2. job \in Jobs /\ job.left \in Nat \ {0} /\ job.vp \in Nat /\ job.pp \in Nat
    BY <1>1, JobTypes DEF WorkInv, Jobs
  <1>3. PICK d \in Known : d = job.range
    BY <1>1 DEF Known, Waiting
  <1>4. PICK n \in Turns(d) : n = Behind
    BY <1>1, <1>3 DEF Progress
  <1>5. Placed(d)
    BY FitsPlaced DEF WorkInv, WorkFits
  <1>6. PagesOf(d) \in Int /\ n \in Nat /\ n = PagesOf(d) - job.left
    BY <1>3, <1>4, <1>5 DEF Placed, Behind, Turns
  <1>7. ASSUME NEW k \in 0..n PROVE Mapped(d, k)'
    <2>1. k \in Turns(d) /\ (k = n \/ k \in 0..(n - 1))
      BY <1>6, <1>4 DEF Turns
    <2>2. k \in 0..(n - 1) => Mapped(d, k)
      BY <1>1, <1>3, <1>4 DEF Progress
    <2> QED BY <1>3, <1>4, <2>1, <2>2, LeafMapped
  <1>8. \A c \in done : \A k \in Turns(c) : Mapped(c, k)'
    BY LeafMapped DEF Progress, Known
  <1>9. CASE job.left > 1
    <2>1. job' = [job EXCEPT !.vp = @ + 1, !.pp = @ + 1, !.left = @ - 1, !.level = 2,
                             !.at = job.range.root]
      BY <1>1, <1>9 DEF NextPage
    <2>2. job'.range = d /\ job'.left = job.left - 1 /\ job'.vp = job.vp + 1
          /\ job'.pp = job.pp + 1
      BY <1>2, <1>3, <2>1 DEF Jobs
    <2>3. job' # NoJob
      BY <1>2, <1>9, <2>2 DEF NoJob
    <2>4. Behind' = n + 1 /\ n + 1 \in Turns(d)
      BY <1>2, <1>6, <1>9, <2>2 DEF Behind, Turns
    <2>5. job.vp = VP(d, n) /\ job.pp = PP(d, n)
      BY <1>1, <1>3, <1>4 DEF Progress
    <2>6. job'.vp = VP(d, n + 1) /\ job'.pp = PP(d, n + 1)
      BY <1>5, <1>6, <2>2, <2>5 DEF VP, PP, Placed
    <2>7. \A k \in 0..(Behind' - 1) : Mapped(d, k)'
      BY <1>6, <1>7, <2>4
    <2>8. \A k \in 0..(Behind' - 1) : Mapped(job.range, k)'
      BY <2>2, <2>7 DEF Mapped
    <2>9. done' = done
      BY <1>1, <2>3
    <2> QED BY <1>8, <2>2, <2>4, <2>6, <2>8, <2>9 DEF Progress
  <1>10. CASE ~(job.left > 1)
    <2>1. job' = NoJob /\ done' = done \cup {d}
      BY <1>1, <1>3, <1>10 DEF NextPage
    <2>2. Turns(d) \subseteq 0..n
      BY <1>2, <1>6, <1>10 DEF Turns
    <2>3. \A c \in done' : \A k \in Turns(c) : Mapped(c, k)'
      BY <1>7, <1>8, <2>1, <2>2
    <2> QED BY <2>1, <2>3 DEF Progress
  <1> QED BY <1>9, <1>10

LEMMA NextProgress ==
  ASSUME WorkInv, WorkInv', Progress, [Next]_vars
  PROVE  Progress'
  <1>0. IInv /\ IInv' /\ TypeOK
    BY DEF WorkInv, IInv
  <1>1. ASSUME SpacesKept \/ tab' = tab PROVE WalksKept
    BY <1>1 DEF SpacesKept, WalksKept
  <1>2. CASE UNCHANGED vars
    BY <1>1, <1>2, ProgressKept DEF vars
  <1>3. CASE MapNoMemory
    BY <1>0, <1>1, <1>3, NoMemorySpaces, ProgressKept DEF MapNoMemory
  <1>4. CASE MapDescend
    <2>1. tab' = tab /\ done' = done /\ job # NoJob /\ \E f \in Frames : job' = Down(f)
      BY <1>4 DEF MapDescend, Walking
    <2> QED BY <1>1, <2>1, ProgressKept
  <1>5. CASE MapNewTable
    <2>1. done' = done /\ job # NoJob /\ \E f \in Frames : job' = Down(f)
      BY <1>5 DEF MapNewTable, Walking
    <2> QED BY <1>0, <1>1, <1>5, <2>1, NewTableSpaces, ProgressKept
  <1>6. CASE EnablePaging \/ KernelPage \/ MapTrapFrame \/ MapStack \/ AllocFaults \/ MapUnreachable
             \/ FinishProcess \/ \E d \in Devices : MapDevice(d)
    <2>1. tab' = tab /\ done' = done /\ job' = job
      BY <1>6 DEF EnablePaging, KernelPage, MapTrapFrame, MapStack, MapStackAt, AllocFaults,
                  MapUnreachable, FinishProcess, MapDevice
    <2> QED BY <1>1, <2>1, ProgressKept
  <1>7. CASE CreateProcess
    <2>1. done' = done /\ job' = job
      BY <1>7 DEF CreateProcess
    <2>2. WalksKept
      BY <1>0, <1>7, CreateWalks DEF WalksKept
    <2> QED BY <2>1, <2>2, ProgressKept
  <1> QED BY <1>0, <1>2, <1>3, <1>4, <1>5, <1>6, <1>7, StartProgress, LeafProgress DEF Next

LEMMA InitProgress == ASSUME Init PROVE Progress
  BY DEF Init, Progress

LEMMA ProgressInvariant == Spec => []Progress
  <1>1. Init => Progress
    BY InitProgress
  <1>2. WorkInv /\ WorkInv' /\ Progress /\ [Next]_vars => Progress'
    BY NextProgress
  <1> QED BY <1>1, <1>2, WorkInvariant, PTL DEF Spec

\* The page of a byte of the range is one of the loop's, and the byte goes to
\* the byte it was mapped to.
LEMMA ByteOfRange ==
  ASSUME NEW d, d.start \in Nat, d.end \in Nat, d.phys \in Nat,
         d.phys % PageSize = d.start % PageSize, NEW b \in d.start..(d.end - 1),
         NEW k, k = (b \div PageSize) - (d.start \div PageSize)
  PROVE  /\ k \in Nat /\ k < PagesOf(d)
         /\ PP(d, k) * PageSize + (b % PageSize) = d.phys + (b - d.start)
  <1> DEFINE P == PageSize
             start == d.start
             end == d.end
             phys == d.phys
             sq == start \div P
             bq == b \div P
             pq == phys \div P
             eq == (end + P - 1) \div P
             sr == start % P
             br == b % P
             er == (end + P - 1) % P
  <1>0. P \in Nat \ {0} /\ start \in Nat /\ end \in Nat /\ phys \in Nat /\ b \in start..(end - 1)
    BY TableAssumption
  <1>1. /\ b \in Nat /\ end + P - 1 \in Nat /\ start <= b /\ b <= end - 1
        /\ P \in Nat \ {0} /\ start \in Nat /\ end \in Nat /\ phys \in Nat
    <2> HIDE DEF P, start, end, phys
    <2> QED BY <1>0
  <1>2. /\ start = sq * P + sr /\ sq \in Nat /\ sr \in Nat /\ sr < P
        /\ b = bq * P + br /\ bq \in Nat /\ br \in Nat /\ br < P
        /\ phys = pq * P + sr /\ pq \in Nat
    BY <1>1, Division
  <1>3. end + P - 1 = eq * P + er /\ eq \in Nat /\ er \in Nat /\ er < P
    BY <1>1, Division
  <1> HIDE DEF P, start, end, phys, sq, bq, pq, eq, sr, br, er
  <1>4. bq >= sq
    <2> SUFFICES ASSUME bq + 1 <= sq PROVE FALSE
      BY <1>1, <1>2
    <2>1. (bq + 1) * P <= sq * P
      BY <1>1, <1>2
    <2>2. (bq + 1) * P = bq * P + P
      BY <1>1, <1>2
    <2> QED BY <1>1, <1>2, <2>1, <2>2
  <1>5. bq + 1 <= eq
    <2> SUFFICES ASSUME eq <= bq PROVE FALSE
      BY <1>1, <1>2, <1>3
    <2>1. eq * P <= bq * P
      BY <1>1, <1>2, <1>3
    <2> QED BY <1>1, <1>2, <1>3, <2>1
  <1>9. k = bq - sq
    BY DEF bq, sq, P, start
  <1>6. k \in Nat /\ k < eq - sq
    BY <1>1, <1>2, <1>9, <1>3, <1>4, <1>5
  <1>7. (pq + k) * P = pq * P + bq * P - sq * P
    BY <1>1, <1>2, <1>9, <1>4
  <1>8. (pq + k) * P + br = phys + (b - start)
    BY <1>1, <1>2, <1>6, <1>7
  <1> QED BY <1>6, <1>8 DEF PagesOf, PP, P, start, end, phys, sq, bq, pq, eq, br

\* A range that map_range has mapped - the kernel's heap and sections, a device,
\* a trap frame, a stack - stays mapped to the bytes and with the rights asked
\* for, whatever ranges are mapped, and whatever processes created, after it.
THEOREM RangesRemainMapped == Spec => []RangesStayMapped
  <1>1. WorkInv /\ Progress => RangesStayMapped
    <2> SUFFICES ASSUME WorkInv, Progress, NEW d \in done, NEW b \in d.start..(d.end - 1)
                 PROVE  LET e == Translate(d.root, b \div PageSize)
                        IN  /\ e.valid
                            /\ (e.ppn * PageSize) + (b % PageSize) = d.phys + (b - d.start)
                            /\ d.bits \subseteq e.rights
      BY DEF RangesStayMapped
    <2>1. d.start \in Nat /\ d.end \in Nat /\ d.phys \in Nat /\ PageSize \in Nat \ {0}
      BY TableAssumption DEF WorkInv, IInv, TypeOK, Ranges
    <2>2. Placed(d)
      BY FitsPlaced DEF WorkInv, WorkFits, Known
    <2> DEFINE k == (b \div PageSize) - (d.start \div PageSize)
    <2>3. /\ k \in Nat /\ k < PagesOf(d)
          /\ PP(d, k) * PageSize + (b % PageSize) = d.phys + (b - d.start)
      <3>1. d.phys % PageSize = d.start % PageSize
        BY <2>2 DEF Placed
      <3>2. PICK j : j = k
        OBVIOUS
      <3>3. j = (b \div PageSize) - (d.start \div PageSize)
        BY <3>2
      <3> HIDE DEF k
      <3>4. /\ j \in Nat /\ j < PagesOf(d)
            /\ PP(d, j) * PageSize + (b % PageSize) = d.phys + (b - d.start)
        BY <2>1, <3>1, <3>3, ByteOfRange, Zenon
      <3> QED BY <3>2, <3>4
    <2>4. b \in Nat /\ b \div PageSize \in Nat /\ d.start \div PageSize \in Nat
      <3>1. b \in Nat
        BY <2>1
      <3> QED BY <2>1, <3>1, DivMod
    <2>5. VP(d, k) = b \div PageSize
      BY <2>4 DEF VP
    <2> HIDE DEF k
    <2>6. k \in Turns(d)
      BY <2>2, <2>3 DEF Turns, Placed
    <2>7. Mapped(d, k)
      BY <2>6 DEF Progress
    <2> QED BY <2>3, <2>5, <2>7 DEF Mapped, Translate
  <1> QED BY <1>1, WorkInvariant, ProgressInvariant, PTL

-----------------------------------------------------------------------------
(* What user mode reaches. *)

\* No range with a page is forgotten.
LEMMA KnownKept ==
  ASSUME IInv, [Next]_vars, NEW d \in Known, NEW k \in Turns(d)
  PROVE  d \in Known'
  <1>0. todo \in Seq(Ranges) /\ (job # NoJob => job \in Jobs)
    BY DEF IInv, TypeOK
  <1>1. ASSUME todo' = todo, job' = job, done' = done PROVE d \in Known'
    BY <1>1 DEF Known, Waiting
  <1>2. ASSUME Quiet, done' = done PROVE d \in Known'
    BY <1>2, NothingWaits DEF Known
  <1>3. CASE UNCHANGED vars \/ MapNoMemory \/ MapUnreachable
    BY <1>1, <1>3 DEF vars, MapNoMemory, MapUnreachable
  <1>4. CASE EnablePaging \/ KernelPage \/ CreateProcess \/ MapTrapFrame \/ MapStack
             \/ FinishProcess \/ AllocFaults \/ \E x \in Devices : MapDevice(x)
    <2>1. Quiet /\ done' = done
      BY <1>4 DEF EnablePaging, KernelPage, CreateProcess, MapTrapFrame, MapStack, MapStackAt,
                  FinishProcess, AllocFaults, MapDevice
    <2> QED BY <1>2, <2>1
  <1>5. CASE MapDescend \/ MapNewTable
    <2>1. job # NoJob /\ todo' = todo /\ done' = done /\ \E f \in Frames : job' = Down(f)
      BY <1>5 DEF MapDescend, MapNewTable, Walking
    <2>2. job'.range = job.range /\ job'.left # 0
      BY <1>0, <2>1 DEF Down, Jobs
    <2>3. job' # NoJob
      BY <2>2 DEF NoJob
    <2> QED BY <2>1, <2>2, <2>3 DEF Known, Waiting
  <1>6. CASE MapLeaf
    <2>1. /\ job # NoJob /\ job' = NextPage /\ todo' = todo
          /\ done' = IF job' = NoJob THEN done \cup {job.range} ELSE done
      BY <1>6 DEF MapLeaf, Walking
    <2>2. job' = NoJob \/ job'.range = job.range
      BY <1>0, <2>1 DEF NextPage, Jobs
    <2> QED BY <2>1, <2>2 DEF Known, Waiting
  <1>7. CASE StartRange
    <2>1. /\ job = NoJob /\ todo # <<>> /\ todo' = Tail(todo) /\ done' = done
      BY <1>7 DEF StartRange
    <2>2. Head(todo) = todo[1] /\ Len(todo) \in Nat
          /\ Len(todo') = Len(todo) - 1 /\ \A n \in 1..Len(todo') : todo'[n] = todo[n + 1]
      BY <1>0, <2>1
    <2>3. CASE d \in done
      BY <2>1, <2>3 DEF Known
    <2>4. CASE d = Head(todo)
      <3>1. d \in Ranges
        BY <1>0, <2>1, <2>4
      <3>2. PagesOf(d) \in Int
        BY <3>1, RangeNumbers DEF Ranges
      <3>3. PagesOf(d) > 0
        BY <3>2 DEF Turns
      <3>4. job'.range = d /\ job'.left = PagesOf(d)
        BY <1>7, <2>4, <3>3 DEF StartRange
      <3>5. job' # NoJob
        BY <3>2, <3>3, <3>4 DEF NoJob
      <3> QED BY <3>4, <3>5 DEF Known, Waiting
    <2>5. CASE d \notin done /\ d # Head(todo)
      <3>1. PICK n \in 1..Len(todo) : d = todo[n]
        BY <2>1, <2>5 DEF Known, Waiting
      <3>2. n # 1 /\ n - 1 \in 1..Len(todo') /\ todo'[n - 1] = todo[n]
        BY <2>2, <2>5, <3>1
      <3>3. \E m \in 1..Len(todo') : d = todo'[m]
        BY <3>1, <3>2
      <3> QED BY <3>3 DEF Known, Waiting
    <2> QED BY <2>3, <2>4, <2>5
  <1> QED BY <1>3, <1>4, <1>5, <1>6, <1>7 DEF Next

\* A translation for user mode comes from a range that was asked for with it.
Asked(r, p, ppn) ==
  \E d \in Known : \E k \in Turns(d) :
    d.root = r /\ Vpn(VP(d, k)) = p /\ PP(d, k) = ppn /\ "U" \in d.bits

UserFits ==
  \A r \in Roots, p \in VirtualPages :
    LET e == Walk(tab, r, p) IN "U" \in e.rights => Asked(r, p, e.ppn)

LEMMA AskedKept ==
  ASSUME IInv, [Next]_vars, NEW r, NEW p, NEW ppn, Asked(r, p, ppn)
  PROVE  Asked(r, p, ppn)'
  <1>1. PICK d \in Known : \E k \in Turns(d) :
          d.root = r /\ Vpn(VP(d, k)) = p /\ PP(d, k) = ppn /\ "U" \in d.bits
    BY DEF Asked
  <1>2. d \in Known'
    BY <1>1, KnownKept
  <1> QED BY <1>1, <1>2 DEF Asked

LEMMA UserKept ==
  ASSUME IInv, [Next]_vars, UserFits, WalksKept, Roots' = Roots
  PROVE  UserFits'
  <1> SUFFICES ASSUME NEW r \in Roots, NEW p \in VirtualPages,
                      NEW e, e = Walk(tab', r, p), "U" \in e.rights
               PROVE  Asked(r, p, e.ppn)'
    BY DEF UserFits
  <1>1. e = Walk(tab, r, p)
    BY DEF WalksKept
  <1>2. Asked(r, p, e.ppn)
    BY <1>1 DEF UserFits
  <1>3. PICK n : n = e.ppn
    OBVIOUS
  <1> QED BY <1>2, <1>3, AskedKept

LEMMA LeafUser ==
  ASSUME WorkInv, IInv', Progress, UserFits, MapLeaf
  PROVE  UserFits'
  <1>0. [Next]_vars /\ IInv
    BY DEF Next, WorkInv
  <1>1. PICK s \in Roots, q \in VirtualPages : s = job.range.root /\ q = Vpn(job.vp)
    BY LeafSpaces DEF WorkInv
  <1>2. /\ Roots' = Roots
        /\ Walk(tab', s, q).ppn = job.pp
        /\ Walk(tab', s, q).rights = Walk(tab, s, q).rights \cup job.range.bits
        /\ \A r \in Roots, v \in VirtualPages :
             <<r, v>> # <<s, q>> => Walk(tab', r, v) = Walk(tab, r, v)
    BY <1>1, LeafSpaces DEF WorkInv
  <1>3. job # NoJob
    BY DEF MapLeaf, Walking
  <1>4. job.range \in Known /\ Behind \in Turns(job.range)
        /\ q = Vpn(VP(job.range, Behind)) /\ job.pp = PP(job.range, Behind)
    BY <1>1, <1>3 DEF Known, Waiting, Progress
  <1> SUFFICES ASSUME NEW r \in Roots, NEW p \in VirtualPages,
                      NEW e, e = Walk(tab', r, p), "U" \in e.rights
               PROVE  Asked(r, p, e.ppn)'
    BY <1>2 DEF UserFits
  <1>5. PICK n : n = e.ppn
    OBVIOUS
  <1>6. Asked(r, p, n)
    <2>1. CASE <<r, p>> # <<s, q>>
      <3>1. e = Walk(tab, r, p)
        BY <1>2, <2>1
      <3> QED BY <1>5, <3>1 DEF UserFits
    <2>2. CASE r = s /\ p = q /\ "U" \in job.range.bits
      <3>1. n = job.pp
        BY <1>2, <1>5, <2>2
      <3> QED BY <1>1, <1>4, <2>2, <3>1 DEF Asked
    <2>3. CASE r = s /\ p = q /\ "U" \in Walk(tab, s, q).rights
      <3>1. Asked(s, q, Walk(tab, s, q).ppn)
        BY <2>3 DEF UserFits
      <3>2. PICK d \in Known : \E k \in Turns(d) :
              d.root = s /\ Vpn(VP(d, k)) = q /\ "U" \in d.bits
        BY <3>1 DEF Asked
      <3>3. PICK k \in Turns(d) : d.root = s /\ Vpn(VP(d, k)) = q /\ "U" \in d.bits
        BY <3>2
      <3>4. Agree(d, job.range)
        BY <1>4 DEF WorkInv, WorkFits
      <3>5. PP(d, k) = job.pp
        BY <1>1, <1>4, <3>3, <3>4 DEF Agree
      <3>6. PP(d, k) = n
        BY <1>2, <1>5, <2>3, <3>5
      <3> QED BY <2>3, <3>3, <3>2, <3>6 DEF Asked
    <2> QED BY <1>2, <2>1, <2>2, <2>3
  <1> QED BY <1>0, <1>5, <1>6, AskedKept

LEMMA CreateUser ==
  ASSUME IInv, IInv', UserFits, CreateProcess
  PROVE  UserFits'
  <1>0. [Next]_vars
    BY DEF Next
  <1>1. PICK f \in Frames :
          /\ Roots' = Roots \cup {f}
          /\ \A r \in Roots, p \in VirtualPages : Walk(tab', r, p) = Walk(tab, r, p)
          /\ \A p \in VirtualPages : Walk(tab', f, p) = NoEntry
    BY CreateWalks
  <1> SUFFICES ASSUME NEW r \in Roots', NEW p \in VirtualPages,
                      NEW e, e = Walk(tab', r, p), "U" \in e.rights
               PROVE  Asked(r, p, e.ppn)'
    BY DEF UserFits
  <1>2. "U" \notin NoEntry.rights
    BY DEF NoEntry
  <1>3. r \in Roots /\ e = Walk(tab, r, p)
    BY <1>1, <1>2
  <1>4. Asked(r, p, e.ppn)
    BY <1>3 DEF UserFits
  <1>5. PICK n : n = e.ppn
    OBVIOUS
  <1> QED BY <1>0, <1>4, <1>5, AskedKept

LEMMA NextUser ==
  ASSUME WorkInv, WorkInv', Progress, UserFits, [Next]_vars
  PROVE  UserFits'
  <1>0. IInv /\ IInv' /\ TypeOK
    BY DEF WorkInv, IInv
  <1>1. ASSUME SpacesKept PROVE UserFits'
    <2>1. WalksKept /\ Roots' = Roots
      BY <1>1 DEF SpacesKept, WalksKept
    <2> QED BY <1>0, <2>1, UserKept
  <1>2. CASE MapLeaf \/ CreateProcess
    BY <1>0, <1>2, LeafUser, CreateUser
  <1>3. CASE ~MapLeaf /\ ~CreateProcess
    BY <1>0, <1>1, <1>3, NextKeeps
  <1> QED BY <1>2, <1>3

LEMMA InitUser == ASSUME Init PROVE UserFits
  <1>1. IInv
    BY InitInv
  <1>2. \A f \in Frames : Kind(f) # "low"
    BY DEF Init, Kind, FreePage, Use
  <1>3. ASSUME NEW r \in Roots, NEW p \in VirtualPages PROVE Walk(tab, r, p) = NoEntry
    <2>1. \A f \in Frames : use[f] # Use("low", r, p.vpn2, p.vpn1)
      BY <1>2 DEF Kind, Use
    <2> QED BY <1>1, <2>1, WalkLow DEF WalkFits
  <1> QED BY <1>3 DEF UserFits, NoEntry

LEMMA UserInvariant == Spec => []UserFits
  <1>1. Init => UserFits
    BY InitUser
  <1>2. WorkInv /\ WorkInv' /\ Progress /\ UserFits /\ [Next]_vars => UserFits'
    BY NextUser
  <1> QED BY <1>1, <1>2, WorkInvariant, ProgressInvariant, PTL DEF Spec

\* A process in user mode reaches, of the pages the allocator hands out, its
\* own stack only: whatever processes and devices are mapped and even when the
\* stack of a process could not be allocated, no page table, no trap frame and
\* no page of another process or of the kernel.
THEOREM UserPagesStayPrivate == Spec => []UserPagesPrivate
  <1>1. WorkInv /\ UserFits => UserPagesPrivate
    <2> SUFFICES ASSUME WorkInv, UserFits, NEW r \in Roots, NEW p \in VirtualPages,
                        NEW e, e = Walk(tab, r, p),
                        "U" \in e.rights, e.ppn \in Frames
                 PROVE  use[e.ppn] = Use("stack", r, 0, 0)
      BY DEF UserPagesPrivate
    <2>1. Asked(r, p, e.ppn)
      BY DEF UserFits
    <2>2. PICK d \in Known : \E k \in Turns(d) :
            d.root = r /\ PP(d, k) = e.ppn /\ "U" \in d.bits
      BY <2>1 DEF Asked
    <2>3. PICK k \in Turns(d) : d.root = r /\ PP(d, k) = e.ppn /\ "U" \in d.bits
      BY <2>2
    <2>4. RangeFits(d)
      BY DEF WorkInv, WorkFits
    <2>5. ~IsKernel(d) /\ ~IsFrame(r, d)
      BY <2>3, KernelPlaced, FramePlaced
    <2>6. ~IsImage(r, d)
      BY <2>3, ImagePlaced
    <2>7. OwnStack(r, d)
      BY <2>3, <2>4, <2>5, <2>6 DEF RangeFits
    <2>8. PICK page \in Nat :
            /\ d = StackAt(r, page)
            /\ \A g \in Run(page) : g \in Frames => use[g] = Use("stack", r, 0, 0)
      BY <2>7 DEF OwnStack
    <2>9. PP(d, k) \in Run(page)
      BY <2>8, StackPlaced
    <2> QED BY <2>3, <2>8, <2>9
  <1> QED BY <1>1, WorkInvariant, UserInvariant, PTL

-----------------------------------------------------------------------------
(* Faults. *)

\* First fit without a release: the free pages are the last ones.
FreeLast == \A f, g \in Frames : Free(f) /\ f < g => Free(g)

\* The range of the heap, and what is known of it: it is not forgotten, and
\* satp is written after it has been mapped.
Heap == Range(KernelRoot, Defaults[1].start, Defaults[1].end, Defaults[1].start, Defaults[1].bits)
HeapFits ==
  \A k \in Turns(Heap) : Heap \in Known /\ (paging => Heap \in done)

LEMMA TakeFirst ==
  ASSUME TypeOK, FreeLast, NEW f, FirstFree(f), NEW u, u.kind # "free", Take(f, u)
  PROVE  FreeLast'
  <1>1. f \in Frames /\ use'[f] = u /\ \A g \in Frames : g # f => use'[g] = use[g]
    BY DEF FirstFree, Take, TypeOK
  <1>2. \A g \in Frames : Free(g)' <=> Free(g) /\ g # f
    BY <1>1 DEF Free, Kind
  <1>3. Frames \subseteq Nat
    BY TableAssumption
  <1> SUFFICES ASSUME NEW a \in Frames, NEW b \in Frames, Free(a), a # f, a < b
               PROVE  Free(b) /\ b # f
    BY <1>2 DEF FreeLast
  <1>4. f <= a /\ Free(b)
    BY DEF FirstFree, FreeLast
  <1> QED BY <1>1, <1>3, <1>4

LEMMA TakeFirstRun ==
  ASSUME TypeOK, FreeLast, NEW f \in Frames, FirstRun(f), NEW u, u.kind # "free",
         use' = [g \in Frames |-> IF g \in Run(f) THEN u ELSE use[g]]
  PROVE  FreeLast'
  <1>1. Frames \subseteq Nat /\ StackPages \in Nat \ {0}
    BY TableAssumption
  <1>2. \A g \in Frames : Free(g)' <=> Free(g) /\ g \notin Run(f)
    BY DEF Free, Kind
  <1>3. ASSUME NEW a \in Frames, Free(a) PROVE f <= a
    <2> SUFFICES ASSUME a < f PROVE FALSE
      BY <1>1
    <2>1. f \in Nat /\ a \in Nat /\ f \in Run(f) /\ f + StackPages - 1 \in Run(f)
      BY <1>1 DEF Run
    <2>2. f + StackPages - 1 \in Frames
      BY <2>1 DEF FirstRun, FreeRun
    <2>3. \A g \in Run(a) : g \in Nat /\ a <= g /\ g <= f + StackPages - 1
      BY <1>1, <2>1 DEF Run
    <2>4. \A g \in Run(a) : g \in Frames
      BY <2>2, <2>3, HeapAssumption
    <2>5. \A g \in Run(a) : Free(g)
      BY <1>3, <2>1, <2>3, <2>4 DEF FreeLast
    <2>6. f <= a
      BY <2>4, <2>5 DEF FirstRun, FreeRun
    <2> QED BY <2>1, <2>6
  <1> SUFFICES ASSUME NEW a \in Frames, NEW b \in Frames, Free(a), a \notin Run(f), a < b
               PROVE  Free(b) /\ b \notin Run(f)
    BY <1>2 DEF FreeLast
  <1>4. f <= a /\ Free(b)
    BY <1>3 DEF FreeLast
  <1> QED BY <1>1, <1>4 DEF Run

LEMMA NextFreeLast == ASSUME IInv, FreeLast, [Next]_vars PROVE FreeLast'
  <1>0. TypeOK
    BY DEF IInv
  <1>1. ASSUME use' = use PROVE FreeLast'
    BY <1>1 DEF FreeLast, Free, Kind
  <1>2. ASSUME NEW k \in {"root", "frame", "stack", "data"}, NEW r
        PROVE  Use(k, r, 0, 0).kind # "free"
    BY DEF Use
  <1>3. CASE UNCHANGED vars \/ StartRange \/ MapDescend \/ FinishProcess \/ MapNoMemory \/ MapLeaf
             \/ \E d \in Devices : MapDevice(d)
    BY <1>1, <1>3 DEF vars, StartRange, MapDescend, FinishProcess, MapDevice, MapNoMemory, MapLeaf
  <1>4. CASE EnablePaging \/ KernelPage \/ MapTrapFrame \/ CreateProcess
    BY <1>0, <1>2, <1>4, TakeFirst DEF EnablePaging, KernelPage, MapTrapFrame, CreateProcess
  <1>5. CASE MapNewTable
    <2>1. TableUse.kind # "free"
      BY DEF TableUse, Use
    <2> QED BY <1>0, <1>5, <2>1, TakeFirst DEF MapNewTable
  <1>6. CASE MapStack
    BY <1>0, <1>1, <1>2, <1>6, TakeFirstRun DEF MapStack
  <1>7. CASE AllocFaults
    BY <1>0, <1>1, <1>2, <1>7, TakeFirst, TakeFirstRun DEF AllocFaults
  <1>8. CASE MapUnreachable
    BY <1>0, <1>1, <1>2, <1>8, TakeFirst DEF MapUnreachable
  <1> QED BY <1>3, <1>4, <1>5, <1>6, <1>7, <1>8 DEF Next

LEMMA NextHeap == ASSUME IInv, HeapFits, [Next]_vars PROVE HeapFits'
  <1> SUFFICES ASSUME NEW k \in Turns(Heap)
               PROVE  Heap \in Known' /\ (paging' => Heap \in done')
    BY DEF HeapFits, Heap
  <1>1. Heap \in Known /\ (paging => Heap \in done)
    BY DEF HeapFits
  <1>2. Heap \in Known'
    <2>1. PICK d \in Known : d = Heap
      BY <1>1
    <2>2. k \in Turns(d)
      BY <2>1
    <2>3. d \in Known'
      BY <2>2, KnownKept
    <2> QED BY <2>1, <2>3
  <1>3. done \subseteq done'
    BY DEF Next, vars, StartRange, MapDescend, MapNewTable, MapNoMemory, MapUnreachable, MapLeaf,
           EnablePaging, KernelPage, CreateProcess, MapTrapFrame, MapStack, MapStackAt,
           FinishProcess, AllocFaults, MapDevice
  <1>4. CASE EnablePaging
    <2>1. Waiting = {}
      BY <1>4, NothingWaits DEF EnablePaging
    <2> QED BY <1>1, <1>2, <1>3, <2>1 DEF Known
  <1>5. CASE ~EnablePaging
    <2>1. paging' = paging
      BY <1>5 DEF Next, vars, StartRange, MapDescend, MapNewTable, MapNoMemory, MapUnreachable,
           MapLeaf, KernelPage, CreateProcess, MapTrapFrame, MapStack, MapStackAt,
           FinishProcess, AllocFaults, MapDevice
    <2> QED BY <1>1, <1>2, <1>3, <2>1
  <1> QED BY <1>4, <1>5

OfHeap(f) == Defaults[1].start <= f * PageSize /\ (f + 1) * PageSize <= Defaults[1].end

LEMMA HeapPage ==
  ASSUME NEW f \in Frames, OfHeap(f)
  PROVE  \E k \in Turns(Heap) : VP(Heap, k) = f
  <1> DEFINE P == PageSize
             start == Defaults[1].start
             end == Defaults[1].end
             sq == start \div P
             eq == (end + P - 1) \div P
             er == (end + P - 1) % P
             sr == start % P
  <1>1. P \in Nat \ {0} /\ f \in Nat
    BY TableAssumption
  <1>2. Defaults[1] \in KernelRange
    BY TableAssumption, HeapAssumption
  <1>3. start \in Nat /\ end \in Nat
    BY <1>2 DEF KernelRange
  <1>4. start <= f * P /\ (f + 1) * P <= end
    BY DEF OfHeap
  <1> HIDE DEF P, start, end
  <1>5. end + P - 1 \in Nat
    BY <1>1, <1>3
  <1>6. /\ start = sq * P + sr /\ sq \in Nat /\ sr \in Nat
        /\ end + P - 1 = eq * P + er /\ eq \in Nat /\ er \in Nat /\ er < P
    BY <1>1, <1>3, <1>5, Division
  <1> HIDE DEF sq, eq, er, sr
  <1>7. sq <= f
    <2> SUFFICES ASSUME f + 1 <= sq PROVE FALSE
      BY <1>1, <1>6
    <2>1. (f + 1) * P <= sq * P /\ (f + 1) * P = f * P + P
      BY <1>1, <1>6
    <2> QED BY <1>1, <1>3, <1>4, <1>6, <2>1
  <1>8. f + 1 <= eq
    <2> SUFFICES ASSUME eq <= f PROVE FALSE
      BY <1>1, <1>6
    <2>1. eq * P <= f * P /\ (f + 1) * P = f * P + P
      BY <1>1, <1>6
    <2> QED BY <1>1, <1>3, <1>4, <1>6, <2>1
  <1>9. Heap.start \div PageSize = sq /\ PagesOf(Heap) = eq - sq
    BY DEF Heap, Range, PagesOf, P, start, end, sq, eq
  <1> HIDE DEF Heap
  <1>10. f - sq \in Turns(Heap) /\ VP(Heap, f - sq) = f
    BY <1>1, <1>6, <1>7, <1>8, <1>9 DEF Turns, VP
  <1> QED BY <1>10

\* The kernel reaches every page of its heap: before satp is written without a
\* translation, and after that through the first of the default ranges.
LEMMA HeapReached ==
  ASSUME WorkInv, Progress, HeapFits, NEW f \in Frames, OfHeap(f)
  PROVE  Accessible(f)
  <1> SUFFICES ASSUME paging
               PROVE  LET e == Translate(KernelRoot, f)
                      IN  e.valid /\ e.ppn = f /\ "W" \in e.rights
    BY DEF Accessible
  <1>1. PICK k \in Turns(Heap) : VP(Heap, k) = f
    BY HeapPage
  <1>2. Mapped(Heap, k)
    BY <1>1 DEF HeapFits, Progress
  <1>3. IsKernel(Heap)
    <2>1. Defaults[1] \in KernelRanges
      BY TableAssumption, HeapAssumption DEF KernelRanges
    <2> QED BY <2>1 DEF IsKernel, Heap
  <1>4. PP(Heap, k) = f /\ Heap.root = KernelRoot
    BY <1>1, <1>3, KernelPlaced
  <1>5. "W" \in Heap.bits
    BY HeapAssumption DEF Heap, Range
  <1> QED BY <1>1, <1>2, <1>4, <1>5 DEF Mapped, Translate

\* A page that is taken and cannot be reached lies behind the heap, and all of
\* the heap's pages before it are taken.
LEMMA HeapFull ==
  ASSUME WorkInv, Progress, HeapFits, FreeLast', NEW g \in Frames, ~Accessible(g), ~Free(g)',
         NEW f \in Frames, OfHeap(f)
  PROVE  ~Free(f)'
  <1>1. ~OfHeap(g)
    BY HeapReached
  <1>2. Defaults[1].start <= g * PageSize
    BY HeapAssumption
  <1>3. ~((g + 1) * PageSize <= Defaults[1].end) /\ (f + 1) * PageSize <= Defaults[1].end
    BY <1>1, <1>2 DEF OfHeap
  <1>4. Defaults[1].end \in Nat /\ f \in Nat /\ g \in Nat /\ PageSize \in Nat \ {0}
    <2>1. Defaults[1] \in KernelRange
      BY TableAssumption, HeapAssumption
    <2> QED BY <2>1, TableAssumption DEF KernelRange
  <1> DEFINE P == PageSize
             end == Defaults[1].end
  <1> HIDE DEF P, end
  <1>5. f < g
    <2> SUFFICES ASSUME g <= f PROVE FALSE
      BY <1>4
    <2>1. P \in Nat \ {0} /\ end \in Nat /\ ~((g + 1) * P <= end) /\ (f + 1) * P <= end
      BY <1>3, <1>4 DEF P, end
    <2>2. (g + 1) * P <= (f + 1) * P
      BY <1>4, <2>1
    <2>3. (g + 1) * P \in Nat /\ (f + 1) * P \in Nat
      BY <1>4, <2>1
    <2> QED BY <2>1, <2>2, <2>3
  <1> QED BY <1>5 DEF FreeLast

LEMMA NextFaults ==
  ASSUME WorkInv, Progress, HeapFits, FreeLast, FreeLast', FaultsOnlyWhenFull, [Next]_vars
  PROVE  FaultsOnlyWhenFull'
  <1>0. TypeOK /\ IInv
    BY DEF WorkInv, IInv
  <1>1. ASSUME NEW g \in Frames, ~Accessible(g), ~Free(g)' PROVE FaultsOnlyWhenFull'
    <2>1. \A f \in Frames : OfHeap(f) => ~Free(f)'
      BY <1>1, HeapFull
    <2> QED BY <2>1 DEF FaultsOnlyWhenFull, OfHeap
  <1>2. ASSUME NoneFree, use' = use PROVE FaultsOnlyWhenFull'
    BY <1>2 DEF FaultsOnlyWhenFull, NoneFree, Free, Kind
  <1>3. ASSUME NEW f \in Frames, ~Accessible(f), Take(f, Use("data", 0, 0, 0))
        PROVE  FaultsOnlyWhenFull'
    <2>1. use'[f].kind = "data"
      BY <1>0, <1>3 DEF Take, TypeOK, Use
    <2>2. ~Free(f)'
      BY <2>1 DEF Free, Kind
    <2> QED BY <1>1, <1>3, <2>2
  <1>4. CASE UNCHANGED vars
    BY <1>4 DEF vars, FaultsOnlyWhenFull, Free, Kind
  <1>5. CASE MapNoMemory
    BY <1>2, <1>5 DEF MapNoMemory
  <1>6. CASE MapUnreachable
    <2>1. CASE ~Accessible(job.at) /\ use' = use
      <3>1. job # NoJob
        BY <1>6 DEF MapUnreachable, Walking
      <3>2. job.at \in Frames /\ Kind(job.at) \in {"root", "mid", "low"}
        BY <1>0, <3>1, JobTypes
      <3>3. PICK g \in Frames : g = job.at
        BY <3>2
      <3>4. ~Accessible(g) /\ ~Free(g)'
        BY <2>1, <3>2, <3>3 DEF Free, Kind
      <3> QED BY <1>1, <3>4
    <2> QED BY <1>3, <1>6, <2>1 DEF MapUnreachable
  <1>7. CASE AllocFaults
    <2>1. CASE \E f \in Frames :
                 /\ FirstRun(f) /\ \E g \in Run(f) : ~Accessible(g)
                 /\ use' = [g \in Frames |-> IF g \in Run(f) THEN Use("data", 0, 0, 0) ELSE use[g]]
      <3>1. PICK f \in Frames :
              /\ FirstRun(f) /\ \E g \in Run(f) : ~Accessible(g)
              /\ use' = [g \in Frames |-> IF g \in Run(f) THEN Use("data", 0, 0, 0) ELSE use[g]]
        BY <2>1
      <3>2. PICK g \in Run(f) : ~Accessible(g)
        BY <3>1
      <3>3. g \in Frames
        BY <3>1, <3>2 DEF FirstRun, FreeRun
      <3>4. use'[g].kind = "data"
        BY <3>1, <3>2, <3>3 DEF Use
      <3>5. ~Free(g)'
        BY <3>4 DEF Free, Kind
      <3> QED BY <1>1, <3>2, <3>3, <3>5
    <2> QED BY <1>2, <1>3, <1>7, <2>1 DEF AllocFaults
  <1>8. ASSUME Next, ~MapNoMemory, ~MapUnreachable, ~AllocFaults
        PROVE  stage' # "fault"
    BY <1>8 DEF Next, StartRange, MapDescend, MapNewTable, MapLeaf, EnablePaging, KernelPage,
           CreateProcess, MapTrapFrame, MapStack, MapStackAt, FinishProcess, MapDevice,
           Walking, Quiet
  <1> QED BY <1>4, <1>5, <1>6, <1>7, <1>8 DEF FaultsOnlyWhenFull

LEMMA InitFaults == ASSUME Init PROVE HeapFits /\ FreeLast /\ FaultsOnlyWhenFull
  <1>1. Heap \in Known
    <2>1. Len(Defaults) \in Nat /\ 1 \in 1..Len(Defaults)
      BY TableAssumption, HeapAssumption
    <2>2. Len(todo) = Len(Defaults) /\ todo[1] = Heap
      BY <2>1, TableAssumption DEF Init, SystemDefaults, Identity, Heap
    <2> QED BY <2>1, <2>2 DEF Known, Waiting
  <1>2. HeapFits
    BY <1>1 DEF HeapFits, Init
  <1>3. FreeLast
    <2>1. \A f \in Frames : Free(f) <=> f # KernelRoot
      BY DEF Init, Free, Kind, Use, FreePage
    <2>2. KernelRoot \in Nat /\ Frames \subseteq Nat /\ \A f \in Frames : KernelRoot <= f
      BY TableAssumption, HeapAssumption
    <2> QED BY <2>1, <2>2 DEF FreeLast
  <1> QED BY <1>2, <1>3 DEF Init, FaultsOnlyWhenFull

\* Building address spaces faults only when memory has run out: as long as a
\* page of the heap is free, map(), the creation of a process and the
\* allocations of the kernel find their tables and pages reachable through the
\* kernel's own table, before and after satp is written.
THEOREM FaultsNeedFullHeap == Spec => []FaultsOnlyWhenFull
  <1> DEFINE Inv == HeapFits /\ FreeLast /\ FaultsOnlyWhenFull
  <1>1. Init => Inv
    BY InitFaults
  <1>2. WorkInv /\ Progress /\ Inv /\ [Next]_vars => Inv'
    <2> SUFFICES ASSUME WorkInv, Progress, Inv, [Next]_vars PROVE Inv'
      OBVIOUS
    <2>1. IInv
      BY DEF WorkInv
    <2>2. HeapFits' /\ FreeLast'
      BY <2>1, NextHeap, NextFreeLast
    <2>3. FaultsOnlyWhenFull'
      BY <2>2, NextFaults
    <2> QED BY <2>2, <2>3
  <1>3. Inv => FaultsOnlyWhenFull
    OBVIOUS
  <1> HIDE DEF Inv
  <1> QED BY <1>1, <1>2, <1>3, WorkInvariant, ProgressInvariant, PTL DEF Spec

=============================================================================
