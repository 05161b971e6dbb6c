-------------------------------- MODULE Nmbm --------------------------------
(***************************************************************************)
(* NAND mapped-block management (nmbm-core.c): a table, kept twice on the  *)
(* flash, maps logic blocks to physical ones and remembers bad blocks.     *)
(* Blocks fail, power goes off between any two flash operations and in the *)
(* middle of one, and nmbm_attach then has to find its way back.           *)
(*                                                                         *)
(* Layout: data blocks 0..MgmtStart-1, then the management blocks: main    *)
(* table, spare blocks, backup table, spare blocks, and below the          *)
(* signature the blocks that replace bad ones, given out downwards.        *)
(*                                                                         *)
(* A table takes one block (12 KiB of 128 or 256 KiB), so size2blk is 1,   *)
(* and a logic block holds one datum. Calls are serialised by              *)
(* nmbm_get_device: there is one call at a time, in steps of one flash     *)
(* operation each.                                                         *)
(***************************************************************************)
EXTENDS Integers, FiniteSetsExt

CONSTANTS
  MgmtStart,   \* mgmt_start_ba: data blocks, and logic blocks, are below it
  SigBa,       \* signature_ba, the last good block of the chip
  Spare,       \* info_table_spare_blocks
  FactoryBad,  \* the sets of blocks that may be marked bad at delivery
  Values,      \* what users write
  MaxFail,     \* bound: operations that fail, marking included, and blocks
               \* that users mark
  MaxOff       \* bound: times the power goes off

ASSUME NmbmAssumption ==
  /\ MgmtStart \in Nat \ {0}
  /\ SigBa \in Nat
  /\ SigBa > MgmtStart + 1
  /\ Spare \in Nat
  /\ FactoryBad \subseteq SUBSET (0..(SigBa - 1))
  /\ MaxFail \in Nat
  /\ MaxOff \in Nat

VARIABLES
  flash,   \* flash[b]: the contents of block b
  mark,    \* blocks marked bad in their spare area
  ni,      \* struct nmbm_instance, the memory of the driver
  ctl,     \* where the code is, and its local variables
  disk,    \* ghost: disk[lb], what a user who reads lb may count on
  skipped, \* ghost: nmbm_map_block passed over a bad block
  fails,   \* failures and marks so far
  offs     \* times the power went off so far

ghosts == <<disk, skipped>>
vars == <<flash, mark, ni, ctl, ghosts, fails, offs>>

Blocks == 0..(SigBa - 1)
Logic == 0..(MgmtStart - 1)
Erased == [kind |-> "erased"]
Torn == [kind |-> "torn"]        \* reading gives an ECC error
Data(v) == [kind |-> "data", val |-> v]
Any == [kind |-> "any"]          \* disk only: nothing is promised

\* nmbm_init_structure
FreshInstance ==
  [state |-> [b \in Blocks |-> "GOOD"], map |-> [l \in Logic |-> -1],
   changed |-> FALSE, wc |-> 0, main |-> 0, backup |-> 0,
   mapba |-> 0, top |-> 0, count |-> 0, prot |-> FALSE]

\* ba, limit: the range at work; next: where to go on when it is done; ok:
\* its result; wba, tmp: write_ba and tmp_table_start_ba; ret: the caller of
\* nmbm_update_info_table; built: the caller of nmbm_rebuild_info_table;
\* cache: info_table_cache, which is generated anew before every use
NoControl ==
  [pc |-> "off", ba |-> 0, limit |-> 0, next |-> "off", ok |-> TRUE, wba |-> 0,
   tmp |-> 0, ret |-> "off", built |-> "update", lb |-> 0, val |-> Erased,
   cache |-> Erased]

Idle == [NoControl EXCEPT !.pc = "idle"]

\* A chip with its signature written and no table yet
Init ==
  /\ flash = [b \in Blocks |-> Erased]
  /\ mark \in FactoryBad
  /\ ni = FreshInstance
  /\ ctl = NoControl
  /\ disk = [l \in Logic |-> Any]
  /\ skipped = FALSE
  /\ fails = 0
  /\ offs = 0
-----------------------------------------------------------------------------
(* Tables in memory *)

\* nmbm_set_block_state of every block in S
SetState(n, S, s) ==
  [n EXCEPT !.state = [b \in Blocks |-> IF b \in S THEN s ELSE n.state[b]],
            !.changed = n.changed \/ \E b \in S : n.state[b] # s]

SetBad(n, S) == SetState(n, S, "BAD")

\* nmbm_mark_tables_clean
Clean(n) == [n EXCEPT !.changed = FALSE]

\* nmbm_generate_info_table_cache: the table to write is Table(Generate(n))
Generate(n) == [n EXCEPT !.wc = IF n.changed THEN @ + 1 ELSE @]
Table(n) == [kind |-> "table", wc |-> n.wc, state |-> n.state, map |-> n.map]

\* GOOD blocks from lo up to and including hi
Good(n, lo, hi) == {b \in lo..hi : n.state[b] = "GOOD"}

\* The element of S with k smaller ones
Nth(S, k) == CHOOSE b \in S : Cardinality({c \in S : c < b}) = k

\* nmbm_try_reserve_blocks from ba up to the room for one table below top:
\* leave Spare good blocks free, or as many as there are; 0 if none is left
Reserve(n, ba) ==
  LET good == Good(n, ba, n.top - 2)
      k == Cardinality(good)
  IN  IF k = 0 THEN 0 ELSE Nth(good, IF Spare < k THEN Spare ELSE k - 1)

\* nmbm_map_block found pb: the good block next below the top
Unused(n) == Good(n, n.mapba + 1, n.top)

\* mutant: the block stays available
MapBlock_KeepsTop(n, lb) ==
  [n EXCEPT !.map[lb] = Max(Unused(n)), !.changed = TRUE]

MapBlock(n, lb) ==
  [n EXCEPT !.map[lb] = Max(Unused(n)), !.top = @ - 1, !.changed = TRUE]

\* A logic block without a physical one; not counted as a change
Unmap(n, lb) == [n EXCEPT !.map[lb] = -1]

\* What nmbm_erase_logic_block does to the state of the block it gave up
Condemn(n, pb) == IF n.state[pb] = "NEED_REMAP" THEN n ELSE SetBad(n, {pb})
-----------------------------------------------------------------------------
(* Flash operations. Each is tried NMBM_TRY_COUNT times; failure here is   *)
(* the failure of all tries, or of reading the written data back.          *)

\* nmbm_mark_phys_bad_block, after k failures; nobody looks at its result
MarkBlock(b, k) ==
  \/ fails' = fails + k /\ mark' = mark \cup {b}
  \/ fails' = fails + k + 1 /\ UNCHANGED mark

\* The operation on b fails and the block is marked. What a marked block
\* holds is of no interest; without the mark it may be the old contents.
BlockFails(b) ==
  /\ MarkBlock(b, 1)
  /\ fails' <= MaxFail
  /\ flash' \in {[flash EXCEPT ![b] = Torn]} \cup {flash : x \in {b} \ mark'}

\* nmbm_write_info_table(ba, limit), to go on at next
WriteTable(c, ba, limit, next) ==
  [c EXCEPT !.pc = "table", !.ba = ba, !.limit = limit, !.next = next]

\* The next block of the range that nmbm_write_mgmt_range or nmbm_erase_range
\* erases, if any; those it finds marked on the way become BAD in memory
Usable == Good(ni, ctl.ba, ctl.limit - 1) \ mark
PassedOver(b) == {c \in Good(ni, ctl.ba, b - 1) : c \in mark}

TableErase ==
  /\ ctl.pc = "table"
  /\ Usable # {}
  /\ LET b == Min(Usable)
         n == SetBad(ni, PassedOver(b))
     IN  \/ /\ flash' = [flash EXCEPT ![b] = Erased]
            /\ ni' = n
            /\ ctl' = [ctl EXCEPT !.pc = "program", !.ba = b]
            /\ UNCHANGED <<mark, fails>>
         \/ /\ BlockFails(b)
            /\ ni' = SetBad(n, {b})
            /\ ctl' = [ctl EXCEPT !.ba = b + 1]
  /\ UNCHANGED <<ghosts, offs>>

TableProgram ==
  /\ ctl.pc = "program"
  /\ \/ /\ flash' = [flash EXCEPT ![ctl.ba] = ctl.cache]
        /\ ctl' = [ctl EXCEPT !.pc = ctl.next, !.ok = TRUE]
        /\ UNCHANGED <<ni, mark, fails>>
     \/ /\ BlockFails(ctl.ba)
        /\ ni' = SetBad(ni, {ctl.ba})
        /\ ctl' = [ctl EXCEPT !.pc = "table", !.ba = @ + 1]
  /\ UNCHANGED <<ghosts, offs>>

TableNoRoom ==
  /\ ctl.pc = "table"
  /\ Usable = {}
  /\ ni' = SetBad(ni, PassedOver(ctl.limit))
  /\ ctl' = [ctl EXCEPT !.pc = ctl.next, !.ok = FALSE]
  /\ UNCHANGED <<flash, mark, ghosts, fails, offs>>

\* nmbm_erase_range(ba, limit)
EraseRange(c, ba, limit, next) ==
  [c EXCEPT !.pc = "range", !.ba = ba, !.limit = limit, !.next = next]

RangeErase ==
  /\ ctl.pc = "range"
  /\ Usable # {}
  /\ LET b == Min(Usable)
         n == SetBad(ni, PassedOver(b))
     IN  \/ /\ flash' = [flash EXCEPT ![b] = Erased]
            /\ ni' = n
            /\ UNCHANGED <<mark, fails>>
         \/ /\ BlockFails(b)
            /\ ni' = SetBad(n, {b})
  /\ ctl' = [ctl EXCEPT !.ba = Min(Usable) + 1]
  /\ UNCHANGED <<ghosts, offs>>

RangeDone ==
  /\ ctl.pc = "range"
  /\ Usable = {}
  /\ ni' = SetBad(ni, PassedOver(ctl.limit))
  /\ ctl' = [ctl EXCEPT !.pc = ctl.next, !.ok = TRUE]
  /\ UNCHANGED <<flash, mark, ghosts, fails, offs>>
-----------------------------------------------------------------------------
(* nmbm_update_info_table and the procedures under it. The steps of this   *)
(* section are taken at the return of a table write: ctl.ok says whether   *)
(* it found room, ctl.ba where the table is.                               *)

Memory == UNCHANGED <<flash, mark, disk, skipped, fails, offs>>
Here == ctl.ba
End == ctl.ba + 1

\* nmbm_rebuild_info_table, called by b
Rebuild(n, c, b) ==
  /\ ni' = [n EXCEPT !.main = 0, !.backup = 0, !.mapba = n.top]
  /\ ctl' = WriteTable([c EXCEPT !.built = b], MgmtStart, n.top, "rebuilt_main")

\* label write_main_table. There is a main table: main_table_ba is 0 only
\* after a failed rebuild, which protects the device.
WriteMain(n, c, limit) ==
  /\ ni' = n
  /\ ctl' = WriteTable(c, n.main, limit, "main_written")

\* nmbm_update_info_table returns r
UpdateReturns(r) ==
  IF ctl.ret = "idle" THEN Idle
  ELSE [NoControl EXCEPT !.pc = ctl.ret, !.ok = r, !.lb = ctl.lb]

\* Head of the loop in nmbm_update_info_table
Update ==
  /\ ctl.pc = "update"
  /\ IF ni.prot \/ ~ni.changed
     THEN /\ ctl' = UpdateReturns(TRUE)
          /\ UNCHANGED ni
     ELSE LET n == Generate(ni)
              c == [ctl EXCEPT !.cache = Table(n)]
          IN  IF ni.backup = 0 THEN WriteMain(n, c, ni.top)
              ELSE /\ ni' = n
                   /\ ctl' = WriteTable(c, ni.backup, ni.top, "backup_written")
  /\ Memory

BackupWritten ==
  /\ ctl.pc = "backup_written"
  /\ IF ctl.ok
     THEN WriteMain([Clean(ni) EXCEPT !.backup = Here, !.mapba = End], ctl, Here)
     ELSE WriteMain([ni EXCEPT !.mapba = ni.backup, !.backup = 0], ctl, ni.top)
  /\ Memory

MainWritten ==
  /\ ctl.pc = "main_written"
  /\ ctl.ok
  /\ ni' = [Clean(ni) EXCEPT !.main = Here,
                             !.mapba = IF ni.backup = 0 THEN End ELSE @]
  /\ ctl' = [ctl EXCEPT !.pc = "update"]
  /\ Memory

\* No room for the main table: build anew, or nmbm_rescue_main_info_table
MainFailed ==
  /\ ctl.pc = "main_written"
  /\ ~ctl.ok
  /\ IF ni.backup = 0
     THEN Rebuild(ni, ctl, "update")
     ELSE LET w == Reserve(ni, ni.mapba)
          IN  /\ IF w = 0
                 THEN /\ ni' = [ni EXCEPT !.main = ni.backup, !.backup = 0]
                      /\ ctl' = [ctl EXCEPT !.pc = "update"]
                 ELSE /\ ctl' = [WriteTable(ctl, w, ni.top, "tmp_written")
                                   EXCEPT !.wba = w]
                      /\ UNCHANGED ni
  /\ Memory

\* The temporary table, tried from write_ba downwards. With room for it the
\* main table is written from the start of the area, over the backup.
TmpWritten ==
  /\ ctl.pc = "tmp_written"
  /\ IF ctl.ok
     THEN /\ ni' = [ni EXCEPT !.mapba = End]
          /\ ctl' = [WriteTable(ctl, MgmtStart, Here, "rescued_main")
                       EXCEPT !.tmp = Here]
     ELSE IF ctl.wba > ni.mapba
     THEN /\ ctl' = [WriteTable(ctl, ctl.wba - 1, ni.top, "tmp_written")
                       EXCEPT !.wba = @ - 1]
          /\ UNCHANGED ni
     ELSE /\ ni' = [ni EXCEPT !.main = ni.backup, !.backup = 0]
          /\ ctl' = [ctl EXCEPT !.pc = "update"]
  /\ Memory

\* The main table ends at or below the temporary one, which was its limit,
\* so what the code does when it does not is never reached
RescuedMain ==
  /\ ctl.pc = "rescued_main"
  /\ ni' = IF ctl.ok
           THEN [Clean(ni) EXCEPT !.main = Here, !.backup = ctl.tmp]
           ELSE [Clean(ni) EXCEPT !.main = ctl.tmp, !.backup = 0]
  /\ ctl' = [ctl EXCEPT !.pc = "update"]
  /\ Memory

\* nmbm_rebuild_info_table returns r
RebuildReturns(r) ==
  IF r THEN [ctl EXCEPT !.pc = ctl.built]
  ELSE IF ctl.built = "update" THEN UpdateReturns(FALSE)
  ELSE [NoControl EXCEPT !.pc = "dead"]

RebuiltMain ==
  /\ ctl.pc = "rebuilt_main"
  /\ IF ctl.ok
     THEN LET n == [Clean(ni) EXCEPT !.main = Here, !.mapba = End]
              w == Reserve(n, End)
          IN  /\ ni' = n
              /\ ctl' = IF w = 0 THEN RebuildReturns(TRUE)
                        ELSE WriteTable(ctl, w, ni.top, "rebuilt_backup")
     ELSE /\ ni' = [ni EXCEPT !.prot = TRUE]
          /\ ctl' = RebuildReturns(FALSE)
  /\ Memory

RebuiltBackup ==
  /\ ctl.pc = "rebuilt_backup"
  /\ IF ctl.ok
     THEN /\ ni' = [ni EXCEPT !.backup = Here, !.mapba = End]
          /\ ctl' = EraseRange(ctl, ni.main + 1, Here, ctl.built)
     ELSE /\ ctl' = RebuildReturns(TRUE)
          /\ UNCHANGED ni
  /\ Memory
-----------------------------------------------------------------------------
(* nmbm_attach *)

\* nmbm_check_info_table_header, _check_header and _check_info_table of the
\* table in block b
ValidTable(b) ==
  /\ flash[b].kind = "table"
  /\ \A l \in Logic : flash[b].map[l] \notin MgmtStart..b
  /\ flash[b].state[b] = "GOOD"

\* mutant: the lowest block in use counts as free
TopBelow_InUse(b) ==
  Min({SigBa} \cup ({flash[b].map[l] : l \in Logic} \cap (b + 1)..SigBa))

\* The last block free for mapping by the table in block b
TopBelow(b) ==
  Min({SigBa} \cup ({flash[b].map[l] : l \in Logic} \cap (b + 1)..SigBa)) - 1

\* nmbm_search_info_table. A block marked bad or with an ECC error becomes
\* BAD in memory.
Search(n, from) ==
  LET area == Good(n, from, SigBa - 2)
      found == {b \in area : b \notin mark /\ ValidTable(b)}
      ba == IF found = {} THEN 0 ELSE Min(found)
  IN  [ba |-> ba,
       n |-> SetBad(n, {b \in area : /\ found = {} \/ b < ba
                                     /\ b \in mark \/ flash[b].kind = "torn"})]

Loaded(n, t) == [n EXCEPT !.state = t.state, !.map = t.map, !.wc = t.wc]

\* mutant: compared the other way round
Newer_Older(t, n) == t.wc < n.wc

\* The second table counts only if it was written more often
Newer(t, n) == t.wc > n.wc

\* nmbm_load_info_table up to the point where it starts to write
LoadTables ==
  LET first  == Search(FreshInstance, MgmtStart)
      n1     == Loaded(first.n, flash[first.ba])
      second == Search(n1, first.ba + 1)
      newer  == second.ba # 0 /\ Newer(flash[second.ba], n1)
      n2     == IF newer THEN Loaded(second.n, flash[second.ba]) ELSE second.n
  IN  IF first.ba = 0 THEN first.n
      ELSE [n2 EXCEPT
              !.main = first.ba,
              !.backup = second.ba,
              !.top = TopBelow(IF newer THEN second.ba ELSE first.ba),
              !.mapba = 1 + IF second.ba = 0 THEN first.ba ELSE second.ba,
              !.count = Max({l + 1 : l \in {k \in Logic : n2.map[k] >= 0}}
                            \cup IF \A k \in Logic : n2.map[k] < 0
                                 THEN {MgmtStart} ELSE {})]

\* nmbm_scan_badblocks and nmbm_build_mapping_table
BuildMapping(n) ==
  LET m == SetBad(n, mark)
      good == {b \in Logic : m.state[b] # "BAD"}
  IN  [m EXCEPT !.map = [l \in Logic |-> IF l < Cardinality(good)
                                         THEN Nth(good, l) ELSE -1],
                !.count = Cardinality(good)]

\* nmbm_attach at work with the table it has loaded or made up
Loading(n) == [NoControl EXCEPT !.cache = Table(n)]

\* No table: nmbm_create_info_table, for NMBM_F_CREATE ("forced-create")
AttachCreate ==
  /\ ctl.pc = "off"
  /\ LoadTables.main = 0
  /\ LET n == BuildMapping(LoadTables)
         room == Good(n, MgmtStart + 1, SigBa - 1)
         m == Generate([n EXCEPT !.top = Max(room)])
     IN  IF room = {}
         THEN ctl' = [NoControl EXCEPT !.pc = "dead"] /\ UNCHANGED ni
         ELSE Rebuild(m, Loading(m), "create")
  /\ Memory

\* One table: nmbm_rescue_single_info_table
RescueSingle(n, c) == WriteTable(c, MgmtStart, n.main, "single_front")

AttachSingle ==
  /\ ctl.pc = "off"
  /\ LoadTables.main # 0
  /\ LoadTables.backup = 0
  /\ ni' = Generate(LoadTables)
  /\ ctl' = RescueSingle(ni', Loading(ni'))
  /\ Memory

\* Two tables; nmbm_update_single_info_table when one was written less often
AttachTwo ==
  /\ ctl.pc = "off"
  /\ LoadTables.main # 0
  /\ LoadTables.backup # 0
  /\ LET n == Generate(LoadTables)
         m == flash[n.main].wc
         b == flash[n.backup].wc
     IN  IF m = b
         THEN /\ ni' = n
              /\ ctl' = [NoControl EXCEPT !.pc = "attached"]
         ELSE /\ ni' = [n EXCEPT !.changed = TRUE]
              /\ ctl' = IF m < b
                        THEN WriteTable(Loading(n), n.main, n.backup, "one_main")
                        ELSE WriteTable(Loading(n), n.backup, n.top, "one_backup")
  /\ Memory

OneMainWritten ==
  /\ ctl.pc = "one_main"
  /\ IF ctl.ok
     THEN /\ ni' = [Clean(ni) EXCEPT !.main = Here]
          /\ ctl' = [ctl EXCEPT !.pc = "attached"]
     ELSE /\ ni' = [ni EXCEPT !.main = ni.backup, !.backup = 0]
          /\ ctl' = RescueSingle(ni', ctl)
  /\ Memory

OneBackupWritten ==
  /\ ctl.pc = "one_backup"
  /\ ni' = IF ctl.ok
           THEN [Clean(ni) EXCEPT !.backup = Here, !.mapba = End]
           ELSE [ni EXCEPT !.mapba = ni.backup, !.backup = 0]
  /\ ctl' = [ctl EXCEPT !.pc = "attached"]
  /\ Memory

\* A second table in front of the only one, or else behind it
SingleFront ==
  /\ ctl.pc = "single_front"
  /\ IF ctl.ok
     THEN /\ ni' = [Clean(ni) EXCEPT !.backup = ni.main, !.main = Here]
          /\ ctl' = EraseRange(ctl, End, ni.main, "attached")
     ELSE LET w == Reserve(ni, ni.mapba)
          IN  /\ ctl' = IF w = 0 THEN [ctl EXCEPT !.pc = "attached"]
                        ELSE [WriteTable(ctl, w, ni.top, "single_behind")
                                EXCEPT !.wba = w]
              /\ UNCHANGED ni
  /\ Memory

\* mutant: write_ba stays where it is
SingleBehind_Again ==
  /\ ctl.pc = "single_behind"
  /\ IF ctl.ok
     THEN /\ ni' = [ni EXCEPT !.backup = Here, !.mapba = End]
          /\ ctl' = EraseRange(ctl, ni.mapba, Here, "single_clean")
     ELSE /\ ctl' = WriteTable(ctl, ctl.wba, ni.top, "single_behind")
          /\ UNCHANGED ni
  /\ Memory

SingleBehind ==
  /\ ctl.pc = "single_behind"
  /\ IF ctl.ok
     THEN /\ ni' = [ni EXCEPT !.backup = Here, !.mapba = End]
          /\ ctl' = EraseRange(ctl, ni.mapba, Here, "single_clean")
     ELSE /\ ctl' = IF ctl.wba > ni.mapba
                    THEN [WriteTable(ctl, ctl.wba - 1, ni.top, "single_behind")
                            EXCEPT !.wba = @ - 1]
                    ELSE [ctl EXCEPT !.pc = "attached"]
          /\ UNCHANGED ni
  /\ Memory

SingleClean ==
  /\ ctl.pc = "single_clean"
  /\ ni' = Clean(ni)
  /\ ctl' = [ctl EXCEPT !.pc = "attached"]
  /\ Memory

\* The end of nmbm_load_info_table: no spare block left, or no second table
Attached ==
  /\ ctl.pc = "attached"
  /\ ni' = [ni EXCEPT !.prot = @ \/ ni.mapba = ni.top \/ ~ctl.ok]
  /\ ctl' = Idle
  /\ Memory

\* nmbm_create_info_table goes on: blocks for the logic blocks at the end,
\* as many as there are, and the tables once more
CreateMap ==
  /\ ctl.pc = "create"
  /\ IF ni.count < MgmtStart /\ Unused(ni) # {}
     THEN /\ ni' = [MapBlock(ni, ni.count) EXCEPT !.count = @ + 1]
          /\ skipped' = (skipped \/ ni.top \notin Unused(ni))
          /\ UNCHANGED ctl
     ELSE /\ ctl' = [ctl EXCEPT !.pc = "update",
                                !.ret = IF ni.count < MgmtStart /\ ni.mapba # ni.top
                                        THEN "create_full" ELSE "created"]
          /\ UNCHANGED <<ni, skipped>>
  /\ UNCHANGED <<flash, mark, disk, fails, offs>>

CreateFull ==
  /\ ctl.pc = "create_full"
  /\ ni' = [ni EXCEPT !.top = ni.mapba]
  /\ ctl' = [ctl EXCEPT !.pc = "update", !.ret = "created"]
  /\ Memory

Created ==
  /\ ctl.pc = "created"
  /\ ctl' = [NoControl EXCEPT !.pc = IF ctl.ok THEN "idle" ELSE "dead"]
  /\ UNCHANGED ni
  /\ Memory
-----------------------------------------------------------------------------
(* Calls. Each begins with a step of its own, so that power can fail.      *)

CanCall(lb) == ctl.pc = "idle" /\ ~ni.prot /\ lb < ni.count
Begin(lb, pc, v) ==
  /\ CanCall(lb)
  /\ ctl' = [ctl EXCEPT !.pc = pc, !.lb = lb, !.val = v]
  /\ disk' = [disk EXCEPT ![lb] = Any]
  /\ UNCHANGED <<flash, mark, ni, skipped, fails, offs>>

\* nmbm_erase_block_range of one block
Erase(lb) == Begin(lb, "erase", Erased)

\* nmbm_write_range within one block
Write(lb, v) == Begin(lb, "write", Data(v))

Physical == ni.map[ctl.lb]

\* The block that the call is about to erase or to program
Sound == Physical >= 0 /\ ni.state[Physical] = "GOOD" /\ Physical \notin mark

EraseOk ==
  /\ ctl.pc = "erase"
  /\ Sound
  /\ flash' = [flash EXCEPT ![Physical] = Erased]
  /\ disk' = [disk EXCEPT ![ctl.lb] = Erased]
  /\ ctl' = Idle
  /\ UNCHANGED <<mark, ni, skipped, fails, offs>>

EraseFails ==
  /\ ctl.pc = "erase"
  /\ Sound
  /\ BlockFails(Physical)
  /\ ni' = SetBad(ni, {Physical})
  /\ ctl' = [ctl EXCEPT !.pc = "remap"]
  /\ UNCHANGED <<ghosts, offs>>

\* A block that is BAD or NEED_REMAP, or found to be marked, is not erased
EraseRefused ==
  /\ ctl.pc = "erase"
  /\ ~Sound
  /\ IF Physical < 0
     THEN ctl' = Idle /\ UNCHANGED ni
     ELSE /\ ctl' = [ctl EXCEPT !.pc = "remap"]
          /\ ni' = IF ni.state[Physical] = "GOOD" THEN SetBad(ni, {Physical})
                   ELSE ni
  /\ Memory

\* mutant: the retry does not wait for the tables
Remap_NoUpdate ==
  /\ ctl.pc = "remap"
  /\ Unused(ni) # {}
  /\ ni' = Condemn(MapBlock(ni, ctl.lb), Physical)
  /\ skipped' = (skipped \/ ni.top \notin Unused(ni))
  /\ ctl' = [ctl EXCEPT !.pc = "erase"]
  /\ UNCHANGED <<flash, mark, disk, fails, offs>>

\* label remap_logic_block: another block, and the tables before the retry
Remap ==
  /\ ctl.pc = "remap"
  /\ Unused(ni) # {}
  /\ ni' = Condemn(MapBlock(ni, ctl.lb), Physical)
  /\ skipped' = (skipped \/ ni.top \notin Unused(ni))
  /\ ctl' = [ctl EXCEPT !.pc = "update", !.ret = "erase"]
  /\ UNCHANGED <<flash, mark, disk, fails, offs>>

\* No block to be had; nmbm_map_block itself updates the tables when it had
\* to look for one
RemapFails ==
  /\ ctl.pc = "remap"
  /\ Unused(ni) = {}
  /\ IF ni.mapba = ni.top
     THEN /\ ni' = Condemn(Unmap(ni, ctl.lb), Physical)
          /\ ctl' = [ctl EXCEPT !.pc = "update", !.ret = "idle"]
     ELSE /\ ctl' = [ctl EXCEPT !.pc = "update", !.ret = "no_spare"]
          /\ UNCHANGED ni
  /\ Memory

NoSpare ==
  /\ ctl.pc = "no_spare"
  /\ ni' = Condemn(Unmap([ni EXCEPT !.top = ni.mapba], ctl.lb), Physical)
  /\ ctl' = [ctl EXCEPT !.pc = "update", !.ret = "idle"]
  /\ Memory

\* nmbm_write_logic_page. Only an erased block takes what is written.
Writable == Physical >= 0 /\ ni.state[Physical] # "BAD"

WriteOk ==
  /\ ctl.pc = "write"
  /\ Writable
  /\ LET blank == flash[Physical] = Erased
     IN  /\ flash' = [flash EXCEPT ![Physical] = IF blank THEN ctl.val ELSE Torn]
         /\ disk' = [disk EXCEPT ![ctl.lb] = IF blank THEN ctl.val ELSE Any]
  /\ ctl' = Idle
  /\ UNCHANGED <<mark, ni, skipped, fails, offs>>

WriteFails ==
  /\ ctl.pc = "write"
  /\ Writable
  /\ fails < MaxFail
  /\ fails' = fails + 1
  /\ flash' = [flash EXCEPT ![Physical] = Torn]
  /\ ni' = SetState(ni, {Physical}, "NEED_REMAP")
  /\ ctl' = [ctl EXCEPT !.pc = "update", !.ret = "idle"]
  /\ UNCHANGED <<mark, ghosts, offs>>

WriteRefused ==
  /\ ctl.pc = "write"
  /\ ~Writable
  /\ ctl' = Idle
  /\ UNCHANGED ni
  /\ Memory

\* nmbm_mark_bad_block
MarkBad(lb) ==
  /\ CanCall(lb)
  /\ ni.map[lb] >= 0
  /\ MarkBlock(ni.map[lb], 1)
  /\ fails' <= MaxFail
  /\ ni' = SetBad(Unmap(ni, lb), {ni.map[lb]})
  /\ disk' = [disk EXCEPT ![lb] = Any]
  /\ ctl' = [ctl EXCEPT !.pc = "update", !.ret = "idle"]
  /\ UNCHANGED <<flash, skipped, offs>>

\* The device goes off. Promises end here while there is no whole table: the
\* only one is being written in place, or not even that could be done and
\* users have been told to save their data.
Exposed ==
  /\ ni.backup = 0
  /\ \/ ni.main = 0
     \/ /\ ctl.next = "main_written"
        /\ ctl.pc \in {"table", "program", "main_written"}

Off ==
  /\ ctl' = NoControl
  /\ ni' = FreshInstance
  /\ disk' = IF Exposed THEN [l \in Logic |-> Any] ELSE disk

\* nmbm_detach
Detach ==
  /\ ctl.pc = "idle"
  /\ offs < MaxOff
  /\ offs' = offs + 1
  /\ ctl' = [ctl EXCEPT !.pc = "update", !.ret = "detached"]
  /\ UNCHANGED <<flash, mark, ni, ghosts, fails>>

Detached ==
  /\ ctl.pc = "detached"
  /\ Off
  /\ UNCHANGED <<flash, mark, skipped, fails, offs>>

\* The block an operation is under way on
InFlight ==
  CASE ctl.pc \in {"table", "range"} -> IF Usable = {} THEN {} ELSE {Min(Usable)}
    [] ctl.pc = "program" -> {ctl.ba}
    [] ctl.pc = "erase" -> IF Sound THEN {Physical} ELSE {}
    [] ctl.pc = "write" -> IF Writable THEN {Physical} ELSE {}
    [] OTHER -> {}

\* The power goes off, at any time
PowerCut ==
  /\ ctl.pc # "off"
  /\ offs < MaxOff
  /\ offs' = offs + 1
  /\ Off
  /\ flash' \in {flash} \cup {[flash EXCEPT ![b] = Torn] : b \in InFlight}
  /\ UNCHANGED <<mark, skipped, fails>>
-----------------------------------------------------------------------------
Calls ==
  \/ \E lb \in Logic : Erase(lb) \/ MarkBad(lb)
  \/ \E lb \in Logic, v \in Values : Write(lb, v)
  \/ Detach

Attach == AttachCreate \/ AttachSingle \/ AttachTwo

Tables ==
  \/ TableErase \/ TableProgram \/ TableNoRoom \/ RangeErase \/ RangeDone
  \/ Update \/ BackupWritten \/ MainWritten \/ MainFailed
  \/ TmpWritten \/ RescuedMain \/ RebuiltMain \/ RebuiltBackup

Attaching ==
  \/ OneMainWritten \/ OneBackupWritten \/ SingleFront \/ SingleBehind
  \/ SingleClean \/ Attached \/ CreateMap \/ CreateFull \/ Created

Working ==
  \/ EraseOk \/ EraseFails \/ EraseRefused \/ Remap \/ RemapFails \/ NoSpare
  \/ WriteOk \/ WriteFails \/ WriteRefused \/ Detached

Step == Tables \/ Attaching \/ Working

Next == Calls \/ Attach \/ Step \/ PowerCut

Spec == Init /\ [][Next]_vars

(* The processor goes on with a call it has begun. *)
FairSpec == Spec /\ WF_vars(Step)
-----------------------------------------------------------------------------
(* Properties *)

States == {"GOOD", "NEED_REMAP", "BAD"}
PhysicalOrNone == Blocks \cup {-1}

(* Type invariant. *)
TypeOK ==
  /\ \A b \in Blocks : flash[b].kind \in {"erased", "torn", "data", "table"}
  /\ mark \subseteq Blocks
  /\ ni.state \in [Blocks -> States]
  /\ ni.map \in [Logic -> PhysicalOrNone]
  /\ ni.wc \in Nat
  /\ {ni.main, ni.backup} \subseteq Blocks
  /\ ni.mapba \in 0..SigBa
  /\ ni.top \in 0..(SigBa - 1)
  /\ ni.count \in 0..MgmtStart
  /\ {ctl.ba, ctl.limit} \subseteq 0..SigBa
  /\ fails \in 0..MaxFail
  /\ offs \in 0..MaxOff

Running == ctl.pc \notin {"off", "dead"}

\* nmbm_read_range of one block
Read(lb) ==
  IF ni.prot THEN [kind |-> "EROFS"]
  ELSE IF lb >= ni.count THEN [kind |-> "EINVAL"]
  ELSE IF ni.map[lb] < 0 THEN [kind |-> "EIO"]
  ELSE IF ni.state[ni.map[lb]] = "BAD" THEN [kind |-> "EIO"]
  ELSE flash[ni.map[lb]]

(* What a user wrote or erased successfully is what is read (nmbm_erase_     *)
(* logic_block, nmbm_write_logic_page, nmbm_read_logic_page), however many  *)
(* blocks were replaced since and however often the power went off.         *)
ReadsBack ==
  ~skipped /\ ctl.pc = "idle" /\ ~ni.prot =>
    \A lb \in Logic : disk[lb] # Any => Read(lb) = disk[lb]

(* At every moment nmbm_load_info_table would find tables on the flash that *)
(* lead to everything users were promised: the power may go off while a     *)
(* table is written, while a rescue moves the tables around, during an      *)
(* attach that repairs an earlier cut. And the tables it finds lie below    *)
(* the blocks that replace others. The exception is Exposed.                *)
Survives ==
  ~skipped /\ ~(ctl.pc # "off" /\ Exposed) =>
    LET n == LoadTables
    IN  /\ n.main # 0 => n.mapba <= n.top
        /\ \A lb \in Logic : disk[lb] # Any =>
             /\ n.map[lb] >= 0
             /\ n.state[n.map[lb]] # "BAD"
             /\ flash[n.map[lb]] = disk[lb]

(* No two logic blocks are mapped to one physical block (nmbm_map_block,    *)
(* "Map a bad block to a unused spare block"). It does not hold after       *)
(* nmbm_map_block has passed over a bad block.                              *)
OneUser ==
  \A k, l \in Logic : k # l /\ ni.map[k] >= 0 => ni.map[k] # ni.map[l]

(* Unless nmbm_map_block has passed over a bad block, no two logic blocks   *)
(* share a physical one, and none is mapped into the part of the management *)
(* area that tables are written to.                                         *)
Apart ==
  ~skipped =>
    /\ OneUser
    /\ \A l \in Logic : ni.map[l] >= MgmtStart => ni.map[l] > ni.top

(* A protected device is read-only (nmbm_load_info_table, "Device is now    *)
(* read-only"): what users were promised can still be read. It does not     *)
(* hold: reads are refused as well.                                         *)
ReadOnlyReads ==
  ~skipped /\ ctl.pc = "idle" /\ ni.prot =>
    \A lb \in Logic : disk[lb] # Any => Read(lb) = disk[lb]

(* nmbm_update_info_table goes on "until no new bad block found during      *)
(* updating": when it is done, the tables list every block known to be bad. *)
(* It does not hold: a write that succeeds marks the tables clean.          *)
Recorded ==
  ctl.pc = "idle" /\ ~ni.prot =>
    \A b \in Blocks : ni.state[b] = "BAD" => flash[ni.main].state[b] = "BAD"

(* Every call, and nmbm_attach, comes to an end: the table update that      *)
(* starts again when a block fails, the search for a place for a table and  *)
(* the retry of an erase.                                                   *)
OpsReturn == Running ~> ctl.pc \in {"idle", "off", "dead"}
=============================================================================
