------------------------------ MODULE TcTable ------------------------------
(***************************************************************************)
(* The parameters of the DMA test cases, as the test-case functions pass   *)
(* them: what TcEngine, SizeList, TcParallel and TcLink are run on.        *)
(***************************************************************************)
EXTENDS Integers

TX_ALIGN == 1
SZ_4K    == 4096
SZ_16K   == 16384

(* The argument of dmatest_sizelist_set, those of dmatest_sizelist_randomize. *)
Value(v)           == [kind |-> "set", min |-> v, max |-> v]
Randomize(min, max) == [kind |-> "randomize", min |-> min, max |-> max]

(* tc_test_init's call when no constant size is given.                     *)
AnySize == Randomize(1, 60 * 1024)

(* A test case that runs one buffer list on one channel.  "engine" holds   *)
(* the parameters TcEngine works on.                                       *)
Lists(laps, list_len, sg, ack, wrapper, size, align) ==
  [engine |-> [laps |-> laps, list_len |-> list_len, sg |-> sg, ack |-> ack,
               wrapper |-> wrapper],
   size |-> size, align |-> align]

Singles(laps, length, wrapper, size) ==
  Lists(laps, length, FALSE, TRUE, wrapper, size, TX_ALIGN)

tc_1  == Singles(1, 1, "goto_out", Value(32))
tc_2  == Singles(100, 30, "goto_out", Value(32))
tc_3  == Singles(10, 10, "unchecked", Value(1024))
tc_4  == Singles(10, 10, "unchecked", Value(8 * 1024))
tc_5  == Singles(100, 40, "unchecked", AnySize)
tc_15 == Singles(100, 40, "unchecked", Value(1))
tc_16 == Singles(100, 40, "unchecked", Value(2))
tc_17 == Singles(100, 40, "unchecked", Value(3))
tc_18 == Singles(100, 40, "unchecked", Value(4))
tc_19 == Singles(100, 40, "unchecked", Value(5))
tc_20 == Singles(100, 40, "unchecked", Randomize(1, 4))

tc_sg_buffer(scatter_list_entries, laps, buffer_size) ==
  Lists(laps, scatter_list_entries, TRUE, TRUE, "goto_out", Value(buffer_size), TX_ALIGN)

tc_6 == tc_sg_buffer(4, 1, 32)
tc_7 == tc_sg_buffer(200, 3, 160)
tc_8 == Lists(2, 16, TRUE, TRUE, "goto_out", Value(32), TX_ALIGN)

SCATTER_LIST_ENTRIES_MAX == 25

(* tc_9 and the endless tc_14 call tc_sg_buffer with every length below    *)
(* the limit (and every size from 2 up, of which the shortest stands for   *)
(* all: a lap does not depend on it).                                      *)
tc_9_calls  == {tc_sg_buffer(n, 1, 2) : n \in 1 .. SCATTER_LIST_ENTRIES_MAX - 1}
tc_14_calls == {tc_sg_buffer(n, 1, 2) : n \in 1 .. SCATTER_LIST_ENTRIES_MAX - 1}

(* A test case that runs a list on each of several channels.               *)
Group(driver, max_channels, start, list) ==
  [driver |-> driver, max_channels |-> max_channels, start |-> start, list |-> list]

tc_run_parallel_args(max_channels, laps, ack, chan_start_index, tx_align, size, list_len) ==
  Group("parallel", max_channels, chan_start_index,
        Lists(laps, list_len, FALSE, ack, "init", size, tx_align))

tc_26 == tc_run_parallel_args(3, 20, TRUE, 0, 1, AnySize, 30)
tc_27 == tc_run_parallel_args(4, 20, TRUE, 0, 1, AnySize, 30)
tc_28 == tc_run_parallel_args(5, 20, TRUE, 0, 1, AnySize, 30)
tc_29 == tc_run_parallel_args(6, 20, TRUE, 0, 1, AnySize, 30)
tc_30 == tc_run_parallel_args(7, 20, TRUE, 0, 1, AnySize, 30)
tc_31 == tc_run_parallel_args(128, 20, TRUE, 0, 1, AnySize, 30)
tc_32 == tc_run_parallel_args(1, 20, TRUE, 0, 1, AnySize, 30)
tc_33 == tc_run_parallel_args(2, 20, TRUE, 0, 1, AnySize, 30)
tc_35 == tc_run_parallel_args(1, 20, FALSE, 0, 1, AnySize, 30)
tc_50 == tc_run_parallel_args(5, 200, TRUE, 3, 4, AnySize, 30)
tc_53 == tc_run_parallel_args(5, 200, TRUE, 3, 1, AnySize, 30)
tc_54 == tc_run_parallel_args(5, 1, TRUE, 0, 1, Value(1024), 4)

pause_args(max_channels, tx_align) ==
  Group("pause", max_channels, 0,
        Lists(1, 1, FALSE, TRUE, "init", Value(60 * 1024), tx_align))

tc_21 == pause_args(1, 4)
tc_34 == pause_args(4, 1)
tc_51 == pause_args(2, 4)
tc_52 == pause_args(4, 4)

read_reg_args(size, list_len, laps) ==
  Group("read_reg", 1, 0, Lists(laps, list_len, TRUE, FALSE, "init", size, TX_ALIGN))

tc_36_44 == read_reg_args(Value(1024), 30, 10)
tc_45 == read_reg_args(AnySize, 30, 10)
tc_46 == read_reg_args(Value(128), 100, 10)
tc_47 == read_reg_args(AnySize, 100, 10)
tc_48 == read_reg_args(Value(128), 200, 1000)
tc_49 == read_reg_args(AnySize, 200, 1000)

(* struct tc_link_cfg; min_size and max_size are zero in every test case.  *)
tc_link_cfg(jobs, links, buffer_size, request_phys, start_in_sequence) ==
  [jobs |-> jobs, links |-> links, buffer_size |-> buffer_size,
   request_phys |-> request_phys, start_in_sequence |-> start_in_sequence]

tc_55 == tc_link_cfg(2, 5, SZ_4K, TRUE, FALSE)
tc_56 == tc_link_cfg(2, 5, SZ_4K, TRUE, TRUE)
tc_57 == tc_link_cfg(2, 1, SZ_16K, TRUE, TRUE)
tc_58 == tc_link_cfg(10, 1, SZ_16K, TRUE, TRUE)
tc_59 == tc_link_cfg(10, 10, SZ_4K, TRUE, TRUE)
tc_60 == tc_link_cfg(2, 2, 4096, FALSE, FALSE)
tc_61 == tc_link_cfg(2, 2, 4096, FALSE, TRUE)
tc_62 == tc_link_cfg(1, 90, 128, FALSE, TRUE)
tc_63 == tc_link_cfg(1, 140, 128, FALSE, TRUE)
tc_64 == tc_link_cfg(4, 80, 128, FALSE, FALSE)
tc_65 == tc_link_cfg(10, 10, SZ_4K, FALSE, TRUE)
tc_66 == tc_link_cfg(10, 1, SZ_16K, FALSE, TRUE)
tc_67 == tc_link_cfg(10, 10, SZ_4K, FALSE, TRUE)
tc_68 == tc_link_cfg(10, 10, SZ_4K, TRUE, TRUE)
tc_69_calls == {tc_link_cfg(1, 10, n * 65536 + d, FALSE, FALSE) : n \in {1, 2}, d \in {-1, 0, 1}}

ListTests == [tc_1 |-> tc_1, tc_2 |-> tc_2, tc_3 |-> tc_3, tc_4 |-> tc_4, tc_5 |-> tc_5,
              tc_6 |-> tc_6, tc_7 |-> tc_7, tc_8 |-> tc_8, tc_15 |-> tc_15, tc_16 |-> tc_16,
              tc_17 |-> tc_17, tc_18 |-> tc_18, tc_19 |-> tc_19, tc_20 |-> tc_20]

GroupTests == {tc_21, tc_26, tc_27, tc_28, tc_29, tc_30, tc_31, tc_32, tc_33, tc_34, tc_35,
               tc_36_44, tc_45, tc_46, tc_47, tc_48, tc_49, tc_50, tc_51, tc_52, tc_53, tc_54}

LinkTests == {tc_55, tc_56, tc_57, tc_58, tc_59, tc_60, tc_61, tc_62, tc_63, tc_64, tc_65,
              tc_66, tc_67, tc_68} \cup tc_69_calls

(* Every call of dmatest_sizelist_set and dmatest_sizelist_randomize.      *)
SizeCall(test, size, align, length) ==
  [test |-> test, size |-> size, align |-> align, length |-> length]

SizeCalls ==
  {LET l == ListTests[t] IN SizeCall(t, l.size, l.align, l.engine.list_len) :
     t \in DOMAIN ListTests}
  \cup {SizeCall("group", g.list.size, g.list.align, g.list.engine.list_len) : g \in GroupTests}
  \cup {SizeCall("link", Value(l.buffer_size), TX_ALIGN, l.links) : l \in LinkTests}

(* The parameters TcEngine is run with by the whole module.                *)
EngineConfigs ==
  {ListTests[t].engine : t \in DOMAIN ListTests}
  \cup {c.engine : c \in tc_9_calls \cup tc_14_calls}
  \cup {g.list.engine : g \in GroupTests}
=============================================================================
