------------------------------- MODULE Window -------------------------------
(***************************************************************************)
(* Window functions (executor/window.rs).  A call is [func, column,        *)
(* offset, default, partition_by, order_by, frame]; `frame` is an Option   *)
(* of [kind, start, end], a bound is a pair <<name, k>>.  Positions in a   *)
(* sorted partition start at 1, so an empty frame has start > end.         *)
(***************************************************************************)
EXTENDS Executor

UnboundedPreceding == <<"UnboundedPreceding", 0>>
UnboundedFollowing == <<"UnboundedFollowing", 0>>
CurrentRow == <<"CurrentRow", 0>>
Preceding(k) == <<"Preceding", k>>
Following(k) == <<"Following", k>>

resolve_bound(bound, pos, m) ==
  CASE bound = UnboundedPreceding -> 1
    [] bound = UnboundedFollowing -> m
    [] bound = CurrentRow -> pos
    [] bound[1] = "Preceding" -> Max({pos - bound[2], 1})
    [] bound[1] = "Following" -> Min({pos + bound[2], m})

\* apply_offset: an Option, empty for a value that is not a number.
apply_offset(v, k) == IF IsInt(v) THEN <<IntV(v[2] + k)>> ELSE <<>>

\* The value a bound stands for, relative to the current one; empty: unbounded.
BoundValue(bound, cur) ==
  CASE bound = CurrentRow -> <<cur>>
    [] bound[1] = "Preceding" -> apply_offset(cur, -bound[2])
    [] bound[1] = "Following" -> apply_offset(cur, bound[2])
    [] OTHER -> <<>>

resolve_range_by_value(order_vals, pos, start, end) ==
  LET low == BoundValue(start, order_vals[pos])
      high == BoundValue(end, order_vals[pos])
      inside == {i \in DOMAIN order_vals :
                   /\ low = <<>> \/ ~ValueLess(order_vals[i], low[1])
                   /\ high = <<>> \/ ~ValueLess(high[1], order_vals[i])}
  IN IF inside = {} THEN <<2, 1>> ELSE <<Min(inside), Max(inside)>>

\* The run of rows around `pos` that tie with it on all the ORDER BY columns.
PeerRun(keys, pos) ==
  {i \in DOMAIN keys : \A j \in DOMAIN keys : (i <= j /\ j <= pos) \/ (pos <= j /\ j <= i) => keys[j] = keys[pos]}

\* keys: the ORDER BY values of the partition's rows, in order.
resolve_frame(frame, pos, keys) ==
  LET m == Len(keys)
      peers == PeerRun(keys, pos)
  IN IF frame.kind = "Rows"
     THEN <<resolve_bound(frame.start, pos, m), resolve_bound(frame.end, pos, m)>>
     ELSE IF Len(keys[pos]) > 1
     THEN <<IF frame.start = CurrentRow THEN Min(peers) ELSE 1,
            IF frame.end = CurrentRow THEN Max(peers) ELSE m>>
     ELSE resolve_range_by_value([i \in DOMAIN keys |-> keys[i][1]], pos, frame.start, frame.end)

DefaultFrame_rows(order_by) ==
  [kind |-> "Rows", start |-> UnboundedPreceding, end |-> IF order_by = <<>> THEN UnboundedFollowing ELSE CurrentRow]
DefaultFrame(order_by) ==
  IF order_by = <<>> THEN [kind |-> "Rows", start |-> UnboundedPreceding, end |-> UnboundedFollowing]
  ELSE [kind |-> "Range", start |-> UnboundedPreceding, end |-> CurrentRow]

NumericOffset(frame) == {frame.start[1], frame.end[1]} \cap {"Preceding", "Following"} # {}

-----------------------------------------------------------------------------
\* The value of a call for the row at `pos` of a sorted partition: an Option.
RankAt(keys, pos, dense) ==
  LET changes == {i \in 2..pos : keys[i] # keys[i - 1]} IN
    IntV(IF dense THEN Cardinality(changes) + 1 ELSE Max(changes \cup {1}))

ShiftedValue(call, columns, part, target) ==
  LET at == column_index(columns, call.column) IN
    IF at = 0 THEN <<>> ELSE IF target \in DOMAIN part THEN <<part[target][at]>> ELSE <<call.default>>

AggregateOver(call, columns, part, keys, pos) ==
  LET frame == IF call.frame = <<>> THEN DefaultFrame(call.order_by) ELSE call.frame[1]
      span == resolve_frame(frame, pos, keys)
  IN IF frame.kind = "Range" /\ NumericOffset(frame) /\ Len(call.order_by) # 1 THEN <<>>
     ELSE IF span[1] > span[2] THEN <<IF call.agg = "Count" THEN IntV(0) ELSE Null>>
     ELSE eval_aggregate(call.agg, call.column, columns, SubSeq(part, span[1], span[2]))

CallAt(call, columns, part, keys, pos) ==
  CASE call.func = "RowNumber" -> <<IntV(pos)>>
    [] call.func \in {"Rank", "DenseRank"} -> <<RankAt(keys, pos, call.func = "DenseRank")>>
    [] call.func = "Lag" -> ShiftedValue(call, columns, part, pos - call.offset)
    [] call.func = "Lead" -> ShiftedValue(call, columns, part, pos + call.offset)
    [] call.func = "Agg" -> AggregateOver(call, columns, part, keys, pos)

\* eval_window_call: a sequence of Options, one per row, in the rows' order.
eval_window_call(call, columns, rows) ==
  LET pkey(r) == [i \in DOMAIN call.partition_by |-> r[column_index(columns, call.partition_by[i])]]
      okey(r) == [i \in DOMAIN call.order_by |-> r[column_index(columns, call.order_by[i].column)]]
      partOf(i) == StableSort(SelectSeq([j \in DOMAIN rows |-> j], LAMBDA j : pkey(rows[j]) = pkey(rows[i])),
                     LAMBDA j, k : OrderedBefore(columns, call.order_by, rows[j], rows[k]))
      valueOf(i) ==
        LET indices == partOf(i)
            part == [p \in DOMAIN indices |-> rows[indices[p]]]
        IN CallAt(call, columns, part, [p \in DOMAIN part |-> okey(part[p])],
                  CHOOSE p \in DOMAIN indices : indices[p] = i)
  IN [i \in DOMAIN rows |-> valueOf(i)]

CallColumns(call) ==
  {call.partition_by[i] : i \in DOMAIN call.partition_by}
    \cup {call.order_by[i].column : i \in DOMAIN call.order_by}

\* apply_window_funcs: every call sees the table before any window column.
apply_window_funcs(rs, calls) ==
  LET out == [c \in DOMAIN calls |-> eval_window_call(calls[c].call, rs.columns, rs.rows)] IN
    IF ~rs.ok \/ \E c \in DOMAIN calls : \E n \in CallColumns(calls[c].call) : column_index(rs.columns, n) = 0
    THEN Failed
    ELSE IF \E c \in DOMAIN calls : \E i \in DOMAIN rs.rows : out[c][i] = <<>> THEN Failed
    ELSE Result(rs.columns \o [c \in DOMAIN calls |-> calls[c].alias],
                [i \in DOMAIN rs.rows |-> rs.rows[i] \o [c \in DOMAIN calls |-> out[c][i][1]]])
=============================================================================
