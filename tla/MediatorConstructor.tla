------------------------ MODULE MediatorConstructor -------------------------
(***************************************************************************)
(* Which mediator answers a query: one for each kind of call, of source    *)
(* and of flags. A query without variables only has to be checked. Only    *)
(* finditer over a document asks whether the query has useful anchors; the *)
(* whole document is then its only segment.                                *)
(***************************************************************************)
\* A query as the constructor sees it.
Chosen(q, line_by_line, checks, lines, whole) ==
  LET names == IF q.markers = {} THEN checks ELSE <<whole, lines>>
  IN  names[IF line_by_line THEN 2 ELSE 1]

CreateFinditerMediator(q, line_by_line) ==
  Chosen(q, line_by_line, <<"check", "check_lbl">>, "finditer_lbl",
         IF q.anchored THEN "finditer_document" ELSE "finditer")

CreateFindoneMediator(q, line_by_line) ==
  Chosen(q, line_by_line, <<"check", "check_lbl">>, "findone_lbl", "findone")

CreateMultiFinditerMediator(q, line_by_line) ==
  Chosen(q, line_by_line, <<"multi_check", "multi_check_lbl">>, "multi_finditer_lbl",
         IF q.anchored THEN "multi_finditer_document" ELSE "multi_finditer")

CreateMultiFindoneMediator(q, line_by_line) ==
  Chosen(q, line_by_line, <<"multi_check", "multi_check_lbl">>, "multi_findone_lbl",
         "multi_findone")

CreateStreamMediator(q, line_by_line) ==
  Chosen(q, line_by_line, <<"stream_check", "stream_check_lbl">>, "stream_lbl",
         "stream")

CreateStreamFindoneMediator(q, line_by_line) ==
  CreateStreamMediator(q, line_by_line)

CreateStreamMultiMediator(q, line_by_line) ==
  Chosen(q, line_by_line, <<"stream_multi_check", "stream_multi_check_lbl">>,
         "stream_multi_lbl", "stream_multi")

\* Query::check and MultiQuery::check make the mediators of queries without
\* variables, whatever the query.
CheckOf(line_by_line) == IF line_by_line THEN "check_lbl" ELSE "check"
StreamCheckOf(line_by_line) ==
  IF line_by_line THEN "stream_check_lbl" ELSE "stream_check"
=============================================================================
