------------------------------ MODULE MCRecorder ------------------------------
\* Workloads of the recorder: plain events, register frames, faults and a range
\* added; and two hub connections that query while a session runs.
EXTENDS TraceIndex
CONSTANTS p1, p2, q1, q2

Work == [threads |-> {p1, p2}, sessions |-> 1, events |-> 0, values |-> {0}, frames |-> 0,
         registers |-> {1, 2}, contexts |-> {<<0, 0>>, <<1, 0>>}, faults |-> {}, adds |-> 0, readers |-> {}]

MCWorkloads == {
  [Work EXCEPT !.events = 3],
  [Work EXCEPT !.events = 2, !.sessions = 2],
  [Work EXCEPT !.events = 2, !.faults = {"io", "spawn", "flush"}],
  [Work EXCEPT !.events = 1, !.adds = 1],
  [Work EXCEPT !.frames = 3, !.threads = {p1}],
  [Work EXCEPT !.frames = 2, !.registers = {1}, !.contexts = {<<0>>}],
  [Work EXCEPT !.events = 2, !.values = {0, 1}, !.threads = {p1}, !.readers = {q1}],
  [Work EXCEPT !.events = 1, !.threads = {p1}, !.sessions = 2, !.readers = {q1}],
  [Work EXCEPT !.events = 1, !.threads = {p1}, !.readers = {q1, q2}]}
==============================================================================
