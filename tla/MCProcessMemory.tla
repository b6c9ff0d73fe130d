-------------------------- MODULE MCProcessMemory --------------------------
EXTENDS ProcessMemory

Segment(va, offset, filesz, memsz) ==
    [va |-> va, offset |-> offset, filesz |-> filesz, memsz |-> memsz]

\* Text and data with its bss, on pages of their own; text alone; and text
\* with a segment that is all bss.
MCPrograms == {<<Segment(2, 0, 1, 1), Segment(5, 1, 1, 2)>>, <<Segment(3, 1, 1, 1)>>,
               <<Segment(2, 0, 1, 1), Segment(4, 2, 0, 1)>>}
=============================================================================
