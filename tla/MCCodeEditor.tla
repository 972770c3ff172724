---------------------------- MODULE MCCodeEditor ----------------------------
EXTENDS CodeEditor
CONSTANTS x, y
SmallFiles == {<<>>, <<y>>}
Pasted == {<<y, CR, x>>}
Nothing == {}
EmptyFile == {<<>>}
\* For the two findings of the README that come out of a file with a text
TwoBytes == {<<y, x>>}
FullFile == {<<y, x, y>>}
=============================================================================
