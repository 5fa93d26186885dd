----------------------------- MODULE MCTemplateRun --------------------------
(* Native templates, and a recording that meets its request limit.           *)
EXTENDS TemplateRun

R == [do |-> "request"]
N == [do |-> "native"]
X == [do |-> "extract"]
D == [do |-> "delay"]
IfThen(a, b) == [do |-> "if", then |-> a, else |-> b]
ForIn(body) == [do |-> "for", body |-> body]
WhileDo(body) == [do |-> "while", body |-> body]
EachOf(body) == [do |-> "foreach", body |-> body]

SomePrograms == {
  <<ForIn(<<R>>), R>>,
  <<WhileDo(<<IfThen(<<R>>, <<>>)>>)>>,
  <<ForIn(<<WhileDo(<<>>), D, R>>)>>,
  <<WhileDo(<<ForIn(<<ForIn(<<D>>)>>)>>), R>>,
  <<EachOf(<<IfThen(<<X>>, <<N>>)>>), D, N>>,
  <<R, R, R, R>> }
=============================================================================
